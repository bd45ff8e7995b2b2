--------------------------- MODULE LiveOms_proofs ---------------------------
(***************************************************************************)
(* Proofs about LiveOms, for every set of requests, keys and cancels,      *)
(* every order size and every number of faults.                            *)
(*                                                                         *)
(* The invariants of LiveOms are not inductive: what a pass commits        *)
(* depends on what it listed, what the broker answered and what happened   *)
(* to the order between.  IInv says what each of those uncommitted copies  *)
(* is worth.                                                               *)
(***************************************************************************)
EXTENDS LiveOms, CollectionLemmas, TLAPS

\* The filled quantity a raw status admits.
Shape(b) ==
    /\ b.st \in {None, "new"} => b.filled = 0
    /\ b.st = "partially_filled" => b.filled > 0
    /\ b.st = "filled" => b.filled = Qty
    /\ b.st # "filled" => b.filled < Qty

BookOK == \A r \in Requests : Shape(book[r])

\* A partial order has traded.
TradedOK == \A r \in Requests : row[r] = "partial" => book[r].filled > 0

\* A request in flight has no visible row; an accepted order and a reply name
\* an order the broker holds; a running cancel names a visible row.
CallsOK ==
    /\ \A r \in Requests :
          /\ place[r] # "done" => row[r] = None
          /\ place[r] = "accepted" => book[r].st # None
          /\ reply[r] \in Requests =>
                SameKey(reply[r], r) /\ book[reply[r]].st # None
    /\ \A c \in Cancels :
          cancel[c].pc \in {"read", "called"} =>
              cancel[c].order \in Requests /\ row[cancel[c].order] # None

\* The loop has visited order r in the pass that is running.
Visited(r) ==
    phase = "fetched" /\ seen[r] # None /\ snap[r].st # None /\ r \notin todo

\* A listed order can only have been cancelled since; the broker's answer is
\* out of date at most by being too low, and never below the ledger; the pass
\* has staged exactly what the loop body computes for the orders it visited.
PassOK ==
    /\ phase # "fetched" => todo = {}
    /\ \A r \in Requests :
          /\ seen[r] # None => row[r] \in {seen[r], "cancelled"}
          /\ r \in todo => seen[r] # None /\ snap[r].st # None
          /\ Shape(snap[r])
          /\ seen[r] = "partial" => book[r].filled > 0
          /\ phase = "fetched" =>
                /\ recorded[r] <= snap[r].filled
                /\ snap[r].filled <= book[r].filled
                /\ seen[r] = "partial" => snap[r].filled > 0
          /\ Visited(r) => fills[r] = Delta(r) /\ moves[r] = NewStatus(r)
          /\ ~Visited(r) => fills[r] = 0 /\ moves[r] = None

IInv ==
    /\ TypeOK
    /\ BookOK
    /\ TradedOK
    /\ CallsOK
    /\ PassOK
    /\ OneExposurePerKey
    /\ RowsAreAtBroker
    /\ LedgerWithinBroker
    /\ StatusMatchesLedger
    /\ StatusAudited

-----------------------------------------------------------------------------
(* The order rules                                                         *)

\* map_status always returns a status of ours.
LEMMA MapStatusIsStatus ==
    ASSUME NEW raw
    PROVE  map_status(raw) \in OrderStatus
  BY DEF map_status, OrderStatus

\* The rows of the transition table that reconciliation consults.
LEMMA LegalSteps ==
    /\ \A s, t : s \in OrderStatus /\ Allowed(s, t) => t \in OrderStatus
    /\ \A t : Allowed("submitted", t)
                 <=> t \in {"partial", "filled", "cancelled", "rejected"}
    /\ \A t : Allowed("partial", t) <=> t \in {"filled", "cancelled"}
  BY DEF Allowed, VALID_TRANSITIONS, OrderStatus

-----------------------------------------------------------------------------
(* The initial states                                                      *)

\* The empty desk satisfies the invariant.
LEMMA InitIInv == Init => IInv
<1> SUFFICES ASSUME Init PROVE IInv
  OBVIOUS
<1>1. TypeOK
  BY ConstantsOK DEF Init, TypeOK, BrokerOrder, NoOrder, PlacePC, CancelPC
<1>2. BookOK
  BY ConstantsOK DEF Init, BookOK, Shape, NoOrder, None
<1>3. CallsOK
  BY ConstantsOK DEF Init, CallsOK, None
<1>4. PassOK
  BY ConstantsOK DEF Init, PassOK, Visited, Shape, NoOrder, None
<1>5. OneExposurePerKey /\ RowsAreAtBroker /\ LedgerWithinBroker
  BY DEF Init, OneExposurePerKey, RowsAreAtBroker, LedgerWithinBroker, NoOrder
<1>6. StatusMatchesLedger /\ StatusAudited /\ TradedOK
  BY DEF Init, StatusMatchesLedger, StatusAudited, TradedOK, OpenStatus, None
<1> QED
  BY <1>1, <1>2, <1>3, <1>4, <1>5, <1>6 DEF IInv

-----------------------------------------------------------------------------
(* What the kinds of steps preserve                                        *)

\* The conjuncts of IInv that say nothing of API requests.
WorldOK ==
    /\ BookOK
    /\ TradedOK
    /\ PassOK
    /\ OneExposurePerKey
    /\ RowsAreAtBroker
    /\ LedgerWithinBroker
    /\ StatusMatchesLedger
    /\ StatusAudited

\* A step of an API request that writes neither the database nor the broker.
LEMMA ApiStep ==
    ASSUME IInv, UNCHANGED <<dbVars, book, passVars>>
    PROVE  WorldOK'
  BY DEF IInv, WorldOK, BookOK, TradedOK, PassOK, Visited, Delta, NewStatus,
         OneExposurePerKey, RowsAreAtBroker, LedgerWithinBroker,
         StatusMatchesLedger, StatusAudited, dbVars, passVars

\* The broker takes or rejects an order whose client_order_id it had not seen.
LEMMA NewBrokerOrder ==
    ASSUME IInv,
           NEW r \in Requests, ~ClientOrderIdTaken(r),
           NEW st \in {"new"} \cup MapsToRejected,
           book' = [book EXCEPT ![r].st = st],
           UNCHANGED <<dbVars, passVars>>
    PROVE  /\ WorldOK'
           /\ book' \in [Requests -> BrokerOrder]
           /\ \A q \in Requests : book[q].st # None => book'[q].st # None
<1>1. /\ book \in [Requests -> BrokerOrder]
      /\ book[r].st = None
  BY DEF IInv, TypeOK, ClientOrderIdTaken
<1>2. /\ book'[r] = [st |-> st, filled |-> 0]
      /\ \A q \in Requests \ {r} : book'[q] = book[q]
      /\ st # None
  BY <1>1 DEF IInv, BookOK, Shape, BrokerOrder, MapsToRejected, None
<1>3. book' \in [Requests -> BrokerOrder]
  <2>1. st \in RawStatus
    BY DEF RawStatus, Working, Paused, Closed, MapsToRejected
  <2> QED
    BY <1>1, <2>1, ConstantsOK DEF BrokerOrder
<1>4. /\ BookOK'
      /\ RowsAreAtBroker'
      /\ LedgerWithinBroker'
  <2>1. BookOK'
    BY <1>2, ConstantsOK DEF IInv, BookOK, Shape, MapsToRejected, None
  <2>2. RowsAreAtBroker'
    BY <1>2 DEF IInv, RowsAreAtBroker, dbVars
  <2>3. book[r].filled = 0
    BY <1>1 DEF IInv, BookOK, Shape
  <2>4. LedgerWithinBroker'
    BY <1>2, <2>3 DEF IInv, LedgerWithinBroker, dbVars
  <2> QED
    BY <2>1, <2>2, <2>4
<1>5. OneExposurePerKey'
  BY <1>2 DEF IInv, OneExposurePerKey, SameKey, ClientOrderIdTaken, ClientOrderId
<1>6. PassOK'
  BY <1>1, <1>2 DEF IInv, PassOK, BookOK, Shape, Visited, Delta, NewStatus,
     BrokerOrder, dbVars, passVars, None
<1>7. StatusMatchesLedger' /\ StatusAudited' /\ TradedOK'
  <2>1. StatusMatchesLedger' /\ StatusAudited'
    BY DEF IInv, StatusMatchesLedger, StatusAudited, dbVars
  <2>2. row[r] = None
    BY <1>1 DEF IInv, RowsAreAtBroker
  <2>3. TradedOK'
    BY <1>2, <2>2 DEF IInv, TradedOK, dbVars, None
  <2> QED
    BY <2>1, <2>3
<1> QED
  BY <1>1, <1>2, <1>3, <1>4, <1>5, <1>6, <1>7 DEF WorldOK

\* The broker moves one of its orders, and never takes a fill back.
LEMMA BrokerOrderMoves ==
    ASSUME IInv,
           NEW r \in Requests, book[r].st # None,
           NEW b \in BrokerOrder, b.st # None, Shape(b), book[r].filled <= b.filled,
           book' = [book EXCEPT ![r] = b],
           UNCHANGED <<dbVars, passVars, place, reply>>
    PROVE  /\ WorldOK'
           /\ book' \in [Requests -> BrokerOrder]
           /\ \A q \in Requests : book[q].st # None => book'[q].st # None
<1>1. /\ book \in [Requests -> BrokerOrder]
      /\ recorded \in [Requests -> 0..Qty]
      /\ snap \in [Requests -> BrokerOrder]
      /\ Qty \in Nat
  BY ConstantsOK DEF IInv, TypeOK
<1>2. /\ book'[r] = b
      /\ \A q \in Requests \ {r} : book'[q] = book[q]
  BY <1>1
<1>3. \A q \in Requests : /\ book'[q].st # None <=> book[q].st # None
                          /\ book[q].filled <= book'[q].filled
                          /\ book[q].filled \in Nat /\ book'[q].filled \in Nat
  BY <1>1, <1>2 DEF BrokerOrder
<1>4. BookOK' /\ RowsAreAtBroker' /\ OneExposurePerKey'
  BY <1>2, <1>3 DEF IInv, BookOK, RowsAreAtBroker, OneExposurePerKey, dbVars
<1>5. LedgerWithinBroker'
  BY <1>1, <1>3 DEF IInv, LedgerWithinBroker, dbVars
<1>6. PassOK'
  BY <1>1, <1>3 DEF IInv, PassOK, Visited, Delta, NewStatus, BrokerOrder, dbVars, passVars
<1>7. StatusMatchesLedger' /\ StatusAudited' /\ TradedOK'
  <2>1. StatusMatchesLedger' /\ StatusAudited'
    BY DEF IInv, StatusMatchesLedger, StatusAudited, dbVars
  <2>2. TradedOK'
    BY <1>3 DEF IInv, TradedOK, dbVars
  <2> QED
    BY <2>1, <2>2
<1> QED
  BY <1>1, <1>2, <1>3, <1>4, <1>5, <1>6, <1>7 DEF WorldOK

-----------------------------------------------------------------------------
(* One lemma per process                                                   *)

\* The handler of POST /v1/orders preserves the invariant.
LEMMA PlaceIInv ==
    ASSUME IInv, NEW r \in Requests, Place(r)
    PROVE  IInv'
<1> USE ConstantsOK DEF IInv
<1>1. CASE PlaceLookup(r)
  <2>1. WorldOK'
    BY <1>1, ApiStep DEF PlaceLookup
  <2>2. TypeOK'
    BY <1>1 DEF PlaceLookup, TypeOK, PlacePC, dbVars, passVars
  <2>3. CallsOK'
    BY <1>1 DEF PlaceLookup, CallsOK, TypeOK, PlacePC, SameKey, RowsAreAtBroker,
       dbVars
  <2> QED
    BY <2>1, <2>2, <2>3 DEF WorldOK
<1>2. CASE PlaceRefuse(r)
  <2>1. WorldOK'
    BY <1>2, ApiStep DEF PlaceRefuse
  <2>2. TypeOK' /\ CallsOK'
    BY <1>2 DEF PlaceRefuse, Refused, TypeOK, CallsOK, PlacePC, SameKey, dbVars, passVars
  <2> QED
    BY <2>1, <2>2 DEF WorldOK
<1>3. CASE PlaceInsert(r)
  <2>1. WorldOK'
    BY <1>3, ApiStep DEF PlaceInsert
  <2>2. TypeOK'
    BY <1>3 DEF PlaceInsert, Refused, TypeOK, PlacePC, dbVars, passVars
  <2>3. CASE Refused(r)
    BY <1>3, <2>1, <2>2, <2>3 DEF PlaceInsert, Refused, CallsOK, TypeOK, SameKey, WorldOK,
       dbVars
  <2>4. CASE place' = [place EXCEPT ![r] = "inserted"] /\ UNCHANGED reply
    BY <1>3, <2>1, <2>2, <2>4 DEF PlaceInsert, CallsOK, TypeOK, SameKey, WorldOK, dbVars
  <2> QED
    BY <1>3, <2>3, <2>4 DEF PlaceInsert
<1>4. CASE PlaceSubmit(r)
  <2>1. /\ WorldOK'
        /\ book' \in [Requests -> BrokerOrder]
        /\ \A q \in Requests : book[q].st # None => book'[q].st # None
    BY <1>4, NewBrokerOrder DEF PlaceSubmit
  <2>2. TypeOK'
    BY <1>4, <2>1 DEF PlaceSubmit, TypeOK, PlacePC, dbVars, passVars
  <2>3. book'[r].st # None
    BY <1>4, <2>1 DEF PlaceSubmit, TypeOK, BrokerOrder, None
  <2>4. CallsOK'
    BY <1>4, <2>1, <2>3 DEF PlaceSubmit, CallsOK, TypeOK, PlacePC, SameKey, dbVars
  <2> QED
    BY <2>1, <2>2, <2>4 DEF WorldOK
<1>5. CASE PlaceRejected(r) \/ PlaceTimeout(r)
  <2>1. /\ WorldOK'
        /\ book' \in [Requests -> BrokerOrder]
        /\ \A q \in Requests : book[q].st # None => book'[q].st # None
    <3>1. CASE PlaceRejected(r)
      <4>1. PICK st \in MapsToRejected : book' = [book EXCEPT ![r].st = st]
        BY <3>1 DEF PlaceRejected
      <4> QED
        BY <3>1, <4>1, NewBrokerOrder DEF PlaceRejected
    <3>2. CASE PlaceTimeout(r)
      BY <3>2, NewBrokerOrder DEF PlaceTimeout
    <3> QED
      BY <1>5, <3>1, <3>2
  <2>2. TypeOK'
    BY <1>5, <2>1 DEF PlaceRejected, PlaceTimeout, Fault, Refused, TypeOK, PlacePC,
       dbVars, passVars
  <2>3. CallsOK'
    BY <1>5, <2>1 DEF PlaceRejected, PlaceTimeout, Refused, CallsOK, TypeOK, PlacePC,
       SameKey, dbVars
  <2> QED
    BY <2>1, <2>2, <2>3 DEF WorldOK
<1>6. CASE PlaceUnavailable(r) \/ PlaceCrash(r)
  <2>1. WorldOK'
    BY <1>6, ApiStep DEF PlaceUnavailable, PlaceCrash
  <2>2. TypeOK' /\ CallsOK'
    BY <1>6 DEF PlaceUnavailable, PlaceCrash, Fault, Refused, TypeOK, CallsOK, PlacePC,
       SameKey, dbVars, passVars
  <2> QED
    BY <2>1, <2>2 DEF WorldOK
<1>7. CASE PlaceCommit(r)
  <2>1. /\ row[r] = None /\ row'[r] = "submitted" /\ book[r].st # None
        /\ \A q \in Requests \ {r} : row'[q] = row[q]
    BY <1>7 DEF PlaceCommit, TypeOK, CallsOK
  <2>2. TypeOK'
    BY <1>7 DEF PlaceCommit, TypeOK, PlacePC, OrderStatus, passVars
  <2>3. CallsOK'
    BY <1>7, <2>1 DEF PlaceCommit, CallsOK, TypeOK, SameKey, None
  <2>4. PassOK'
    BY <1>7, <2>1 DEF PlaceCommit, PassOK, TypeOK, Visited, Delta, NewStatus, passVars,
       OpenStatus, None
  <2>5. RowsAreAtBroker' /\ StatusMatchesLedger' /\ StatusAudited' /\ TradedOK'
    BY <1>7, <2>1 DEF PlaceCommit, RowsAreAtBroker, StatusMatchesLedger, StatusAudited,
       TradedOK, OpenStatus, None
  <2>6. BookOK' /\ OneExposurePerKey' /\ LedgerWithinBroker'
    BY <1>7 DEF PlaceCommit, BookOK, OneExposurePerKey, LedgerWithinBroker
  <2> QED
    BY <2>2, <2>3, <2>4, <2>5, <2>6
<1> QED
  BY <1>1, <1>2, <1>3, <1>4, <1>5, <1>6, <1>7 DEF Place

\* The handler of POST /v1/orders/{id}/cancel preserves the invariant.
LEMMA CancelIInv ==
    ASSUME IInv, NEW c \in Cancels, Cancel(c)
    PROVE  IInv'
<1> USE ConstantsOK DEF IInv
<1>1. ASSUME NEW r \in Requests, CancelRead(c, r)
      PROVE  IInv'
  <2>1. WorldOK'
    BY <1>1, ApiStep DEF CancelRead
  <2>2. TypeOK' /\ CallsOK'
    BY <1>1 DEF CancelRead, TypeOK, CallsOK, CancelPC, SameKey, None, dbVars, passVars
  <2> QED
    BY <2>1, <2>2 DEF WorldOK
<1> DEFINE o == cancel[c].order
<1>2. cancel[c].pc \in {"read", "called"} =>
          o \in Requests /\ row[o] # None /\ book[o].st # None
  BY DEF CallsOK, RowsAreAtBroker
<1>3. \A pc \in CancelPC :
          cancel' = [cancel EXCEPT ![c].pc = pc] =>
             /\ cancel' \in [Cancels -> [pc : CancelPC, order : Requests \cup {None}]]
             /\ cancel'[c].pc = pc /\ cancel'[c].order = o
             /\ \A d \in Cancels \ {c} : cancel'[d] = cancel[d]
  BY DEF TypeOK
<1>4. CASE CancelCall(c)
  <2>1. /\ cancel[c].pc = "read"
        /\ cancel' = [cancel EXCEPT ![c].pc = "called"]
        /\ UNCHANGED <<dbVars, place, reply, passVars, faults>>
    BY <1>4 DEF CancelCall
  <2>2. PICK b \in BrokerOrder :
           /\ b.st # None /\ Shape(b) /\ b.filled = book[o].filled
           /\ book' = [book EXCEPT ![o] = b]
    <3>1. CASE book[o].st \in Working
      <4> DEFINE b == [st |-> "pending_cancel", filled |-> book[o].filled]
      <4>1. /\ o \in Requests /\ book \in [Requests -> BrokerOrder]
            /\ book' = [book EXCEPT ![o].st = "pending_cancel"]
        BY <1>2, <1>4, <3>1, <2>1 DEF CancelCall, TypeOK
      <4>2. book[o] \in BrokerOrder /\ [book[o] EXCEPT !.st = "pending_cancel"] = b
        BY <4>1 DEF BrokerOrder
      <4>3. book' = [book EXCEPT ![o] = b]
        BY <4>1, <4>2
      <4>4. b \in BrokerOrder /\ b.st # None /\ Shape(b)
        <5>1. "pending_cancel" \in RawStatus
          BY DEF RawStatus, Working, Paused
        <5>2. book[o].filled < Qty
          BY <1>2, <2>1, <3>1 DEF BookOK, Shape, Working, Paused
        <5> QED
          BY <4>2, <5>1, <5>2 DEF BrokerOrder, Shape, None
      <4> QED
        BY <4>3, <4>4
    <3>2. CASE book[o].st \notin Working
      <4>1. book' = [book EXCEPT ![o] = book[o]]
        BY <1>2, <1>4, <3>2, <2>1 DEF CancelCall, TypeOK, BrokerOrder
      <4> QED
        BY <1>2, <2>1, <4>1 DEF TypeOK, BookOK
    <3> QED
      BY <3>1, <3>2
  <2>3. /\ WorldOK'
        /\ book' \in [Requests -> BrokerOrder]
        /\ \A q \in Requests : book[q].st # None => book'[q].st # None
    <3>1. o \in Requests /\ book[o].st # None /\ book[o].filled <= b.filled
      BY <1>2, <2>1, <2>2 DEF BrokerOrder
    <3> QED
      BY <2>1, <2>2, <3>1, BrokerOrderMoves
  <2>4. TypeOK'
    BY <1>3, <2>1, <2>3 DEF TypeOK, CancelPC, dbVars, passVars
  <2>5. CallsOK'
    BY <1>2, <1>3, <2>1, <2>3 DEF CallsOK, TypeOK, CancelPC, SameKey, dbVars
  <2> QED
    BY <2>3, <2>4, <2>5 DEF WorldOK
<1>5. CASE CancelCallLost(c) \/ CancelCrash(c)
  <2>1. WorldOK'
    BY <1>5, ApiStep DEF CancelCallLost, CancelCrash
  <2>2. /\ TypeOK'
        /\ CallsOK'
    BY <1>2, <1>3, <1>5 DEF CancelCallLost, CancelCrash, Fault, TypeOK, CallsOK, CancelPC,
       SameKey, dbVars, passVars
  <2> QED
    BY <2>1, <2>2 DEF WorldOK
<1>6. CASE CancelCommit(c)
  <2>1. /\ o \in Requests /\ row[o] # None /\ book[o].st # None
        /\ row' = [row EXCEPT ![o] = "cancelled"]
        /\ audit' = audit \cup {<<o, "cancelled">>}
        /\ cancel' = [cancel EXCEPT ![c].pc = "done"]
        /\ UNCHANGED <<recorded, position, unbooked, early, book, place, reply, passVars,
                       faults>>
    BY <1>2, <1>6 DEF CancelCommit
  <2>2. /\ row'[o] = "cancelled"
        /\ \A q \in Requests \ {o} : row'[q] = row[q]
        /\ row' \in [Requests -> OrderStatus \cup {None}]
    BY <2>1 DEF TypeOK, OrderStatus
  <2>3. TypeOK'
    BY <1>3, <2>1, <2>2 DEF TypeOK, CancelPC, OrderStatus, passVars
  <2>4. CallsOK'
    BY <1>2, <1>3, <2>1, <2>2 DEF CallsOK, TypeOK, CancelPC, SameKey, None
  <2>5. PassOK'
    BY <2>1, <2>2 DEF PassOK, TypeOK, Visited, Delta, NewStatus, passVars, None
  <2>6. RowsAreAtBroker' /\ StatusMatchesLedger' /\ StatusAudited' /\ TradedOK'
    BY <2>1, <2>2 DEF RowsAreAtBroker, StatusMatchesLedger, StatusAudited, TradedOK,
       OpenStatus, None
  <2>7. BookOK' /\ OneExposurePerKey' /\ LedgerWithinBroker'
    BY <2>1 DEF BookOK, OneExposurePerKey, LedgerWithinBroker
  <2> QED
    BY <2>3, <2>4, <2>5, <2>6, <2>7
<1> QED
  BY <1>1, <1>4, <1>5, <1>6 DEF Cancel

\* A reconciliation pass preserves the invariant.
LEMMA ReconcileIInv ==
    ASSUME IInv, Reconcile
    PROVE  IInv'
<1> USE ConstantsOK DEF IInv
<1> DEFINE Rest == /\ CallsOK /\ BookOK /\ OneExposurePerKey /\ RowsAreAtBroker
                   /\ LedgerWithinBroker /\ StatusMatchesLedger /\ StatusAudited
                   /\ TradedOK
<1>1. ASSUME UNCHANGED <<dbVars, book, apiVars>>
      PROVE  Rest'
  BY <1>1 DEF CallsOK, BookOK, OneExposurePerKey, RowsAreAtBroker, LedgerWithinBroker,
     StatusMatchesLedger, StatusAudited, TradedOK, dbVars, apiVars
<1>2. ASSUME PassCleared
      PROVE  /\ phase' = "idle" /\ todo' = {} /\ netQty' = 0
             /\ \A r \in Requests : /\ seen'[r] = None /\ moves'[r] = None
                                    /\ fills'[r] = 0 /\ snap'[r] = NoOrder
             /\ PassOK'
  BY <1>2 DEF PassCleared, PassOK, Visited, Shape, NoOrder, None
<1>3. CASE ReconcileList
  <2>1. TypeOK'
    BY <1>3 DEF ReconcileList, TypeOK, dbVars, apiVars
  <2>2. PassOK'
    BY <1>3 DEF ReconcileList, PassOK, TradedOK, TypeOK, Visited, OpenStatus, None, dbVars
  <2> QED
    BY <1>1, <1>3, <2>1, <2>2 DEF ReconcileList
<1>4. CASE ReconcileFetch \/ ReconcileFetchUnpriced
  <2>1. PICK missing \in SUBSET Requests :
           Fetched(missing) /\ (UNCHANGED faults \/ Fault)
    BY <1>4 DEF ReconcileFetch, ReconcileFetchUnpriced
  <2>2. TypeOK'
    BY <2>1 DEF Fetched, Fault, TypeOK, dbVars, apiVars
  <2>3. PassOK'
    BY <2>1 DEF Fetched, PassOK, TypeOK, BookOK, LedgerWithinBroker, Visited,
       BrokerOrder, dbVars
  <2> QED
    BY <1>1, <2>1, <2>2, <2>3 DEF Fetched
<1>5. ASSUME NEW r \in Requests, ReconcileOrder(r)
      PROVE  IInv'
  <2>1. /\ r \in todo /\ phase = "fetched" /\ seen[r] \in OpenStatus
        /\ todo' = todo \ {r}
        /\ fills'[r] = Delta(r) /\ moves'[r] = NewStatus(r)
        /\ \A q \in Requests \ {r} : fills'[q] = fills[q] /\ moves'[q] = moves[q]
        /\ UNCHANGED <<dbVars, book, apiVars, phase, seen, snap, unpriced, faults>>
    BY <1>5 DEF ReconcileOrder, TypeOK, PassOK
  <2>2. Delta(r) \in 0..Qty
    BY DEF Delta, TypeOK, BrokerOrder
  <2>3. NewStatus(r) \in OrderStatus \cup {None}
    BY MapStatusIsStatus DEF NewStatus
  <2>4. netQty' \in Int
    BY <1>5, <2>2 DEF ReconcileOrder, Signed, TypeOK
  <2>5. TypeOK'
    BY <1>5, <2>2, <2>3, <2>4 DEF ReconcileOrder, TypeOK, dbVars, apiVars
  <2>6. PassOK'
    BY <2>1 DEF PassOK, Visited, Delta, NewStatus, dbVars
  <2> QED
    BY <1>1, <2>1, <2>5, <2>6
<1>6. CASE ReconcileCommit
  <2>1. /\ phase = "fetched" /\ todo = {}
        /\ \A r \in Requests :
              /\ recorded'[r] = recorded[r] + fills[r]
              /\ row'[r] = IF moves[r] # None THEN moves[r] ELSE row[r]
        /\ UNCHANGED <<book, apiVars, faults>>
    BY <1>6 DEF ReconcileCommit
  \* What the commit does to an order the loop visited.
  <2>2. ASSUME NEW r \in Requests, Visited(r)
        PROVE  /\ recorded[r] <= recorded'[r] /\ recorded'[r] <= snap[r].filled
               /\ r \notin unbooked' => recorded'[r] = snap[r].filled
               /\ seen[r] \in OpenStatus
               /\ moves[r] = NewStatus(r)
    <3>1. seen[r] \in OpenStatus /\ moves[r] = NewStatus(r) /\ fills[r] = Delta(r)
      BY <2>2 DEF PassOK, TypeOK, Visited
    <3>2. /\ recorded[r] \in Nat /\ snap[r].filled \in Nat
          /\ recorded[r] <= snap[r].filled
      BY <2>1 DEF PassOK, TypeOK, BrokerOrder
    <3>3. r \in Polled
      BY <2>2 DEF Visited, Polled
    <3>4. r \in unpriced /\ snap[r].filled > recorded[r] => r \in unbooked'
      BY <1>6, <3>3 DEF ReconcileCommit
    <3> QED
      BY <2>1, <3>1, <3>2, <3>4 DEF Delta
  \* The broker's status decides the new one.
  <2>3. ASSUME NEW r \in Requests, Visited(r)
        PROVE  /\ moves[r] = "partial" => snap[r].filled > 0 /\ snap[r].filled < Qty
               /\ moves[r] = "filled" => snap[r].filled = Qty
               /\ moves[r] = None => snap[r].filled < Qty
               /\ moves[r] # "submitted"
    <3>1. Shape(snap[r]) /\ snap[r] \in BrokerOrder /\ snap[r].st # None
      BY <2>3 DEF PassOK, TypeOK, Visited
    <3>2. row[r] \in {seen[r], "cancelled"}
      BY <2>3 DEF PassOK, Visited
    <3> QED
      BY <2>2, <2>3, <3>1, <3>2, LegalSteps DEF NewStatus, Shape, map_status, BrokerOrder,
         RawStatus, Working, Paused, Closed, OpenStatus, MapsToPartial, MapsToFilled,
         MapsToCancelled, MapsToRejected, None
  <2>4. ASSUME NEW r \in Requests, ~Visited(r)
        PROVE  /\ recorded'[r] = recorded[r] /\ row'[r] = row[r]
               /\ r \in unbooked' <=> r \in unbooked
    <3>1. recorded'[r] = recorded[r] /\ row'[r] = row[r]
      BY <2>1, <2>4 DEF PassOK, TypeOK
    <3>2. r \notin Polled
      BY <2>1, <2>4 DEF Polled, Visited
    <3> QED
      BY <1>6, <3>1, <3>2 DEF ReconcileCommit
  <2>5. \A r \in Requests : recorded'[r] \in 0..Qty /\ recorded'[r] <= book[r].filled
    <3> SUFFICES ASSUME NEW r \in Requests
                 PROVE  recorded'[r] \in 0..Qty /\ recorded'[r] <= book[r].filled
      OBVIOUS
    <3>1. CASE Visited(r)
      BY <2>1, <2>2, <3>1 DEF PassOK, TypeOK, BrokerOrder
    <3>2. CASE ~Visited(r)
      BY <2>4, <3>2 DEF LedgerWithinBroker, TypeOK
    <3> QED
      BY <3>1, <3>2
  <2>6. \A r \in Requests : row'[r] # None <=> row[r] # None
    BY <2>1, <2>2, <2>4 DEF PassOK, OpenStatus, Visited, None
  <2>7. TypeOK'
    <3>1. /\ recorded' \in [Requests -> 0..Qty]
          /\ row' \in [Requests -> OrderStatus \cup {None}]
      BY <1>6, <2>5 DEF ReconcileCommit, TypeOK
    <3>2. audit' \subseteq Requests \X OrderStatus
      BY <1>6 DEF ReconcileCommit, TypeOK
    <3>3. position' \in Int
      BY <1>6 DEF ReconcileCommit, TypeOK
    <3>4. unbooked' \subseteq Requests /\ early' \subseteq Requests
      BY <1>6 DEF ReconcileCommit, Polled, TypeOK
    <3> QED
      BY <1>6, <3>1, <3>2, <3>3, <3>4 DEF ReconcileCommit, PassCleared, TypeOK, apiVars,
         BrokerOrder, NoOrder
  <2>8. CallsOK'
    BY <2>1, <2>6 DEF CallsOK, SameKey, apiVars
  <2>9. PassOK'
    BY <1>2, <1>6 DEF ReconcileCommit
  <2>10. BookOK' /\ OneExposurePerKey' /\ RowsAreAtBroker' /\ LedgerWithinBroker'
    BY <2>1, <2>5, <2>6 DEF BookOK, OneExposurePerKey, RowsAreAtBroker, LedgerWithinBroker
  <2>11. StatusMatchesLedger'
    <3> SUFFICES ASSUME NEW r \in Requests
                 PROVE  /\ row'[r] = "filled" => recorded'[r] = Qty \/ r \in unbooked'
                        /\ row'[r] = "partial" => recorded'[r] > 0 \/ r \in unbooked'
                        /\ row'[r] \in OpenStatus => recorded'[r] < Qty
                        /\ row'[r] = None => recorded'[r] = 0
      BY DEF StatusMatchesLedger
    <3>1. CASE Visited(r)
      <4>1. row[r] \in {seen[r], "cancelled"} /\ seen[r] \in OpenStatus
        BY <2>2, <3>1 DEF PassOK, Visited
      <4>2. /\ recorded'[r] \in Nat /\ snap[r].filled \in Nat
            /\ seen[r] = "partial" => snap[r].filled > 0
        BY <2>1, <2>5, <3>1 DEF PassOK, TypeOK, BrokerOrder
      <4>3. row'[r] = IF moves[r] # None THEN moves[r] ELSE row[r]
        BY <2>1
      <4> QED
        BY <2>2, <2>3, <3>1, <4>1, <4>2, <4>3 DEF OpenStatus, None
    <3>2. CASE ~Visited(r)
      BY <2>4, <3>2 DEF StatusMatchesLedger
    <3> QED
      BY <3>1, <3>2
  <2>12. StatusAudited'
    BY <1>6, <2>1 DEF ReconcileCommit, StatusAudited
  <2>13. TradedOK'
    <3> SUFFICES ASSUME NEW r \in Requests, row'[r] = "partial"
                 PROVE  book[r].filled > 0
      BY <2>1 DEF TradedOK
    <3>1. CASE Visited(r)
      <4>1. row[r] \in {seen[r], "cancelled"}
        BY <3>1 DEF PassOK, Visited
      <4>2. seen[r] = "partial" \/ moves[r] = "partial"
        BY <2>1, <4>1
      <4>3. snap[r].filled > 0
        BY <2>1, <2>3, <3>1, <4>2 DEF PassOK
      <4> QED
        BY <2>1, <4>3 DEF PassOK, TypeOK, BrokerOrder
    <3>2. CASE ~Visited(r)
      BY <2>4, <3>2 DEF TradedOK
    <3> QED
      BY <3>1, <3>2
  <2> QED
    BY <2>7, <2>8, <2>9, <2>10, <2>11, <2>12, <2>13
<1>7. CASE ReconcileAbort
  <2>1. TypeOK'
    BY <1>7 DEF ReconcileAbort, PassCleared, Fault, TypeOK, dbVars, apiVars, BrokerOrder,
       NoOrder
  <2> QED
    BY <1>1, <1>2, <1>7, <2>1 DEF ReconcileAbort
<1> QED
  BY <1>3, <1>4, <1>5, <1>6, <1>7 DEF Reconcile

\* The broker preserves the invariant.
LEMMA BrokerIInv ==
    ASSUME IInv, Broker
    PROVE  IInv'
<1> USE ConstantsOK DEF IInv
<1>1. PICK r \in Requests :
         BrokerFill(r) \/ BrokerPause(r) \/ BrokerResume(r) \/ BrokerClose(r)
  BY DEF Broker
<1>2. /\ book \in [Requests -> BrokerOrder] /\ book[r] \in BrokerOrder
      /\ Shape(book[r]) /\ book[r].st \in Working /\ book[r].filled < Qty
      /\ UNCHANGED <<dbVars, apiVars, passVars, faults>>
  <2>1. book[r].st \in Working /\ UNCHANGED <<dbVars, apiVars, passVars, faults>>
    BY <1>1 DEF BrokerFill, BrokerPause, BrokerResume, BrokerClose, Working
  <2>2. book[r].st # "filled"
    BY <2>1 DEF Working, Paused
  <2> QED
    BY <2>1, <2>2 DEF TypeOK, BookOK, Shape
<1>3. PICK b \in BrokerOrder :
         /\ b.st # None /\ Shape(b) /\ book[r].filled <= b.filled
         /\ book' = [book EXCEPT ![r] = b]
  <2>1. CASE BrokerFill(r)
    <3> DEFINE n == book[r].filled + 1
               st == IF n = Qty THEN "filled"
                     ELSE IF book[r].st = "new" THEN "partially_filled"
                     ELSE book[r].st
               b == [st |-> st, filled |-> n]
    <3>1. book' = [book EXCEPT ![r] = b]
      BY <2>1 DEF BrokerFill
    <3>2. n \in 1..Qty
      BY <1>2 DEF BrokerOrder
    <3>3. /\ st \in RawStatus /\ st \notin {None, "new"}
          /\ st = "filled" <=> n = Qty
      BY <1>2 DEF RawStatus, Working, Paused, None
    <3>4. Shape(b) /\ b \in BrokerOrder /\ b.st # None /\ book[r].filled <= b.filled
      <4>1. n >= book[r].filled
        BY <1>2 DEF BrokerOrder
      <4> HIDE DEF st, n
      <4> QED
        BY <3>2, <3>3, <4>1 DEF Shape, BrokerOrder
    <3> HIDE DEF b
    <3> QED
      BY <3>1, <3>4
  <2>2. CASE BrokerPause(r) \/ BrokerResume(r) \/ BrokerClose(r)
    <3>1. PICK st \in RawStatus :
             /\ book' = [book EXCEPT ![r].st = st]
             /\ st \notin {None, "filled"}
             /\ st = "new" => book[r].filled = 0
             /\ st = "partially_filled" => book[r].filled # 0
      <4>1. CASE BrokerPause(r)
        <5>1. PICK st \in Paused : book' = [book EXCEPT ![r].st = st]
          BY <4>1 DEF BrokerPause
        <5>2. st \in RawStatus
          BY <5>1 DEF RawStatus, Working
        <5>3. st \notin {None, "filled", "new", "partially_filled"}
          BY <5>1 DEF Paused, None
        <5> QED
          BY <5>1, <5>2, <5>3
      <4>2. CASE BrokerResume(r)
        <5> DEFINE st == IF book[r].filled = 0 THEN "new" ELSE "partially_filled"
        <5>1. book' = [book EXCEPT ![r].st = st]
          BY <4>2 DEF BrokerResume
        <5>2. /\ st \in RawStatus /\ st \notin {None, "filled"}
              /\ st = "new" => book[r].filled = 0
              /\ st = "partially_filled" => book[r].filled # 0
          BY DEF RawStatus, Working, None
        <5> HIDE DEF st
        <5> QED
          BY <5>1, <5>2
      <4>3. CASE BrokerClose(r)
        BY <4>3 DEF BrokerClose, RawStatus, Closed, None
      <4> QED
        BY <2>2, <4>1, <4>2, <4>3
    <3> DEFINE b == [st |-> st, filled |-> book[r].filled]
    <3>2. book' = [book EXCEPT ![r] = b]
      <4>1. [book[r] EXCEPT !.st = st] = b
        BY <1>2 DEF BrokerOrder
      <4> QED
        BY <1>2, <3>1, <4>1
    <3>3. b \in BrokerOrder /\ b.st # None /\ Shape(b) /\ book[r].filled <= b.filled
      BY <1>2, <3>1 DEF BrokerOrder, Shape
    <3> HIDE DEF b
    <3> QED
      BY <3>2, <3>3
  <2> QED
    BY <1>1, <2>1, <2>2
<1>4. /\ WorldOK'
      /\ book' \in [Requests -> BrokerOrder]
      /\ \A q \in Requests : book[q].st # None => book'[q].st # None
  <2>1. book[r].st # None
    BY <1>2 DEF Working, Paused, None
  <2> QED
    BY <1>2, <1>3, <2>1, BrokerOrderMoves DEF apiVars
<1>5. TypeOK' /\ CallsOK'
  BY <1>2, <1>4 DEF TypeOK, CallsOK, SameKey, dbVars, apiVars, passVars
<1> QED
  BY <1>4, <1>5 DEF WorldOK

\* Every step of the system preserves the invariant.
LEMMA NextIInv == IInv /\ [Next]_vars => IInv'
<1> SUFFICES ASSUME IInv, [Next]_vars PROVE IInv'
  OBVIOUS
<1>1. CASE UNCHANGED vars
  BY <1>1 DEF vars, dbVars, apiVars, passVars, IInv, TypeOK, BookOK, TradedOK, CallsOK, PassOK, Visited,
     Delta, NewStatus, OneExposurePerKey, RowsAreAtBroker, LedgerWithinBroker,
     StatusMatchesLedger, StatusAudited
<1> QED
  BY <1>1, PlaceIInv, CancelIInv, ReconcileIInv, BrokerIInv DEF Next

-----------------------------------------------------------------------------
(* The theorems                                                            *)

\* In every behaviour of the order desk, whatever requests race, crash or time
\* out around place_order, cancel_order and reconcile_account, each uncommitted
\* copy a handler or a pass holds is worth what IInv says of it.
THEOREM Invariance == Spec => []IInv
  BY InitIInv, NextIInv, PTL DEF Spec

\* Every variable of the model keeps its type: in particular no order is ever
\* booked beyond its size (recorded), and no status outside OrderStatus is
\* stored.
THEOREM TypeCorrectness == Spec => []TypeOK
  BY Invariance, PTL DEF IInv

\* place_order puts at most one order per Idempotency-Key on the market.
THEOREM SingleExposure == Spec => []OneExposurePerKey
  BY Invariance, PTL DEF IInv

\* A committed row always has an order at the broker, and reconcile_account never books a
\* share the broker did not trade.
THEOREM BooksStayWithin == Spec => []BooksWithinBroker
<1>1. IInv => BooksWithinBroker
  BY DEF IInv, BooksWithinBroker
<1> QED
  BY <1>1, Invariance, PTL

\* orders.status and executions agree after every commit of reconcile_account
\* and of cancel_order, except where the order's last poll had a fill without a
\* price, whose status reconcile_account writes and whose shares it does not.
THEOREM StatusLedgerAgreement == Spec => []StatusMatchesLedger
  BY Invariance, PTL DEF IInv

\* Every committed status has the audit entry of the transaction that wrote it.
THEOREM EveryStatusAudited == Spec => []StatusAudited
  BY Invariance, PTL DEF IInv

\* An Idempotency-Key owns at most one committed row: two rows would mean two
\* orders at the broker.
THEOREM SingleOrder == Spec => []OneOrderPerKey
<1>1. IInv => OneOrderPerKey
  BY DEF IInv, OneOrderPerKey, RowsAreAtBroker, OneExposurePerKey
<1> QED
  BY <1>1, Invariance, PTL

\* All requests with one key that were answered with an order were answered
\* with the same one.
THEOREM ConsistentReplies == Spec => []RepliesAgree
<1>1. IInv => RepliesAgree
  BY DEF IInv, CallsOK, RepliesAgree, OneExposurePerKey, SameKey
<1> QED
  BY <1>1, Invariance, PTL

-----------------------------------------------------------------------------
(* The position                                                            *)

\* The signed sum of one quantity per order.
Net(n) == SumOver([r \in Requests |-> Signed(r, n[r])], Requests)

\* The position is what the ledger says; the pass holds it with what the pass has
\* staged added.
NetInv ==
    /\ position = Net(recorded)
    /\ phase = "fetched" => netQty = position + Net(fills)

LEMMA NetOfNothing ==
    ASSUME NEW n, \A r \in Requests : n[r] = 0
    PROVE  Net(n) = 0
<1> DEFINE f == [r \in Requests |-> Signed(r, n[r])]
<1>1. \A r \in Requests : f[r] = 0
  <2> SUFFICES ASSUME NEW r \in Requests PROVE Signed(r, n[r]) = 0
    OBVIOUS
  <2> QED
    BY NoNegativeZero, Zenon DEF Signed
<1> HIDE DEF f
<1>2. SumOver(f, Requests) = 0
  BY <1>1, RequestsFinite, SumZero
<1> QED
  BY <1>2 DEF Net, f

LEMMA NetType ==
    ASSUME NEW n \in [Requests -> Nat]
    PROVE  Net(n) \in Int
<1> DEFINE f == [r \in Requests |-> Signed(r, n[r])]
<1>1. \A r \in Requests : f[r] \in Int
  BY DEF Signed
<1> HIDE DEF f
<1>2. SumOver(f, Requests) \in Int
  BY <1>1, RequestsFinite, SumType
<1> QED
  BY <1>2 DEF Net, f

\* One order's quantity becomes n[r], from nothing.
LEMMA NetOfOneMore ==
    ASSUME NEW m \in [Requests -> Nat], NEW r \in Requests, m[r] = 0, NEW d \in Nat,
           NEW n, n = [m EXCEPT ![r] = d]
    PROVE  Net(n) = Net(m) + Signed(r, d)
<1> DEFINE f == [q \in Requests |-> Signed(q, m[q])]
           g == [q \in Requests |-> Signed(q, n[q])]
<1>1. /\ \A q \in Requests : f[q] \in Int
      /\ f[r] = 0
      /\ g[r] = Signed(r, d) /\ g[r] \in Int
      /\ \A q \in Requests \ {r} : g[q] = f[q]
  <2>1. n[r] = d /\ \A q \in Requests \ {r} : n[q] = m[q]
    OBVIOUS
  <2>2. \A q \in Requests : m[q] \in Nat
    OBVIOUS
  <2>3. \A q \in Requests : f[q] \in Int
    BY <2>2 DEF Signed
  <2>4. f[r] = 0
    <3>1. f[r] = Signed(r, 0)
      OBVIOUS
    <3>2. Signed(r, 0) = 0
      BY NoNegativeZero, Zenon DEF Signed
    <3> QED
      BY <3>1, <3>2
  <2>5. g[r] = Signed(r, d) /\ Signed(r, d) \in Int
    BY <2>1 DEF Signed
  <2>6. \A q \in Requests \ {r} : g[q] = f[q]
    BY <2>1 DEF Signed
  <2> QED
    BY <2>3, <2>4, <2>5, <2>6
<1> HIDE DEF f, g
<1>2. SumOver(g, Requests) = SumOver(f, Requests) - f[r] + g[r]
  BY <1>1, RequestsFinite, SumChange
<1>3. SumOver(f, Requests) \in Int
  BY <1>1, RequestsFinite, SumType
<1>4. SumOver(g, Requests) = SumOver(f, Requests) + Signed(r, d)
  BY <1>1, <1>2, <1>3
<1> QED
  BY <1>4 DEF Net, f, g

\* Quantities of the same orders add up.
LEMMA NetAdds ==
    ASSUME NEW m \in [Requests -> Nat], NEW n \in [Requests -> Nat]
    PROVE  Net([r \in Requests |-> m[r] + n[r]]) = Net(m) + Net(n)
<1> DEFINE f == [r \in Requests |-> Signed(r, m[r])]
           g == [r \in Requests |-> Signed(r, n[r])]
           h == [r \in Requests |-> Signed(r, [q \in Requests |-> m[q] + n[q]][r])]
<1>1. \A r \in Requests : f[r] \in Int /\ g[r] \in Int /\ h[r] = f[r] + g[r]
  BY DEF Signed
<1> HIDE DEF f, g, h
<1>2. SumOver(h, Requests) = SumOver(f, Requests) + SumOver(g, Requests)
  BY <1>1, RequestsFinite, SumPlus
<1> QED
  BY <1>2 DEF Net, f, g, h

LEMMA NetInit == Init => NetInv
<1> SUFFICES ASSUME Init PROVE NetInv
  OBVIOUS
<1>1. Net(recorded) = 0
  BY NetOfNothing DEF Init
<1> QED
  BY <1>1 DEF Init, NetInv

\* Only the pass writes the ledger and the position, and only when it commits.
LEMMA NetStep == IInv /\ NetInv /\ [Next]_vars => NetInv'
<1> SUFFICES ASSUME IInv, NetInv, [Next]_vars PROVE NetInv'
  OBVIOUS
<1>1. recorded \in [Requests -> Nat] /\ fills \in [Requests -> Nat]
  BY ConstantsOK DEF IInv, TypeOK
<1>2. CASE UNCHANGED <<recorded, position, phase, fills, netQty>>
  BY <1>2 DEF NetInv, Net
<1>3. CASE ReconcileFetch \/ ReconcileFetchUnpriced
  <2>1. \A r \in Requests : fills[r] = 0
    BY <1>3 DEF ReconcileFetch, ReconcileFetchUnpriced, Fetched, IInv, PassOK, Visited
  <2>2. Net(fills) = 0
    BY <2>1, NetOfNothing
  <2>3. Net(recorded) \in Int /\ UNCHANGED <<recorded, position, fills>> /\ netQty' = position
    BY <1>1, <1>3, NetType DEF ReconcileFetch, ReconcileFetchUnpriced, Fetched, dbVars
  <2> QED
    BY <2>2, <2>3 DEF NetInv, Net
<1>4. ASSUME NEW r \in Requests, ReconcileOrder(r)
      PROVE  NetInv'
  <2>1. /\ phase = "fetched" /\ fills[r] = 0
        /\ fills' = [fills EXCEPT ![r] = Delta(r)]
        /\ netQty' = netQty + Signed(r, Delta(r))
        /\ UNCHANGED <<recorded, position, phase>>
    BY <1>4 DEF ReconcileOrder, IInv, PassOK, Visited, dbVars
  <2>2. Delta(r) \in Nat
    BY ConstantsOK DEF Delta, IInv, TypeOK, BrokerOrder
  <2>3. Net(fills') = Net(fills) + Signed(r, Delta(r))
    BY <1>1, <2>1, <2>2, NetOfOneMore
  <2>4. Net(fills) \in Int /\ Signed(r, Delta(r)) \in Int /\ position \in Int
    BY <1>1, <2>2, NetType DEF Signed, IInv, TypeOK
  <2>5. netQty' = position + Net(fills')
    BY <2>1, <2>3, <2>4 DEF NetInv
  <2> QED
    BY <2>1, <2>5 DEF NetInv, Net
<1>5. CASE ReconcileCommit
  <2>1. /\ recorded' = [r \in Requests |-> recorded[r] + fills[r]]
        /\ position' = position + Net(fills)
        /\ phase' = "idle"
    BY <1>5 DEF ReconcileCommit, PassCleared, NetInv
  <2>2. Net(recorded') = Net(recorded) + Net(fills)
    BY <1>1, <2>1, NetAdds
  <2> QED
    BY <2>1, <2>2 DEF NetInv, Net
<1>6. CASE ReconcileList \/ ReconcileAbort
  BY <1>6 DEF ReconcileList, ReconcileAbort, PassCleared, NetInv, Net, dbVars
<1>7. ASSUME NEW r \in Requests, Place(r)
      PROVE  NetInv'
  <2>1. UNCHANGED <<recorded, position, passVars>>
    BY <1>7 DEF Place, PlaceLookup, PlaceRefuse, PlaceInsert, PlaceSubmit, PlaceRejected,
       PlaceUnavailable, PlaceTimeout, PlaceCommit, PlaceCrash, dbVars
  <2> QED
    BY <1>2, <2>1 DEF passVars
<1>8. ASSUME NEW c \in Cancels, Cancel(c)
      PROVE  NetInv'
  <2>1. UNCHANGED <<recorded, position, passVars>>
    BY <1>8 DEF Cancel, CancelRead, CancelCall, CancelCallLost, CancelCommit, CancelCrash,
       dbVars
  <2> QED
    BY <1>2, <2>1 DEF passVars
<1>9. CASE Broker
  BY <1>2, <1>9 DEF Broker, BrokerFill, BrokerPause, BrokerResume, BrokerClose, dbVars,
     passVars
<1>10. CASE UNCHANGED vars
  BY <1>2, <1>10 DEF vars, dbVars, passVars
<1> QED
  BY <1>3, <1>4, <1>5, <1>6, <1>7, <1>8, <1>9, <1>10 DEF Next, Reconcile

\* The position of the instrument is the sum of the account's signed executions,
\* however passes race with new orders, cancels and fills and wherever they are cut
\* short: net_position and insert_execution are given the same fills and commit
\* together.
THEOREM PositionIsLedger == Spec => []PositionMatchesLedger
<1>1. NetInv => PositionMatchesLedger
  BY DEF NetInv, Net, PositionMatchesLedger
<1>2. Spec => []NetInv
  BY NetInit, NetStep, Invariance, PTL DEF Spec
<1> QED
  BY <1>1, <1>2, PTL

-----------------------------------------------------------------------------
(* Without cancels                                                         *)

\* What holds beyond IInv when nobody cancels: a listed order is still as it
\* was listed, an order the broker had finished with when it was polled has not
\* changed since, and a closed row is final and booked in full unless it was
\* closed early or its last poll named no price.
QuietInv ==
    \A r \in Requests :
        /\ seen[r] # None => row[r] = seen[r]
        /\ row[r] = None => r \notin unbooked
        /\ snap[r].st \notin Working \cup {None} => book[r] = snap[r]
        /\ row[r] \in Terminal /\ r \notin early =>
              /\ book[r].st \notin Working
              /\ recorded[r] = book[r].filled \/ r \in unbooked

\* The statuses with no way out in VALID_TRANSITIONS.
LEMMA TerminalStatuses == Terminal = {"filled", "cancelled", "rejected"}
  BY DEF Terminal, VALID_TRANSITIONS, OrderStatus

\* Initially no order is closed.
LEMMA QuietInit == Init => QuietInv
  BY TerminalStatuses DEF Init, QuietInv, NoOrder, None

\* Placing orders closes none.
LEMMA QuietPlace ==
    ASSUME IInv, QuietInv, NEW r \in Requests, Place(r)
    PROVE  QuietInv'
<1>1. CASE PlaceCommit(r)
  BY <1>1, TerminalStatuses
  DEF PlaceCommit, QuietInv, IInv, TypeOK, CallsOK, passVars, None
<1>2. CASE PlaceSubmit(r) \/ PlaceRejected(r) \/ PlaceTimeout(r)
  <2>1. /\ \E st \in {"new"} \cup MapsToRejected : book' = [book EXCEPT ![r].st = st]
        /\ book \in [Requests -> BrokerOrder] /\ book[r].st = None
        /\ row[r] = None
        /\ UNCHANGED <<dbVars, passVars>>
    BY <1>2 DEF PlaceSubmit, PlaceRejected, PlaceTimeout, ClientOrderIdTaken, IInv, TypeOK,
       CallsOK
  <2>2. \A q \in Requests \ {r} : book'[q] = book[q]
    BY <2>1 DEF BrokerOrder
  <2>3. snap[r].st \in {None} \cup Working
    BY <2>1 DEF QuietInv, None
  <2> QED
    BY <2>1, <2>2, <2>3, TerminalStatuses DEF QuietInv, dbVars, passVars, None
<1>3. CASE UNCHANGED <<dbVars, book, passVars>>
  BY <1>3 DEF QuietInv, dbVars, passVars
<1> QED
  BY <1>1, <1>2, <1>3 DEF Place, PlaceLookup, PlaceRefuse, PlaceInsert, PlaceUnavailable,
     PlaceCrash

\* A pass closes an order only with the fills of the poll that closed it.
LEMMA QuietReconcile ==
    ASSUME IInv, QuietInv, Reconcile
    PROVE  QuietInv'
<1> USE ConstantsOK
<1>1. CASE ReconcileList
  BY <1>1 DEF ReconcileList, QuietInv, IInv, TypeOK, dbVars, None
<1>2. CASE ReconcileFetch \/ ReconcileFetchUnpriced
  BY <1>2 DEF ReconcileFetch, ReconcileFetchUnpriced, Fetched, QuietInv, dbVars
<1>3. CASE \E r \in Requests : ReconcileOrder(r)
  BY <1>3 DEF ReconcileOrder, QuietInv, dbVars
<1>4. CASE ReconcileAbort
  BY <1>4 DEF ReconcileAbort, PassCleared, QuietInv, NoOrder, dbVars, None
<1>5. CASE ReconcileCommit
  <2>0. ASSUME NEW r \in Requests, row'[r] = None
        PROVE  r \notin unbooked'
    <3>1. row[r] = None
      BY <1>5, <2>0 DEF ReconcileCommit
    <3>2. r \notin Polled
      BY <3>1 DEF QuietInv, Polled
    <3> QED
      BY <1>5, <3>1, <3>2 DEF ReconcileCommit, QuietInv
  <2> SUFFICES ASSUME NEW r \in Requests, row'[r] \in Terminal, r \notin early'
               PROVE  /\ book[r].st \notin Working
                      /\ recorded'[r] = book[r].filled \/ r \in unbooked'
    BY <1>5, <2>0 DEF ReconcileCommit, PassCleared, QuietInv, NoOrder, None
  <2>1. /\ phase = "fetched" /\ todo = {}
        /\ recorded'[r] = recorded[r] + fills[r]
        /\ row'[r] = IF moves[r] # None THEN moves[r] ELSE row[r]
        /\ r \notin early
    BY <1>5 DEF ReconcileCommit
  <2>2. CASE ~Visited(r)
    <3>1. recorded'[r] = recorded[r] /\ row'[r] = row[r]
      BY <2>1, <2>2 DEF IInv, PassOK, TypeOK
    <3>2. r \in unbooked' <=> r \in unbooked
      BY <1>5, <2>1, <2>2 DEF ReconcileCommit, Visited, Polled
    <3> QED
      BY <2>1, <3>1, <3>2 DEF QuietInv
  <2>3. CASE Visited(r)
    <3>1. /\ seen[r] \in OpenStatus /\ row[r] = seen[r] /\ snap[r].st # None
          /\ fills[r] = Delta(r) /\ moves[r] = NewStatus(r)
          /\ snap[r] \in BrokerOrder /\ r \in Polled
      BY <2>3 DEF IInv, PassOK, QuietInv, TypeOK, Visited, Polled
    <3>2. recorded'[r] = snap[r].filled \/ r \in unbooked'
      <4>1. r \in unpriced /\ snap[r].filled > recorded[r] => r \in unbooked'
        BY <1>5, <3>1 DEF ReconcileCommit
      <4>2. recorded[r] \in Nat /\ recorded[r] <= snap[r].filled
        BY <2>1 DEF IInv, PassOK, TypeOK
      <4> QED
        BY <2>1, <3>1, <4>1, <4>2 DEF Delta, BrokerOrder
    <3>3. moves[r] \in Terminal
      BY <2>1, <3>1, TerminalStatuses DEF OpenStatus, None
    <3>4. snap[r].st \notin Working
      BY <1>5, <3>1, <3>3 DEF ReconcileCommit
    <3>5. book[r] = snap[r]
      BY <3>1, <3>4 DEF QuietInv
    <3> QED
      BY <3>2, <3>4, <3>5
  <2> QED
    BY <2>2, <2>3
<1> QED
  BY <1>1, <1>2, <1>3, <1>4, <1>5 DEF Reconcile

\* The broker does not move an order that is closed on both sides.
LEMMA QuietBroker ==
    ASSUME IInv, QuietInv, Broker
    PROVE  QuietInv'
<1>1. PICK r \in Requests :
         BrokerFill(r) \/ BrokerPause(r) \/ BrokerResume(r) \/ BrokerClose(r)
  BY DEF Broker
<1>2. /\ book[r].st \in Working
      /\ UNCHANGED <<dbVars, passVars>>
      /\ \A q \in Requests \ {r} : book'[q] = book[q]
  BY <1>1 DEF BrokerFill, BrokerPause, BrokerResume, BrokerClose, Working, IInv, TypeOK
<1>3. snap[r].st \in Working \cup {None}
  BY <1>2 DEF QuietInv
<1>4. row[r] \notin Terminal \/ r \in early
  BY <1>2 DEF QuietInv
<1> QED
  BY <1>2, <1>3, <1>4 DEF QuietInv, dbVars, passVars

\* Without cancels every step preserves QuietInv.
LEMMA QuietNext ==
    ASSUME Cancels = {}
    PROVE  IInv /\ QuietInv /\ [Next]_vars => QuietInv'
<1> SUFFICES ASSUME IInv, QuietInv, [Next]_vars PROVE QuietInv'
  OBVIOUS
<1>1. CASE UNCHANGED vars
  BY <1>1 DEF vars, dbVars, apiVars, passVars, QuietInv
<1> QED
  BY <1>1, QuietPlace, QuietReconcile, QuietBroker DEF Next

\* Without cancels, an order that reconcile_account closed is closed at the
\* broker and booked in full, unless it was closed on a status with which the
\* broker still trades or its last poll named no price.
THEOREM QuietInvariance ==
    ASSUME Cancels = {}
    PROVE  Spec => []QuietInv
  BY Invariance, QuietInit, QuietNext, PTL DEF Spec

\* Without cancels, what reconcile_account books for an order it closes is all
\* the broker ever traded of it: a fill is lost only with an order closed early
\* (map_status) or to a poll without a price, never between two passes.
THEOREM NothingLost ==
    ASSUME Cancels = {}
    PROVE  Spec => []NoLostFill
<1>1. QuietInv => NoLostFill
  BY DEF QuietInv, NoLostFill
<1> QED
  BY <1>1, QuietInvariance, PTL

-----------------------------------------------------------------------------
(* Refinement of OrderLifecycle                                            *)

\* The empty desk is an initial state of OrderLifecycle.
LEMMA LifecycleInit == Init => Lifecycle!Init
  BY DEF Init, Lifecycle!Init, None, Lifecycle!None

\* Without cancels, every step of the desk is a step of OrderLifecycle or
\* leaves its variables alone.
LEMMA LifecycleStep ==
    ASSUME Cancels = {}
    PROVE  IInv /\ IInv' /\ QuietInv /\ [Next]_vars => [Lifecycle!Next]_(Lifecycle!vars)
<1> SUFFICES ASSUME IInv, IInv', QuietInv, [Next]_vars
             PROVE  [Lifecycle!Next]_(Lifecycle!vars)
  OBVIOUS
<1>1. CASE UNCHANGED <<row, recorded, unbooked>>
  BY <1>1 DEF Lifecycle!vars
<1>2. ASSUME NEW r \in Requests, PlaceCommit(r)
      PROVE  Lifecycle!Next
  <2>1. /\ row[r] = None /\ recorded[r] = 0 /\ r \notin unbooked
    BY <1>2 DEF PlaceCommit, IInv, CallsOK, StatusMatchesLedger, QuietInv
  <2>2. Lifecycle!Accept(r)
    BY <1>2, <2>1 DEF PlaceCommit, Lifecycle!Accept, IInv, TypeOK, None, Lifecycle!None
  <2>3. \A q \in Requests \ {r} : Lifecycle!Unmoved(q)
    BY <1>2 DEF PlaceCommit, Lifecycle!Unmoved, IInv, TypeOK
  <2> QED
    BY <2>2, <2>3 DEF Lifecycle!Next, IInv, TypeOK, OrderStatus, Lifecycle!OrderStatus,
       None, Lifecycle!None
<1>3. CASE ReconcileCommit
  <2>1. /\ phase = "fetched" /\ todo = {}
        /\ \A r \in Requests :
              /\ recorded'[r] = recorded[r] + fills[r]
              /\ row'[r] = IF moves[r] # None THEN moves[r] ELSE row[r]
              /\ r \in unbooked' <=>
                    IF r \in Polled
                    THEN r \in unpriced /\ snap[r].filled > recorded[r]
                    ELSE r \in unbooked
    BY <1>3 DEF ReconcileCommit
  <2>2. ASSUME NEW r \in Requests, ~Visited(r)
        PROVE  Lifecycle!Unmoved(r)
    <3>1. r \notin Polled
      BY <2>1, <2>2 DEF Polled, Visited
    <3> QED
      BY <2>1, <2>2, <3>1 DEF Lifecycle!Unmoved, IInv, PassOK, TypeOK
  <2>3. ASSUME NEW r \in Requests, Visited(r)
        PROVE  Lifecycle!Report(r)
    <3>1. /\ seen[r] \in OpenStatus /\ row[r] = seen[r] /\ snap[r].st # None
          /\ fills[r] = Delta(r) /\ moves[r] = NewStatus(r)
          /\ snap[r] \in BrokerOrder /\ Shape(snap[r]) /\ r \in Polled
          /\ recorded[r] \in Nat /\ recorded[r] <= snap[r].filled
          /\ seen[r] = "partial" => snap[r].filled > 0
      BY <2>1, <2>3 DEF IInv, PassOK, QuietInv, TypeOK, Visited, Polled
    <3>2. IF r \in unbooked' THEN recorded'[r] = recorded[r]
                             ELSE recorded'[r] = snap[r].filled
      BY <2>1, <3>1 DEF Delta, BrokerOrder
    <3>3. \/ row'[r] = row[r] /\ moves[r] = None
          \/ row'[r] = moves[r] /\ Allowed(row[r], moves[r])
             /\ moves[r] = map_status(snap[r].st)
      BY <2>1, <3>1 DEF NewStatus
    <3>4. snap[r].filled \in Lifecycle!Booked(row'[r])
      <4>1. snap[r].filled \in 0..Qty /\ Qty \in Nat
        BY <3>1, ConstantsOK DEF BrokerOrder
      <4>2. CASE row'[r] = row[r] /\ moves[r] = None
        <5>1. snap[r].filled < Qty
          BY <3>1, <4>2, LegalSteps DEF NewStatus, map_status, Shape, OpenStatus,
             MapsToPartial, MapsToFilled, MapsToCancelled, MapsToRejected, None
        <5> QED
          BY <3>1, <4>1, <4>2, <5>1 DEF Lifecycle!Booked, OpenStatus
      <4>3. CASE /\ row'[r] = moves[r] /\ Allowed(row[r], moves[r])
                 /\ moves[r] = map_status(snap[r].st)
        <5>1. moves[r] \in {"partial", "filled", "cancelled", "rejected"}
          BY <3>1, <4>3, LegalSteps DEF OpenStatus
        <5>2. /\ moves[r] = "partial" <=> snap[r].st = "partially_filled"
              /\ moves[r] = "filled" <=> snap[r].st = "filled"
          BY <4>3 DEF map_status, MapsToPartial, MapsToFilled, MapsToCancelled,
             MapsToRejected
        <5> QED
          BY <3>1, <4>1, <4>3, <5>1, <5>2 DEF Lifecycle!Booked, Shape
      <4> QED
        BY <3>3, <4>2, <4>3
    <3>5. /\ row'[r] \in {row[r]} \cup Lifecycle!VALID_TRANSITIONS[row[r]]
          /\ row[r] \in Lifecycle!OpenStatus
      BY <3>1, <3>3 DEF Lifecycle!OpenStatus, OpenStatus, Allowed, VALID_TRANSITIONS,
         Lifecycle!VALID_TRANSITIONS, OrderStatus, Lifecycle!OrderStatus
    <3> QED
      BY <3>1, <3>2, <3>4, <3>5 DEF Lifecycle!Report
  <2> QED
    BY <2>2, <2>3 DEF Lifecycle!Next, IInv, TypeOK, OrderStatus, Lifecycle!OrderStatus, None,
       Lifecycle!None
\* Every other step leaves these variables alone.
<1>4. ASSUME NEW r \in Requests, Place(r), ~PlaceCommit(r)
      PROVE  UNCHANGED <<row, recorded, unbooked>>
  BY <1>4 DEF Place, PlaceLookup, PlaceRefuse, PlaceInsert, PlaceSubmit, PlaceRejected,
     PlaceUnavailable, PlaceTimeout, PlaceCrash, dbVars
<1>5. ASSUME Reconcile, ~ReconcileCommit
      PROVE  UNCHANGED <<row, recorded, unbooked>>
  BY <1>5 DEF Reconcile, ReconcileList, ReconcileFetch,
     ReconcileFetchUnpriced, Fetched, ReconcileOrder, ReconcileAbort, dbVars
<1>6. CASE Broker \/ UNCHANGED vars
  BY <1>1, <1>6 DEF Broker, BrokerFill, BrokerPause, BrokerResume, BrokerClose, vars,
     dbVars
<1> QED
  BY <1>1, <1>2, <1>3, <1>4, <1>5, <1>6 DEF Next

\* Without cancels, the order and execution tables behave as OrderLifecycle
\* promises: statuses follow the state machine, booked quantities only grow and
\* fit the status unless the last poll named no price, closed orders never change.
THEOREM LifecycleRefinement ==
    ASSUME Cancels = {}
    PROVE  Spec => OrdersFollowLifecycle
<1>1. IInv /\ IInv' /\ QuietInv /\ [Next]_vars => [Lifecycle!Next]_(Lifecycle!vars)
  BY LifecycleStep
<1> QED
  BY <1>1, LifecycleInit, Invariance, QuietInvariance, PTL
  DEF Spec, OrdersFollowLifecycle, Lifecycle!Spec
=============================================================================
