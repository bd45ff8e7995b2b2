--------------------------- MODULE StrategyOrders ---------------------------
(***************************************************************************)
(* POST /v1/orders/strategy (place_strategy in saalr_api/oms/service.py)   *)
(* against a live account: the legs of a strategy are placed one after the *)
(* other, each as an order with the key "<idem>:<leg>", all in the one     *)
(* transaction of the request. The refusal of a leg is caught and reported,*)
(* so the rows it left commit with the others.                             *)
(*                                                                         *)
(* The account is Alpaca's (saalr_brokers/alpaca.py), whose client order   *)
(* ids are unique and whose failed calls raise, or Tradier's (tradier.py), *)
(* whose tags are labels and whose adapter answers "rejected" for any call *)
(* that fails. Or there is no account to trade in: it is missing, inactive *)
(* or of a broker without an adapter.                                      *)
(*                                                                         *)
(* The requests carry one idempotency key: a call and its retries. Cash    *)
(* legs are skipped and left out.                                          *)
(***************************************************************************)
EXTENDS FiniteSets, Integers, Sequences

CONSTANTS
    Calls,
    Legs,           \* number of legs
    None,
    MaxFaults       \* calls that fail, crashes and failed commits

VARIABLES
    broker,     \* the account's broker, or None where orders cannot be placed
    row,        \* committed status of each leg's order, or None
    book,       \* the broker's orders for each leg: who sent them, under which id
    request,    \* [at, rows, results] of each request
    faults

legsVars == <<broker, row, book, request, faults>>

Leg == 1 .. Legs
Status == {"pending", "submitted", "rejected"}

NotSent == [at |-> "new", leg |-> 1, rows |-> [l \in Leg |-> None], results |-> << >>]

LegsTypeOK ==
    /\ broker \in {"alpaca", "tradier", None}
    /\ row \in [Leg -> Status \cup {None}]
    /\ \A l \in Leg : book[l] \subseteq Calls \X ((Calls \cup {None}) \X {l})
    /\ \A r \in Calls :
          /\ request[r].at \in {"new", "lookup", "insert", "submit", "answered", "dead",
                                "done", "failed"}
          /\ request[r].rows \in [Leg -> Status \cup {None}]
          /\ Len(request[r].results) < Legs + 1
    /\ faults \in 0 .. MaxFaults

LegsInit ==
    /\ broker \in {"alpaca", "tradier", None}
    /\ row = [l \in Leg |-> None]
    /\ book = [l \in Leg |-> {}]
    /\ request = [r \in Calls |-> NotSent]
    /\ faults = 0

Fault == faults < MaxFaults /\ faults' = faults + 1

\* Rows a request has inserted and not committed; each holds its key's index entry.
Active(r) == request[r].at \in {"lookup", "insert", "submit", "answered"}
Held(l) == \E r \in Calls : Active(r) /\ request[r].rows[l] # None

\* The request with leg l answered: on to the next leg, or to the end.
Reported(r, result) ==
    [request[r] EXCEPT !.results = Append(@, result), !.leg = @ + 1,
                       !.at = IF request[r].leg = Legs THEN "answered" ELSE "lookup"]

\* Mutant of ClientOrderId: the key of the order's row, as for a call without a key.
RowOrderId(r, l) == <<r, l>>

ClientOrderId(r, l) == <<None, l>>

-----------------------------------------------------------------------------

StartLegs(r) ==
    /\ request[r].at = "new"
    /\ request' = [request EXCEPT ![r].at = "lookup"]
    /\ UNCHANGED <<broker, row, book, faults>>

\* A leg whose key has a committed row is answered from it.
Replay(r) ==
    LET l == request[r].leg
    IN  /\ request[r].at = "lookup"
        /\ row[l] # None
        /\ request' = [request EXCEPT ![r] = Reported(r, row[l])]
        /\ UNCHANGED <<broker, row, book, faults>>

Lookup(r) ==
    /\ request[r].at = "lookup"
    /\ row[request[r].leg] = None
    /\ request' = [request EXCEPT ![r].at = "insert"]
    /\ UNCHANGED <<broker, row, book, faults>>

\* place_order raises before it writes anything: there is no account to trade in, or its
\* credentials or its balance cannot be fetched. The leg is reported rejected.
RefuseEarly(r) ==
    /\ request[r].at = "insert"
    /\ IF broker = None THEN UNCHANGED faults ELSE Fault
    /\ request' = [request EXCEPT ![r] = Reported(r, "rejected")]
    /\ UNCHANGED <<broker, row, book>>

\* The account is there, and the leg's key is nobody's yet.
MayInsert(r) ==
    LET l == request[r].leg
    IN  /\ request[r].at = "insert"
        /\ broker # None
        /\ row[l] = None /\ ~Held(l)

\* A gate refuses the leg: its row and audit entry stay in the transaction.
Refuse(r) ==
    /\ MayInsert(r)
    /\ request' = [request EXCEPT ![r] =
          [Reported(r, "rejected") EXCEPT !.rows[request[r].leg] = "rejected"]]
    /\ UNCHANGED <<broker, row, book, faults>>

\* The pending row is inserted; an uncommitted row with the key makes it wait.
Insert(r) ==
    /\ MayInsert(r)
    /\ request' = [request EXCEPT ![r].at = "submit",
                                  ![r].rows[request[r].leg] = "pending"]
    /\ UNCHANGED <<broker, row, book, faults>>

\* The wait ends with the other's commit: the insert fails, the leg is reported
\* as in flight, and nothing more can be done in this session.
InsertFails(r) ==
    /\ request[r].at = "insert"
    /\ row[request[r].leg] # None
    /\ request' = [request EXCEPT ![r].at = "dead"]
    /\ UNCHANGED <<broker, row, book, faults>>

\* Alpaca refuses an id it has seen.
Taken(r, l) ==
    /\ broker = "alpaca"
    /\ \E o \in book[l] : o[2] = ClientOrderId(r, l)

\* What the adapters report of an order just sent; Tradier's answer is mapped too.
RawStatus == {"filled", "partial", "canceled", "rejected", "error", "ok"}
map_status(raw) == IF raw \in {"rejected", "error"} THEN "rejected" ELSE "submitted"

\* The broker has one more order for leg l.
Placed(r, l) == [book EXCEPT ![l] = @ \cup {<<r, ClientOrderId(r, l)>>}]

\* The broker takes the order, or rejects it.
Submit(r, result) ==
    LET l == request[r].leg
    IN  /\ request[r].at = "submit"
        /\ ~Taken(r, l)
        /\ book' = IF result = "submitted" THEN Placed(r, l) ELSE book
        /\ request' = [request EXCEPT ![r] = [Reported(r, result) EXCEPT !.rows[l] = result]]
        /\ UNCHANGED <<broker, row, faults>>

\* The status a failed call leaves in the row: _submit_live catches nothing of
\* Alpaca's, and writes what Tradier's adapter answers.
AfterFailure == IF broker = "alpaca" THEN "pending" ELSE "rejected"

\* The call fails: the client_order_id is taken, or the call or its answer is lost.
\* The leg is reported rejected.
SubmitFails(r) ==
    LET l == request[r].leg
    IN  /\ request[r].at = "submit"
        /\ request' = [request EXCEPT ![r] =
              [Reported(r, "rejected") EXCEPT !.rows[l] = AfterFailure]]
        /\ \/ Taken(r, l) /\ UNCHANGED <<book, faults>>
           \/ ~Taken(r, l) /\ Fault /\ UNCHANGED book
           \/ ~Taken(r, l) /\ Fault /\ book' = Placed(r, l)
        /\ UNCHANGED <<broker, row>>

Commit(r) ==
    /\ request[r].at = "answered"
    /\ row' = [l \in Leg |-> IF request[r].rows[l] # None THEN request[r].rows[l] ELSE row[l]]
    /\ request' = [request EXCEPT ![r].at = "done"]
    /\ UNCHANGED <<broker, book, faults>>

\* A dead session cannot commit; a process may also die anywhere.
Fails(r) ==
    /\ \/ request[r].at = "dead" /\ UNCHANGED faults
       \/ Active(r) /\ Fault
    /\ request' = [request EXCEPT ![r] = [NotSent EXCEPT !.at = "failed"]]
    /\ UNCHANGED <<broker, row, book>>

LegsNext == \E r \in Calls :
    \/ StartLegs(r)
    \/ Replay(r)
    \/ Lookup(r)
    \/ RefuseEarly(r)
    \/ Refuse(r)
    \/ Insert(r)
    \/ InsertFails(r)
    \/ \E raw \in RawStatus : Submit(r, map_status(raw))
    \/ SubmitFails(r)
    \/ Commit(r)
    \/ Fails(r)

LegsSpec == LegsInit /\ [][LegsNext]_legsVars

-----------------------------------------------------------------------------
(* Properties                                                              *)

\* However often a strategy is sent, and whatever is lost or dies on the way, Alpaca
\* works at most one order for each of its legs; Tradier, which knows no order again,
\* at most one more for each call or process that failed. A leg that was skipped for a
\* failed call lets the rows of its request commit apart: whoever then loses the race
\* for one of them has sent an order that its rollback forgets.
LegsExposedOnce ==
    \A l \in Leg : Cardinality(book[l]) <= IF broker = "alpaca" THEN 1 ELSE 1 + faults

\* place_strategy's docstring (oms/service.py:196-197): "a leg placed before a later
\* reject stays placed - the per-leg result is the honest record". A leg that a
\* finished request reports rejected is not at the broker.
ResultsHonest ==
    \A r \in Calls : request[r].at = "done" =>
        \A l \in Leg : request[r].results[l] = "rejected" => book[l] = {}

=============================================================================
