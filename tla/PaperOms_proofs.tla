--------------------------- MODULE PaperOms_proofs ---------------------------
(***************************************************************************)
(* What holds of a paper account for every number of requests, every       *)
(* assignment of keys and prices and every number of crashes.              *)
(***************************************************************************)
EXTENDS PaperOms, CollectionLemmas, TLAPS

\* r's row is in the orders table, uncommitted.
InsertedRow(r) == tx[r].pc \in {"inserted", "read", "decided", "written"}

\* A key has one committed order.
OrdersApart ==
    \A r, q \in Requests : SameKey(r, q) /\ order[r] # None /\ order[q] # None => r = q

\* While a row of the key is uncommitted there is no other, of either kind: the
\* unique index makes a second insert wait.
KeyHeld ==
    \A r, q \in Requests : InsertedRow(r) /\ SameKey(q, r) =>
        /\ order[q] = None
        /\ InsertedRow(q) => q = r

\* A client is told of committed orders of its own key only, but for its own order
\* before the commit, or where a crash has come in between.
AnswersCommitted ==
    \A r \in Requests : reply[r] \in Requests =>
        \/ order[reply[r]] # None /\ SameKey(reply[r], r)
        \/ reply[r] = r /\ (tx[r].pc = "written" \/ faults > 0)

\* What a transaction holds before and after the adapter has answered, and before
\* and after upsert_position has decided.
Judged(t) ==
    /\ t.pc \notin {"decided", "written"} => t.op = None
    /\ t.pc \in {"read", "decided"} => t.status = "filled"
    /\ t.pc = "written" => t.status # "pending"

\* An insert is of the request's own row; an update that was flushed has locked
\* a row that is there.
WritesTarget ==
    \A r \in Requests :
        /\ Judged(tx[r])
        /\ tx[r].op = "insert" => tx[r].target = r
        /\ tx[r].pc = "written" /\ tx[r].op \in {"update", "touch"} => tx[r].target \in held

\* Two flushed writes are of different rows, unless they insert.
Locks(t) == t.pc = "written" /\ t.op \in {"update", "touch", "delete"}

RowsLocked ==
    \A r, q \in Requests :
        Locks(tx[r]) /\ Locks(tx[q]) /\ tx[r].target = tx[q].target => r = q

IInv ==
    /\ TypeOK
    /\ OrdersApart
    /\ KeyHeld
    /\ AnswersCommitted
    /\ WritesTarget
    /\ RowsLocked

-----------------------------------------------------------------------------
(* Lemmas                                                                  *)

\* A step of r that leaves the database and the answers alone, and does not take
\* r over the unique index.
LEMMA KeysUntouched ==
    ASSUME IInv, NEW r \in Requests, UNCHANGED <<order, reply, faults>>,
           tx[r].pc # "written",
           NEW t \in Tx, tx' = [tx EXCEPT ![r] = t],
           t.pc \in {"inserted", "read", "decided", "written"} => InsertedRow(r)
    PROVE  OrdersApart' /\ KeyHeld' /\ AnswersCommitted'
<1>1. \A q \in Requests : InsertedRow(q)' => InsertedRow(q)
    BY DEF IInv, TypeOK, InsertedRow
<1>2. \A q \in Requests : tx[q].pc = "written" => tx'[q].pc = "written"
    BY DEF IInv, TypeOK
<1>3. AnswersCommitted'
    BY <1>2 DEF IInv, AnswersCommitted, SameKey
<1> QED
    BY <1>1, <1>3 DEF IInv, OrdersApart, KeyHeld, SameKey

\* A step of r that leaves the positions alone and flushes nothing.
LEMMA RowsUntouched ==
    ASSUME IInv, NEW r \in Requests, UNCHANGED held,
           NEW t \in Tx, tx' = [tx EXCEPT ![r] = t], Judged(t),
           t.op = "insert" => t.target = r,
           ~Locks(t)
    PROVE  WritesTarget' /\ RowsLocked'
<1>1. /\ tx'[r] = t
      /\ \A q \in Requests \ {r} : tx'[q] = tx[q]
    BY DEF IInv, TypeOK
<1>2. WritesTarget'
    BY <1>1 DEF IInv, WritesTarget, Locks
<1>3. RowsLocked'
    BY <1>1 DEF IInv, RowsLocked, Locks
<1> QED
    BY <1>2, <1>3

\* A request that ends with an error, or dies after its answer.
LEMMA Ends ==
    ASSUME IInv, NEW r \in Requests, UNCHANGED <<dbVars, stale, blind>>,
           faults' \in 0..MaxFaults, faults <= faults',
           Done(r, "error") \/ (Closed(r) /\ UNCHANGED reply /\ faults' > 0)
    PROVE  IInv'
<1> DEFINE t == FreshTx("done")
<1>1. t \in Tx /\ tx' = [tx EXCEPT ![r] = t] /\ t.pc = "done" /\ t.op = None
    BY DEF Done, Closed, FreshTx, Tx, PC, Op, None
<1>2. TypeOK'
    BY <1>1 DEF IInv, TypeOK, Done, dbVars
<1>3. \A q \in Requests : InsertedRow(q)' => InsertedRow(q)
    BY <1>1 DEF IInv, TypeOK, InsertedRow
<1>4. OrdersApart' /\ KeyHeld'
    BY <1>3 DEF IInv, OrdersApart, KeyHeld, SameKey, dbVars
<1>5. AnswersCommitted'
  <2>1. /\ \A q \in Requests \ {r} : tx'[q] = tx[q]
        /\ faults > 0 => faults' > 0
    BY <1>1, PaperConstantsOK DEF IInv, TypeOK
  <2>2. CASE Done(r, "error")
    BY <2>1, <2>2, PaperConstantsOK DEF IInv, TypeOK, AnswersCommitted, SameKey, Done, dbVars
  <2>3. CASE UNCHANGED reply /\ faults' > 0
    BY <2>1, <2>3 DEF IInv, AnswersCommitted, SameKey, dbVars
  <2> QED
    BY <2>2, <2>3
<1>6. WritesTarget' /\ RowsLocked'
    BY <1>1, RowsUntouched DEF dbVars, Judged, Locks, None
<1> QED
    BY <1>2, <1>4, <1>5, <1>6 DEF IInv

\* A step of r inside its transaction.
LEMMA Steps ==
    ASSUME IInv, NEW r \in Requests, UNCHANGED <<dbVars, reply, stale, blind, faults>>,
           tx[r].pc # "written",
           NEW t \in Tx, tx' = [tx EXCEPT ![r] = t], Judged(t),
           t.op = "insert" => t.target = r, ~Locks(t),
           t.pc \in {"inserted", "read", "decided", "written"} => InsertedRow(r)
    PROVE  IInv'
<1>1. TypeOK'
    BY DEF IInv, TypeOK, dbVars
<1>2. OrdersApart' /\ KeyHeld' /\ AnswersCommitted'
    BY KeysUntouched DEF dbVars
<1>3. WritesTarget' /\ RowsLocked'
    BY RowsUntouched DEF dbVars
<1> QED
    BY <1>1, <1>2, <1>3 DEF IInv

\* The requests that raise.
LEMMA RolledBackEnds ==
    ASSUME IInv, NEW r \in Requests, RolledBack(r)
    PROVE  IInv'
<1>1. faults' \in 0..MaxFaults /\ faults <= faults'
    BY PaperConstantsOK DEF RolledBack, IInv, TypeOK
<1> QED
    BY <1>1, Ends DEF RolledBack

-----------------------------------------------------------------------------
(* The invariant                                                           *)

LEMMA InitIInv == Init => IInv
<1> SUFFICES ASSUME Init PROVE IInv
    OBVIOUS
<1>1. FreshTx("start") \in Tx
    BY DEF FreshTx, Tx, PC, Op, None
<1>2. TypeOK
    BY <1>1, PaperConstantsOK DEF Init, TypeOK
<1>3. \A r \in Requests : tx[r].pc = "start" /\ tx[r].op = None
    BY DEF Init, FreshTx
<1>4. OrdersApart /\ KeyHeld
    BY <1>3 DEF Init, OrdersApart, KeyHeld, InsertedRow
<1>5. AnswersCommitted
    BY PaperConstantsOK DEF Init, AnswersCommitted
<1>6. WritesTarget /\ RowsLocked
    BY <1>3 DEF WritesTarget, RowsLocked, Judged, Locks, None
<1> QED
    BY <1>2, <1>4, <1>5, <1>6 DEF IInv

LEMMA LookupIInv ==
    ASSUME IInv, NEW r \in Requests, PaperLookup(r)
    PROVE  IInv'
<1>0. tx[r].op = None /\ tx[r].pc # "written"
    BY DEF PaperLookup, IInv, WritesTarget, Judged
<1>1. ASSUME NEW q \in Requests, order[q] # None, SameKey(q, r), Done(r, q)
      PROVE  IInv'
  <2> DEFINE t == FreshTx("done")
  <2>1. t \in Tx /\ tx' = [tx EXCEPT ![r] = t] /\ t.pc = "done" /\ t.op = None
    BY <1>1 DEF Done, FreshTx, Tx, PC, Op, None
  <2>2. TypeOK'
    BY <1>1, <2>1 DEF PaperLookup, IInv, TypeOK, Done, dbVars
  <2>3. \A p \in Requests : InsertedRow(p)' => InsertedRow(p)
    BY <2>1 DEF IInv, TypeOK, InsertedRow
  <2>4. OrdersApart' /\ KeyHeld'
    BY <2>3 DEF PaperLookup, IInv, OrdersApart, KeyHeld, SameKey, dbVars
  <2>5. AnswersCommitted'
    BY <1>0, <1>1, <2>1 DEF PaperLookup, IInv, TypeOK, AnswersCommitted, SameKey, Done, dbVars
  <2>6. WritesTarget' /\ RowsLocked'
    BY <2>1, RowsUntouched DEF PaperLookup, dbVars, Judged, Locks, None
  <2> QED
    BY <2>2, <2>4, <2>5, <2>6 DEF IInv
<1>2. CASE Goto(r, "missed") /\ UNCHANGED reply
  <2> DEFINE t == [tx[r] EXCEPT !.pc = "missed"]
  <2>1. /\ t \in Tx /\ tx' = [tx EXCEPT ![r] = t]
        /\ t.pc = "missed" /\ t.op = None
    BY <1>0, <1>2 DEF Goto, IInv, TypeOK, Tx, PC
  <2> QED
    BY <1>0, <1>2, <2>1, Steps DEF PaperLookup, Judged, Locks, None
<1> QED
    BY <1>1, <1>2 DEF PaperLookup

\* The buying-power gate, and the unique index: this is where the key is taken.
LEMMA CheckIInv ==
    ASSUME IInv, NEW r \in Requests, PaperCheck(r)
    PROVE  IInv'
<1>0. tx[r].op = None /\ tx[r].pc # "written"
    BY DEF PaperCheck, IInv, WritesTarget, Judged
<1>1. CASE RolledBack(r)
    BY <1>1, RolledBackEnds
<1>2. CASE Goto(r, "checked") /\ UNCHANGED <<dbVars, reply, stale, blind, faults>>
  <2> DEFINE t == [tx[r] EXCEPT !.pc = "checked"]
  <2>1. /\ t \in Tx /\ tx' = [tx EXCEPT ![r] = t]
        /\ t.pc = "checked" /\ t.op = None
    BY <1>0, <1>2 DEF Goto, IInv, TypeOK, Tx, PC
  <2> QED
    BY <1>0, <1>2, <2>1, Steps DEF Judged, Locks, None
<1> QED
    BY <1>1, <1>2 DEF PaperCheck

LEMMA InsertIInv ==
    ASSUME IInv, NEW r \in Requests, PaperInsert(r)
    PROVE  IInv'
<1>0. tx[r].op = None /\ tx[r].pc # "written"
    BY DEF PaperInsert, IInv, WritesTarget, Judged
<1>1. CASE RolledBack(r)
    BY <1>1, RolledBackEnds
<1>2. CASE /\ \A q \in Requests : SameKey(q, r) => order[q] = None
           /\ Goto(r, "inserted") /\ UNCHANGED <<dbVars, reply, stale, blind, faults>>
  <2> DEFINE t == [tx[r] EXCEPT !.pc = "inserted"]
  <2>1. /\ t \in Tx /\ tx' = [tx EXCEPT ![r] = t]
        /\ t.pc = "inserted" /\ t.op = None
    BY <1>0, <1>2 DEF Goto, IInv, TypeOK, Tx, PC
  <2>2. TypeOK'
    BY <1>2, <2>1 DEF IInv, TypeOK, dbVars
  <2>3. \A q \in Requests \ {r} : InsertedRow(q)' = InsertedRow(q)
    BY <2>1 DEF IInv, TypeOK, InsertedRow
  <2>4. \A q \in Requests \ {r} : SameKey(q, r) => ~InsertedRow(q)
    BY DEF PaperInsert, InsertedRow
  <2>5. KeyHeld'
    BY <1>2, <2>3, <2>4 DEF IInv, KeyHeld, SameKey, dbVars
  <2>6. OrdersApart' /\ AnswersCommitted'
    <3>1. \A q \in Requests : tx[q].pc = "written" => tx'[q].pc = "written"
      BY <1>0, <2>1 DEF IInv, TypeOK
    <3> QED
      BY <1>2, <3>1 DEF IInv, OrdersApart, AnswersCommitted, SameKey, dbVars
  <2>7. WritesTarget' /\ RowsLocked'
    BY <1>2, <2>1, RowsUntouched DEF Judged, Locks, None, dbVars
  <2> QED
    BY <2>2, <2>5, <2>6, <2>7 DEF IInv
<1> QED
    BY <1>1, <1>2 DEF PaperInsert

\* The adapter: the order rests, or it fills and the position is read.
LEMMA RestsIInv ==
    ASSUME IInv, NEW r \in Requests, PaperRests(r)
    PROVE  IInv'
<1>1. PICK status \in {"submitted", "cancelled"} :
         tx' = [tx EXCEPT ![r].pc = "written", ![r].status = status]
    BY DEF PaperRests
<1>2. tx[r].pc = "inserted" /\ UNCHANGED <<dbVars, reply, stale, blind, faults>>
    BY DEF PaperRests
<1>3. tx[r] \in Tx /\ tx \in [Requests -> Tx] /\ tx[r].op = None
    BY <1>2 DEF IInv, TypeOK, WritesTarget, Judged
<1> DEFINE t == [tx[r] EXCEPT !.pc = "written", !.status = status]
<1>4. /\ t \in Tx /\ tx' = [tx EXCEPT ![r] = t]
      /\ t.pc = "written" /\ t.status = status /\ t.op = None
    BY <1>1, <1>3 DEF Tx, PC
<1> QED
    BY <1>2, <1>4, Steps DEF Judged, Locks, None, InsertedRow

LEMMA FillsIInv ==
    ASSUME IInv, NEW r \in Requests, PaperFills(r)
    PROVE  IInv'
<1>1. tx[r].pc = "inserted" /\ tx[r].op = None
    BY DEF PaperFills, IInv, WritesTarget, Judged
<1>2. CASE RolledBack(r)
    BY <1>2, RolledBackEnds
<1>3. ASSUME UNCHANGED <<dbVars, reply, stale, blind, faults>>, NEW p \in held,
             tx' = [tx EXCEPT ![r] = [@ EXCEPT !.pc = "read", !.status = "filled",
                                               !.seen = p, !.base = qty[p]]]
      PROVE  IInv'
  <2> DEFINE t == [tx[r] EXCEPT !.pc = "read", !.status = "filled",
                                !.seen = p, !.base = qty[p]]
  <2>1. p \in Requests /\ qty[p] \in Int /\ tx[r] \in Tx
    BY DEF IInv, TypeOK
  <2>2. /\ t \in Tx /\ tx' = [tx EXCEPT ![r] = t]
        /\ t.pc = "read" /\ t.status = "filled" /\ t.op = None
    BY <1>1, <1>3, <2>1 DEF Tx, PC
  <2> QED
    BY <1>1, <1>3, <2>2, Steps DEF Judged, Locks, None, InsertedRow
<1>4. CASE /\ UNCHANGED <<dbVars, reply, stale, blind, faults>>
           /\ tx' = [tx EXCEPT ![r].pc = "read", ![r].status = "filled"]
  <2> DEFINE t == [tx[r] EXCEPT !.pc = "read", !.status = "filled"]
  <2>1. tx[r] \in Tx
    BY DEF IInv, TypeOK
  <2>2. /\ t \in Tx /\ tx' = [tx EXCEPT ![r] = t]
        /\ t.pc = "read" /\ t.status = "filled" /\ t.op = None
    BY <1>1, <1>4, <2>1 DEF Tx, PC
  <2> QED
    BY <1>1, <1>4, <2>2, Steps DEF Judged, Locks, None, InsertedRow
<1> QED
    BY <1>2, <1>3, <1>4 DEF PaperFills

\* upsert_position decides; what it decides is written later.
LEMMA DecideIInv ==
    ASSUME IInv, NEW r \in Requests, PaperDecide(r)
    PROVE  IInv'
<1>1. tx[r].pc = "read" /\ tx[r].status = "filled" /\ tx[r] \in Tx
    BY DEF PaperDecide, IInv, TypeOK, WritesTarget, Judged
<1>2. CASE RolledBack(r)
    BY <1>2, RolledBackEnds
<1>3. ASSUME UNCHANGED <<dbVars, reply, stale, blind, faults>>,
             NEW p \in Requests \cup {None}, NEW op \in Op,
             op = "insert" => p = r,
             tx' = [tx EXCEPT ![r] = [@ EXCEPT !.pc = "decided", !.target = p, !.op = op]]
      PROVE  IInv'
  <2> DEFINE t == [tx[r] EXCEPT !.pc = "decided", !.target = p, !.op = op]
  <2>1. /\ t \in Tx /\ tx' = [tx EXCEPT ![r] = t]
        /\ t.pc = "decided" /\ t.status = "filled" /\ t.op = op /\ t.target = p
    BY <1>1, <1>3 DEF Tx, PC
  <2> QED
    BY <1>1, <1>3, <2>1, Steps DEF Judged, Locks, InsertedRow
<1>4. ASSUME NEW p \in held, UNCHANGED <<dbVars, reply, stale, blind, faults>>,
             tx' = [tx EXCEPT ![r] = [@ EXCEPT
                      !.pc = "decided", !.target = p,
                      !.op = IF NewQty(r) = 0 THEN "delete"
                             ELSE IF Loaded(r, p) = NewQty(r) THEN "touch"
                             ELSE "update"]]
      PROVE  IInv'
  <2> DEFINE op == IF NewQty(r) = 0 THEN "delete"
                   ELSE IF Loaded(r, p) = NewQty(r) THEN "touch" ELSE "update"
  <2>1. p \in Requests /\ op \in Op /\ op # "insert"
    BY DEF IInv, TypeOK, Op
  <2> HIDE DEF op
  <2>2. tx' = [tx EXCEPT ![r] = [@ EXCEPT !.pc = "decided", !.target = p, !.op = op]]
    BY <1>4 DEF op
  <2> QED
    BY <1>3, <1>4, <2>1, <2>2
<1>5. ASSUME UNCHANGED <<dbVars, reply, stale, blind, faults>>,
             tx' = [tx EXCEPT ![r] = [@ EXCEPT
                      !.pc = "decided", !.target = r,
                      !.op = IF NewQty(r) = 0 THEN None ELSE "insert"]]
      PROVE  IInv'
  <2> DEFINE op == IF NewQty(r) = 0 THEN None ELSE "insert"
  <2>1. op \in Op
    BY DEF Op
  <2> HIDE DEF op
  <2>2. tx' = [tx EXCEPT ![r] = [@ EXCEPT !.pc = "decided", !.target = r, !.op = op]]
    BY <1>5 DEF op
  <2> QED
    BY <1>3, <1>5, <2>1, <2>2
<1> QED
    BY <1>2, <1>4, <1>5 DEF PaperDecide

\* The flush waits for the row's lock, so that two flushed updates are of different
\* rows, and checks that the row is there.
LEMMA WriteIInv ==
    ASSUME IInv, NEW r \in Requests, PaperWrite(r)
    PROVE  IInv'
<1> DEFINE t == [tx[r] EXCEPT !.pc = "written"]
<1>1. tx[r].pc = "decided" /\ tx[r].status = "filled" /\ tx[r] \in Tx
    BY DEF PaperWrite, IInv, TypeOK, WritesTarget, Judged
<1>2. CASE RolledBack(r)
    BY <1>2, RolledBackEnds
<1>3. CASE /\ tx[r].op \in {"update", "touch"} => tx[r].target \in held
           /\ Goto(r, "written") /\ UNCHANGED <<dbVars, reply, stale, blind, faults>>
  <2>1. /\ t \in Tx /\ tx' = [tx EXCEPT ![r] = t]
        /\ t.pc = "written" /\ t.status = "filled"
        /\ t.op = tx[r].op /\ t.target = tx[r].target
    BY <1>1, <1>3 DEF Goto, Tx, PC
  <2>2. TypeOK'
    BY <1>3, <2>1 DEF IInv, TypeOK, dbVars
  <2>3. OrdersApart' /\ KeyHeld' /\ AnswersCommitted'
    BY <1>1, <1>3, <2>1, KeysUntouched DEF dbVars, InsertedRow
  <2>4. /\ tx'[r] = t
        /\ \A q \in Requests \ {r} : tx'[q] = tx[q]
    BY <2>1 DEF IInv, TypeOK
  <2>5. WritesTarget'
    BY <1>3, <2>1, <2>4 DEF IInv, WritesTarget, Judged, dbVars
  <2>6. Locks(t) => \A q \in Requests \ {r} : Locks(tx[q]) => tx[q].target # t.target
    BY <2>1 DEF PaperWrite, Locks
  <2>7. RowsLocked'
    BY <2>4, <2>6 DEF IInv, RowsLocked
  <2> QED
    BY <2>2, <2>3, <2>5, <2>7 DEF IInv
<1> QED
    BY <1>2, <1>3 DEF PaperWrite

\* Order, execution and position commit together.  The key was held, so the order is
\* its first, and the row was locked, so nobody else's update loses it.
LEMMA CommitIInv ==
    ASSUME IInv, NEW r \in Requests, PaperCommit(r)
    PROVE  IInv'
<1> DEFINE t == FreshTx("done")
<1>1. t \in Tx /\ tx' = [tx EXCEPT ![r] = t] /\ t.pc = "done" /\ t.op = None
    BY DEF PaperCommit, Closed, FreshTx, Tx, PC, Op, None
<1>2. /\ tx[r] \in Tx /\ tx[r].pc = "written" /\ tx[r].status # "pending"
      /\ order' = [order EXCEPT ![r] = tx[r].status]
      /\ reply' = reply
      /\ faults' = faults
    BY DEF PaperCommit, IInv, TypeOK, WritesTarget, Judged
<1>3. InsertedRow(r)
    BY <1>2 DEF InsertedRow
<1>4. /\ order \in [Requests -> {None, "submitted", "cancelled", "filled"}]
      /\ order'[r] # None
      /\ \A q \in Requests \ {r} : order'[q] = order[q]
    BY <1>2 DEF IInv, TypeOK, Tx, None
<1>5. \A q \in Requests : InsertedRow(q)' => InsertedRow(q) /\ q # r
    BY <1>1 DEF IInv, TypeOK, InsertedRow
<1>6. OrdersApart'
    BY <1>3, <1>4 DEF IInv, OrdersApart, KeyHeld, SameKey
<1>7. KeyHeld'
  <2> SUFFICES ASSUME NEW p \in Requests, NEW q \in Requests, InsertedRow(p)', SameKey(q, p)
               PROVE  order'[q] = None /\ (InsertedRow(q)' => q = p)
    BY DEF KeyHeld, SameKey
  <2>1. ~SameKey(r, p)
    BY <1>3, <1>5 DEF IInv, KeyHeld
  <2> QED
    BY <1>4, <1>5, <2>1 DEF IInv, KeyHeld
<1>9. /\ tx'[r] = t
      /\ \A q \in Requests \ {r} : tx'[q] = tx[q]
    BY <1>1 DEF IInv, TypeOK
<1>8. AnswersCommitted'
  <2> SUFFICES ASSUME NEW p \in Requests, reply[p] \in Requests
               PROVE  \/ order'[reply[p]] # None /\ SameKey(reply[p], p)
                      \/ reply[p] = p /\ (tx'[p].pc = "written" \/ faults > 0)
    BY <1>2 DEF AnswersCommitted, SameKey
  <2>1. \A q \in Requests : order[q] # None => order'[q] # None
    BY <1>4
  <2>2. CASE p = r
    BY <1>4, <2>1, <2>2 DEF IInv, AnswersCommitted, SameKey
  <2>3. CASE p # r
    BY <1>9, <2>1, <2>3 DEF IInv, AnswersCommitted, SameKey
  <2> QED
    BY <2>2, <2>3
<1>10. RowsLocked'
    BY <1>1, <1>9 DEF IInv, RowsLocked, Locks
<1>11. CASE tx[r].status # "filled"
  <2>1. UNCHANGED <<held, qty, stale, blind>>
    BY <1>11 DEF PaperCommit
  <2>2. TypeOK'
    BY <1>1, <1>2, <2>1 DEF IInv, TypeOK, Tx, None
  <2>3. WritesTarget'
    BY <1>1, <1>9, <2>1 DEF IInv, WritesTarget, Judged, None
  <2> QED
    BY <1>6, <1>7, <1>8, <1>10, <2>2, <2>3 DEF IInv
<1>12. CASE tx[r].status = "filled"
  <2> DEFINE p == tx[r].target
             op == tx[r].op
  <2>1. PositionWritten(r) /\ ReadsGoStale(r) /\ blind' = blind \cup stale[r]
    BY <1>12 DEF PaperCommit
  <2>2. op = "insert" => p = r
    BY DEF IInv, WritesTarget
  <2>3. op \in {"update", "touch"} => p \in held
    BY <1>2 DEF IInv, WritesTarget
  <2>4. NewQty(r) \in Int
    BY <1>2 DEF Tx, NewQty, SignedQty
  <2>5. /\ held' \subseteq Requests
        /\ qty' \in [Requests -> Int]
        /\ \A q \in Requests \ held' : qty'[q] = 0
    <3>1. /\ held \subseteq Requests /\ qty \in [Requests -> Int]
          /\ \A q \in Requests \ held : qty[q] = 0
      BY DEF IInv, TypeOK
    <3>2. CASE op = "insert"
      <4>1. held' = held \cup {r} /\ qty' = [qty EXCEPT ![r] = NewQty(r)]
        BY <2>1, <2>2, <3>2 DEF PositionWritten
      <4> QED
        BY <2>4, <3>1, <4>1
    <3>3. CASE op = "update"
      <4>1. held' = held /\ qty' = [qty EXCEPT ![p] = NewQty(r)]
        BY <2>1, <3>3 DEF PositionWritten
      <4> QED
        BY <2>3, <2>4, <3>1, <3>3, <4>1
    <3>4. CASE op = "delete"
      <4>1. PICK u : u = p
        OBVIOUS
      <4>2. held' = held \ {u} /\ qty' = [qty EXCEPT ![u] = 0]
        BY <2>1, <3>4, <4>1 DEF PositionWritten
      <4>3. qty' = [q \in Requests |-> IF q = u THEN 0 ELSE qty[q]]
        BY <3>1, <4>2
      <4>4. qty' \in [Requests -> Int]
        BY <3>1, <4>3
      <4> QED
        BY <3>1, <4>2, <4>3, <4>4
    <3>5. CASE op \notin {"insert", "update", "delete"}
      <4>1. held' = held /\ qty' = qty
        BY <2>1, <3>5 DEF PositionWritten
      <4> QED
        BY <3>1, <4>1
    <3> QED
      BY <3>2, <3>3, <3>4, <3>5
  <2>6. /\ stale' \in [Requests -> SUBSET {"cash", "position"}]
        /\ blind' \subseteq {"cash", "position"}
    BY <2>1 DEF ReadsGoStale, IInv, TypeOK
  <2>7. TypeOK'
    BY <1>1, <1>2, <2>5, <2>6 DEF IInv, TypeOK, Tx, None
  <2>8. WritesTarget'
    <3>1. \A q \in held \ held' : op = "delete" /\ q = p
      BY <2>1 DEF PositionWritten
    <3>2. \A q \in Requests \ {r} :
             tx[q].pc = "written" /\ tx[q].op \in {"update", "touch"} => tx[q].target \in held'
      BY <1>2, <3>1 DEF IInv, WritesTarget, RowsLocked, Locks
    <3> QED
      BY <1>1, <1>9, <3>2 DEF IInv, WritesTarget, Judged, None
  <2> QED
    BY <1>6, <1>7, <1>8, <1>10, <2>7, <2>8 DEF IInv
<1> QED
    BY <1>11, <1>12

\* The client is answered; nothing else moves.
LEMMA AnswerIInv ==
    ASSUME IInv, NEW r \in Requests, PaperAnswer(r)
    PROVE  IInv'
<1>1. /\ tx[r].pc = "written"
      /\ reply' = [reply EXCEPT ![r] = r]
      /\ UNCHANGED <<order, held, qty, tx, stale, blind, faults>>
    BY DEF PaperAnswer, dbVars
<1>2. TypeOK'
    BY <1>1 DEF IInv, TypeOK
<1>3. OrdersApart' /\ KeyHeld' /\ AnswersCommitted'
    BY <1>1 DEF IInv, TypeOK, OrdersApart, KeyHeld, AnswersCommitted, SameKey, InsertedRow
<1>4. WritesTarget' /\ RowsLocked'
    BY <1>1 DEF IInv, WritesTarget, RowsLocked, Judged, Locks
<1> QED
    BY <1>2, <1>3, <1>4 DEF IInv

LEMMA CancelIInv ==
    ASSUME IInv, NEW r \in Requests, PaperCancel(r)
    PROVE  IInv'
<1>1. /\ order[r] # None
      /\ order' = [order EXCEPT ![r] = "cancelled"]
      /\ UNCHANGED <<held, qty, tx, reply, stale, blind, faults>>
    BY DEF PaperCancel, CancellableStatus, None
<1>2. TypeOK'
    BY <1>1 DEF IInv, TypeOK
<1>3. \A q \in Requests : (order'[q] = None) <=> (order[q] = None)
    BY <1>1 DEF IInv, TypeOK, None
<1>4. OrdersApart' /\ KeyHeld' /\ AnswersCommitted'
    BY <1>1, <1>3 DEF IInv, OrdersApart, KeyHeld, AnswersCommitted, SameKey, InsertedRow
<1>5. WritesTarget' /\ RowsLocked'
    BY <1>1 DEF IInv, WritesTarget, RowsLocked, Judged, Locks
<1> QED
    BY <1>2, <1>4, <1>5 DEF IInv

LEMMA StepIInv == IInv /\ [Next]_vars => IInv'
<1> SUFFICES ASSUME IInv, [Next]_vars PROVE IInv'
    OBVIOUS
<1>1. ASSUME NEW r \in Requests, PaperLookup(r) PROVE IInv'
    BY <1>1, LookupIInv
<1>2. ASSUME NEW r \in Requests, PaperRefuse(r) PROVE IInv'
    BY <1>2, RolledBackEnds DEF PaperRefuse
<1>3. ASSUME NEW r \in Requests, PaperCheck(r) PROVE IInv'
    BY <1>3, CheckIInv
<1>4. ASSUME NEW r \in Requests, PaperInsert(r) PROVE IInv'
    BY <1>4, InsertIInv
<1>5. ASSUME NEW r \in Requests, PaperRests(r) PROVE IInv'
    BY <1>5, RestsIInv
<1>6. ASSUME NEW r \in Requests, PaperFills(r) PROVE IInv'
    BY <1>6, FillsIInv
<1>7. ASSUME NEW r \in Requests, PaperDecide(r) PROVE IInv'
    BY <1>7, DecideIInv
<1>8. ASSUME NEW r \in Requests, PaperWrite(r) PROVE IInv'
    BY <1>8, WriteIInv
<1>9. ASSUME NEW r \in Requests, PaperCommit(r) PROVE IInv'
    BY <1>9, CommitIInv
<1>10. ASSUME NEW r \in Requests, PaperCancel(r) PROVE IInv'
    BY <1>10, CancelIInv
<1>11. ASSUME NEW r \in Requests, PaperCrash(r) PROVE IInv'
  <2>1. faults' \in 0..MaxFaults /\ faults <= faults' /\ faults' > 0
    BY <1>11, PaperConstantsOK DEF PaperCrash, IInv, TypeOK
  <2> QED
    BY <1>11, <2>1, Ends DEF PaperCrash
<1>12. CASE UNCHANGED vars
  <2>1. TypeOK'
    BY <1>12 DEF vars, dbVars, IInv, TypeOK
  <2>2. OrdersApart' /\ KeyHeld' /\ AnswersCommitted'
    BY <1>12 DEF vars, dbVars, IInv, OrdersApart, KeyHeld, AnswersCommitted, SameKey, InsertedRow
  <2>3. WritesTarget' /\ RowsLocked'
    BY <1>12 DEF vars, dbVars, IInv, WritesTarget, RowsLocked, Judged, Locks
  <2> QED
    BY <2>1, <2>2, <2>3 DEF IInv
<1>13. ASSUME NEW r \in Requests, PaperAnswer(r) PROVE IInv'
    BY <1>13, AnswerIInv
<1> QED
    BY <1>1, <1>2, <1>3, <1>4, <1>5, <1>6, <1>7, <1>8, <1>9, <1>10, <1>11, <1>12, <1>13 DEF Next

-----------------------------------------------------------------------------
(* The position and the balance                                            *)

\* What the fills come to.
NetFilled == SumOver([r \in Requests |-> SignedQty(r)], Filled)

\* r's order has filled in r's transaction, and the position was read.
InFill(r) == tx[r].pc \in {"read", "decided", "written"} /\ tx[r].status = "filled"

\* What r read of the position still holds, and what it decided is right: with no row
\* it inserts its own, with one it writes that one.
Current(r) ==
    /\ tx[r].base = NetFilled
    /\ \A p \in held : tx[r].seen = p
    /\ tx[r].pc \in {"decided", "written"} =>
          /\ held = {} => tx[r].op = "insert" /\ tx[r].target = r
          /\ \A p \in held :
                /\ tx[r].op = IF NewQty(r) = 0 THEN "delete" ELSE "update"
                /\ tx[r].target = p

\* Nothing is read of the position before the order fills.
NotRead(r) ==
    tx[r].pc \in {"start", "missed", "checked", "inserted"} => tx[r].base = 0

PositionInv ==
    /\ \A r \in Requests : NotRead(r)
    /\ "position" \notin blind =>
          /\ \A p, q \in held : p = q
          /\ SumOver(qty, held) = NetFilled
          /\ \A r \in Requests : InFill(r) /\ "position" \notin stale[r] => Current(r)

\* A buy that has passed the gate.
Passed(r) ==
    KeyOf[r] \in Buys /\ tx[r].pc \in {"checked", "inserted", "read", "decided", "written"}

SpendingInv ==
    "cash" \notin blind =>
        /\ Balance + Overrun >= 0
        /\ \A r \in Requests : Passed(r) /\ "cash" \notin stale[r] => Mark <= Balance

LEMMA FilledFinite == IsFiniteSet(Filled)
BY RequestsFinite, FS_Subset DEF Filled

LEMMA NetFilledType == NetFilled \in Int
<1> DEFINE f == [r \in Requests |-> SignedQty(r)]
<1>1. \A r \in Filled : f[r] \in Int
    BY DEF SignedQty, Filled
<1> HIDE DEF f
<1>2. SumOver(f, Filled) \in Int
    BY <1>1, FilledFinite, SumType
<1> QED
    BY <1>2 DEF NetFilled, f

\* A commit is of an order that had no row, and adds it to the filled ones if it
\* filled.
LEMMA Commits ==
    ASSUME IInv, NEW r \in Requests, PaperCommit(r)
    PROVE  /\ tx' = [tx EXCEPT ![r] = FreshTx("done")]
           /\ r \notin Filled
           /\ Filled' = IF tx[r].status = "filled" THEN Filled \cup {r} ELSE Filled
<1>1. /\ tx' = [tx EXCEPT ![r] = FreshTx("done")]
      /\ tx[r].pc = "written"
      /\ order' = [order EXCEPT ![r] = tx[r].status]
    BY DEF PaperCommit, Closed
<1>2. order[r] = None
    BY <1>1 DEF IInv, KeyHeld, InsertedRow, SameKey
<1>3. order \in [Requests -> {None, "submitted", "cancelled", "filled"}]
    BY DEF IInv, TypeOK
<1>4. /\ order'[r] = tx[r].status
      /\ \A q \in Requests \ {r} : order'[q] = order[q]
    BY <1>1, <1>3
<1> QED
    BY <1>1, <1>2, <1>4 DEF Filled, None

\* A step of r that fills no order: all that was read is worth what it was.
LEMMA ReadKept ==
    ASSUME IInv, PositionInv, NEW r \in Requests,
           Filled' = Filled, UNCHANGED <<held, qty, stale, blind>>,
           NEW t \in Tx, tx' = [tx EXCEPT ![r] = t],
           NotRead(r)',
           "position" \notin blind /\ InFill(r)' /\ "position" \notin stale[r] => Current(r)'
    PROVE  PositionInv'
<1>1. /\ tx'[r] = t
      /\ \A q \in Requests \ {r} : tx'[q] = tx[q]
    BY DEF IInv, TypeOK
<1>2. NetFilled' = NetFilled
    BY DEF NetFilled
<1>3. \A q \in Requests : NotRead(q)'
    BY <1>1 DEF PositionInv, NotRead
<1>4. ASSUME NEW q \in Requests, "position" \notin blind', InFill(q)', "position" \notin stale'[q]
      PROVE  Current(q)'
  <2>1. CASE q = r
    BY <1>4, <2>1
  <2>2. CASE q # r
    <3>1. InFill(q) /\ tx'[q] = tx[q]
      BY <1>1, <1>4, <2>2 DEF InFill
    <3>2. Current(q)
      BY <1>4, <3>1 DEF PositionInv
    <3>3. NewQty(q)' = NewQty(q)
      BY <3>1 DEF NewQty, SignedQty
    <3> QED
      BY <1>2, <3>1, <3>2, <3>3 DEF Current
  <2> QED
    BY <2>1, <2>2
<1> QED
    BY <1>2, <1>3, <1>4 DEF PositionInv

\* A transaction that ends has read nothing.
LEMMA EndKeepsReads ==
    ASSUME IInv, PositionInv, NEW r \in Requests, tx' = [tx EXCEPT ![r] = FreshTx("done")],
           Filled' = Filled, UNCHANGED <<held, qty, stale, blind>>
    PROVE  PositionInv'
<1>1. FreshTx("done") \in Tx
    BY DEF FreshTx, Tx, PC, Op, None
<1>2. tx'[r] = FreshTx("done")
    BY DEF IInv, TypeOK
<1>3. NotRead(r)' /\ ~InFill(r)'
    BY <1>2 DEF NotRead, InFill, FreshTx
<1> QED
    BY <1>1, <1>3, ReadKept

\* A fill that commits on a position that nobody had changed.
LEMMA FillKeepsPosition ==
    ASSUME IInv, PositionInv, NEW r \in Requests, PaperCommit(r), tx[r].status = "filled"
    PROVE  PositionInv'
<1>1. /\ tx' = [tx EXCEPT ![r] = FreshTx("done")]
      /\ r \notin Filled
      /\ Filled' = Filled \cup {r}
    BY Commits
<1>2. /\ tx'[r] = FreshTx("done")
      /\ \A q \in Requests \ {r} : tx'[q] = tx[q]
    BY <1>1 DEF IInv, TypeOK
<1>3. tx[r].pc = "written" /\ PositionWritten(r) /\ ReadsGoStale(r) /\ blind' = blind \cup stale[r]
    BY DEF PaperCommit
<1>4. \A q \in Requests : NotRead(q)'
    BY <1>2 DEF PositionInv, NotRead, FreshTx
<1>5. \A q \in Requests : InFill(q)' => "position" \in stale'[q]
    BY <1>2, <1>3 DEF ReadsGoStale, InFill, FreshTx
<1>6. NetFilled' = NetFilled + SignedQty(r)
  <2> DEFINE f == [q \in Requests |-> SignedQty(q)]
  <2>1. (\A q \in Filled : f[q] \in Int) /\ f[r] = SignedQty(r) /\ f[r] \in Int
    BY DEF SignedQty, Filled
  <2> HIDE DEF f
  <2>2. SumOver(f, Filled \cup {r}) = f[r] + SumOver(f, Filled)
    BY <1>1, <2>1, FilledFinite, SumAdd
  <2>3. SumOver(f, Filled) \in Int
    BY <2>1, FilledFinite, SumType
  <2>4. NetFilled' = SumOver(f, Filled \cup {r}) /\ NetFilled = SumOver(f, Filled)
    BY <1>1 DEF NetFilled, f, SignedQty
  <2> QED
    BY <2>1, <2>2, <2>3, <2>4
<1>7. ASSUME "position" \notin blind'
      PROVE  (\A p, q \in held' : p = q) /\ SumOver(qty', held') = NetFilled'
  <2>1. "position" \notin blind /\ "position" \notin stale[r]
    BY <1>3, <1>7
  <2>2. InFill(r)
    BY <1>3 DEF InFill
  <2>3. /\ Current(r)
        /\ \A p, q \in held : p = q
    BY <2>1, <2>2 DEF PositionInv
  <2>4. /\ held \in SUBSET Requests /\ qty \in [Requests -> Int]
        /\ NewQty(r) = NetFilled'
    BY <1>6, <2>3 DEF IInv, TypeOK, Current, NewQty
  <2>5. NewQty(r) \in Int
    BY <1>6, <2>4, NetFilledType DEF SignedQty
  <2>6. CASE held = {}
    <3>1. held' = {r} /\ qty'[r] = NewQty(r)
      BY <1>3, <2>3, <2>4, <2>6 DEF Current, PositionWritten
    <3> QED
      BY <2>4, <2>5, <3>1, SumSingle
  <2>7. ASSUME NEW p \in held
        PROVE  (\A u, v \in held' : u = v) /\ SumOver(qty', held') = NetFilled'
    <3>1. held = {p} /\ tx[r].target = p /\ p \in Requests
      BY <2>3, <2>4, <1>3, <2>7 DEF Current
    <3>2. CASE NewQty(r) = 0
      <4>1. held' = {}
        BY <1>3, <2>3, <3>1, <3>2 DEF Current, PositionWritten
      <4> QED
        BY <2>4, <3>2, <4>1, SumEmpty
    <3>3. CASE NewQty(r) # 0
      <4>1. held' = {p} /\ qty'[p] = NewQty(r)
        BY <1>3, <2>3, <2>4, <3>1, <3>3 DEF Current, PositionWritten
      <4> QED
        BY <2>4, <2>5, <4>1, SumSingle
    <3> QED
      BY <3>2, <3>3
  <2> QED
    BY <2>6, <2>7
<1> QED
    BY <1>4, <1>5, <1>7 DEF PositionInv

LEMMA InitPosition == Init => PositionInv
<1> SUFFICES ASSUME Init PROVE PositionInv
    OBVIOUS
<1>1. \A r \in Requests : NotRead(r) /\ ~InFill(r)
    BY DEF Init, NotRead, InFill, FreshTx
<1>2. Filled = {} /\ held = {}
    BY DEF Init, Filled, None
<1> QED
    BY <1>1, <1>2, SumEmpty DEF PositionInv, NetFilled

\* get_position: the session holds the row, and the sum.
LEMMA FillsPosition ==
    ASSUME IInv, PositionInv, NEW r \in Requests, PaperFills(r)
    PROVE  PositionInv'
<1>1. tx[r].pc = "inserted" /\ tx[r] \in Tx /\ tx \in [Requests -> Tx]
    BY DEF PaperFills, IInv, TypeOK
<1>2. CASE RolledBack(r)
    BY <1>2, EndKeepsReads DEF RolledBack, Done, dbVars, Filled
<1>3. ASSUME UNCHANGED <<dbVars, reply, stale, blind, faults>>, NEW p \in held, held = {p},
             tx' = [tx EXCEPT ![r] = [@ EXCEPT !.pc = "read", !.status = "filled",
                                               !.seen = p, !.base = qty[p]]]
      PROVE  PositionInv'
  <2> DEFINE t == [tx[r] EXCEPT !.pc = "read", !.status = "filled",
                                !.seen = p, !.base = qty[p]]
  <2>1. p \in Requests /\ qty[p] \in Int
    BY DEF IInv, TypeOK
  <2>2. /\ t \in Tx /\ tx' = [tx EXCEPT ![r] = t] /\ tx'[r] = t
        /\ t.pc = "read" /\ t.seen = p /\ t.base = qty[p]
    BY <1>1, <1>3, <2>1 DEF Tx, PC
  <2>3. SumOver(qty, held) = qty[p]
    BY <1>3, <2>1, SumSingle
  <2>4. "position" \notin blind => Current(r)'
    BY <1>3, <2>2, <2>3 DEF PositionInv, Current, NetFilled, Filled, dbVars
  <2>5. NotRead(r)'
    BY <2>2 DEF NotRead
  <2> QED
    BY <1>3, <2>2, <2>4, <2>5, ReadKept DEF dbVars, Filled
<1>4. CASE /\ UNCHANGED <<dbVars, reply, stale, blind, faults>> /\ held = {}
           /\ tx' = [tx EXCEPT ![r].pc = "read", ![r].status = "filled"]
  <2> DEFINE t == [tx[r] EXCEPT !.pc = "read", !.status = "filled"]
  <2>1. /\ t \in Tx /\ tx' = [tx EXCEPT ![r] = t] /\ tx'[r] = t
        /\ t.pc = "read" /\ t.base = tx[r].base
    BY <1>1, <1>4 DEF Tx, PC
  <2>2. tx[r].base = 0
    BY <1>1 DEF PositionInv, NotRead
  <2>3. SumOver(qty, held) = 0
    BY <1>4, SumEmpty
  <2>4. "position" \notin blind => Current(r)'
    BY <1>4, <2>1, <2>2, <2>3 DEF PositionInv, Current, NetFilled, Filled, dbVars
  <2>5. NotRead(r)'
    BY <2>1 DEF NotRead
  <2> QED
    BY <1>4, <2>1, <2>4, <2>5, ReadKept DEF dbVars, Filled
<1> QED
    BY <1>2, <1>3, <1>4 DEF PaperFills

\* upsert_position: one share never leaves the quantity what it was, so an update
\* writes the column.
LEMMA DecidePosition ==
    ASSUME IInv, PositionInv, NEW r \in Requests, PaperDecide(r)
    PROVE  PositionInv'
<1>1. /\ tx[r].pc = "read" /\ tx[r].status = "filled"
      /\ tx[r] \in Tx /\ tx \in [Requests -> Tx]
    BY DEF PaperDecide, IInv, TypeOK, WritesTarget, Judged
<1>2. CASE RolledBack(r)
    BY <1>2, EndKeepsReads DEF RolledBack, Done, dbVars, Filled
<1>3. ASSUME UNCHANGED <<dbVars, reply, stale, blind, faults>>,
             NEW p \in Requests, NEW op \in Op,
             tx' = [tx EXCEPT ![r] = [@ EXCEPT !.pc = "decided", !.target = p, !.op = op]],
             Current(r) =>
                /\ held = {} => op = "insert" /\ p = r
                /\ \A h \in held : p = h /\ op = IF NewQty(r) = 0 THEN "delete" ELSE "update"
      PROVE  PositionInv'
  <2> DEFINE t == [tx[r] EXCEPT !.pc = "decided", !.target = p, !.op = op]
  <2>1. /\ t \in Tx /\ tx' = [tx EXCEPT ![r] = t] /\ tx'[r] = t
        /\ t.pc = "decided" /\ t.op = op /\ t.target = p
        /\ t.base = tx[r].base /\ t.seen = tx[r].seen
    BY <1>1, <1>3 DEF Tx, PC
  <2>2. NewQty(r)' = NewQty(r)
    BY <2>1 DEF NewQty, SignedQty
  <2>3. "position" \notin blind /\ "position" \notin stale[r] => Current(r)
    BY <1>1 DEF PositionInv, InFill
  <2>4. Current(r) => Current(r)'
    BY <1>3, <2>1, <2>2 DEF Current, NetFilled, Filled, dbVars
  <2>5. NotRead(r)'
    BY <2>1 DEF NotRead
  <2> QED
    BY <1>3, <2>1, <2>3, <2>4, <2>5, ReadKept DEF dbVars, Filled
<1>4. ASSUME NEW p \in held, held = {p}, UNCHANGED <<dbVars, reply, stale, blind, faults>>,
             tx' = [tx EXCEPT ![r] = [@ EXCEPT
                      !.pc = "decided", !.target = p,
                      !.op = IF NewQty(r) = 0 THEN "delete"
                             ELSE IF Loaded(r, p) = NewQty(r) THEN "touch"
                             ELSE "update"]]
      PROVE  PositionInv'
  <2> DEFINE op == IF NewQty(r) = 0 THEN "delete"
                   ELSE IF Loaded(r, p) = NewQty(r) THEN "touch" ELSE "update"
  <2>1. p \in Requests /\ op \in Op
    BY DEF IInv, TypeOK, Op
  <2>2. Current(r) => Loaded(r, p) # NewQty(r)
    BY <1>1 DEF Current, Loaded, NewQty, SignedQty, Tx
  <2>3. Current(r) => op = IF NewQty(r) = 0 THEN "delete" ELSE "update"
    BY <2>2
  <2> HIDE DEF op
  <2>4. tx' = [tx EXCEPT ![r] = [@ EXCEPT !.pc = "decided", !.target = p, !.op = op]]
    BY <1>4 DEF op
  <2> QED
    BY <1>3, <1>4, <2>1, <2>3, <2>4
<1>5. ASSUME held = {}, UNCHANGED <<dbVars, reply, stale, blind, faults>>,
             tx' = [tx EXCEPT ![r] = [@ EXCEPT
                      !.pc = "decided", !.target = r,
                      !.op = IF NewQty(r) = 0 THEN None ELSE "insert"]]
      PROVE  PositionInv'
  <2> DEFINE op == IF NewQty(r) = 0 THEN None ELSE "insert"
  <2>1. op \in Op
    BY DEF Op
  <2>2. "position" \notin blind => NetFilled = 0
    BY <1>5, SumEmpty DEF PositionInv
  <2>3. "position" \notin blind /\ Current(r) => op = "insert"
    BY <2>2 DEF Current, NewQty, SignedQty
  <2> HIDE DEF op
  <2>4. tx' = [tx EXCEPT ![r] = [@ EXCEPT !.pc = "decided", !.target = r, !.op = op]]
    BY <1>5 DEF op
  <2>5. CASE "position" \notin blind
    BY <1>3, <1>5, <2>1, <2>3, <2>4, <2>5
  <2>6. CASE "position" \in blind
    <3> DEFINE t == [tx[r] EXCEPT !.pc = "decided", !.target = r, !.op = op]
    <3>1. t \in Tx /\ tx' = [tx EXCEPT ![r] = t] /\ tx'[r] = t /\ t.pc = "decided"
      BY <1>1, <2>1, <2>4 DEF Tx, PC
    <3>2. NotRead(r)'
      BY <3>1 DEF NotRead
    <3> QED
      BY <1>5, <2>6, <3>1, <3>2, ReadKept DEF dbVars, Filled
  <2> QED
    BY <2>5, <2>6
<1> QED
    BY <1>2, <1>4, <1>5 DEF PaperDecide

LEMMA PositionStep == IInv /\ PositionInv /\ [Next]_vars => PositionInv'
<1> SUFFICES ASSUME IInv, PositionInv, [Next]_vars PROVE PositionInv'
    OBVIOUS
<1>0. tx \in [Requests -> Tx]
    BY DEF IInv, TypeOK
<1>1. ASSUME NEW r \in Requests, NEW pc \in PC, Goto(r, pc), UNCHANGED <<dbVars, stale, blind>>,
             pc \in {"start", "missed", "checked", "inserted"} =>
                tx[r].pc \in {"start", "missed", "checked", "inserted"},
             pc \notin {"read", "decided"},
             pc = "written" => tx[r].pc = "decided"
      PROVE  PositionInv'
  <2> DEFINE t == [tx[r] EXCEPT !.pc = pc]
  <2>1. /\ t \in Tx /\ tx' = [tx EXCEPT ![r] = t] /\ tx'[r] = t
        /\ t.pc = pc /\ t.base = tx[r].base /\ t.seen = tx[r].seen
        /\ t.op = tx[r].op /\ t.target = tx[r].target /\ t.status = tx[r].status
    BY <1>0, <1>1 DEF Goto, Tx, PC
  <2>2. NotRead(r)'
    BY <1>1, <2>1 DEF PositionInv, NotRead
  <2>3. InFill(r)' => InFill(r)
    BY <1>1, <2>1 DEF InFill
  <2>4. NewQty(r)' = NewQty(r)
    BY <2>1 DEF NewQty, SignedQty
  <2>5. InFill(r)' /\ Current(r) => Current(r)'
    BY <1>1, <2>1, <2>4 DEF Current, InFill, NetFilled, Filled, dbVars
  <2> QED
    BY <1>1, <2>1, <2>2, <2>3, <2>5, ReadKept DEF PositionInv, dbVars, Filled
<1>2. ASSUME NEW r \in Requests, NEW a, Done(r, a), UNCHANGED <<dbVars, stale, blind>>
      PROVE  PositionInv'
    BY <1>2, EndKeepsReads DEF Done, dbVars, Filled
<1>3. ASSUME NEW r \in Requests, PaperLookup(r) PROVE PositionInv'
    BY <1>1, <1>2, <1>3 DEF PaperLookup, PC
<1>4. ASSUME NEW r \in Requests, PaperRefuse(r) PROVE PositionInv'
    BY <1>2, <1>4 DEF PaperRefuse, RolledBack
<1>5. ASSUME NEW r \in Requests, PaperCheck(r) PROVE PositionInv'
    BY <1>1, <1>2, <1>5 DEF PaperCheck, RolledBack, PC
<1>6. ASSUME NEW r \in Requests, PaperInsert(r) PROVE PositionInv'
    BY <1>1, <1>2, <1>6 DEF PaperInsert, RolledBack, PC
<1>7. ASSUME NEW r \in Requests, PaperRests(r) PROVE PositionInv'
  <2>1. PICK status \in {"submitted", "cancelled"} :
           tx' = [tx EXCEPT ![r].pc = "written", ![r].status = status]
    BY <1>7 DEF PaperRests
  <2> DEFINE t == [tx[r] EXCEPT !.pc = "written", !.status = status]
  <2>2. /\ t \in Tx /\ tx' = [tx EXCEPT ![r] = t] /\ tx'[r] = t
        /\ t.pc = "written" /\ t.status # "filled"
    BY <1>0, <2>1 DEF Tx, PC
  <2>3. NotRead(r)' /\ ~InFill(r)'
    BY <2>2 DEF NotRead, InFill
  <2> QED
    BY <1>7, <2>2, <2>3, ReadKept DEF PaperRests, dbVars, Filled
<1>8. ASSUME NEW r \in Requests, PaperFills(r) PROVE PositionInv'
    BY <1>8, FillsPosition
<1>9. ASSUME NEW r \in Requests, PaperDecide(r) PROVE PositionInv'
    BY <1>9, DecidePosition
<1>10. ASSUME NEW r \in Requests, PaperWrite(r) PROVE PositionInv'
    BY <1>1, <1>2, <1>10 DEF PaperWrite, RolledBack, PC
<1>11. ASSUME NEW r \in Requests, PaperCommit(r) PROVE PositionInv'
  <2>1. CASE tx[r].status = "filled"
    BY <1>11, <2>1, FillKeepsPosition
  <2>2. CASE tx[r].status # "filled"
    BY <1>11, <2>2, Commits, EndKeepsReads DEF PaperCommit
  <2> QED
    BY <2>1, <2>2
<1>12. ASSUME NEW r \in Requests, PaperCancel(r) PROVE PositionInv'
  <2>1. Filled' = Filled
    BY <1>12 DEF PaperCancel, Filled, IInv, TypeOK, CancellableStatus
  <2> QED
    BY <1>12, <2>1 DEF PaperCancel, PositionInv, NotRead, InFill, Current, NewQty, SignedQty,
       NetFilled
<1>13. ASSUME NEW r \in Requests, PaperCrash(r) PROVE PositionInv'
    BY <1>13, EndKeepsReads DEF PaperCrash, Done, Closed, dbVars, Filled
<1>14. CASE UNCHANGED vars
    BY <1>14 DEF vars, dbVars, PositionInv, NotRead, InFill, Current, NewQty, SignedQty,
       NetFilled, Filled
<1>15. ASSUME NEW r \in Requests, PaperAnswer(r) PROVE PositionInv'
    BY <1>15 DEF PaperAnswer, dbVars, PositionInv, NotRead, InFill, Current, NewQty, SignedQty,
       NetFilled, Filled
<1> QED
    BY <1>3, <1>4, <1>5, <1>6, <1>7, <1>8, <1>9, <1>10, <1>11, <1>12, <1>13, <1>14, <1>15
    DEF Next

\* What a fill adds to the balance.
Credit == [r \in Requests |-> IF KeyOf[r] \in Buys THEN -PriceOf[KeyOf[r]] ELSE PriceOf[KeyOf[r]]]

Excess == [r \in Requests |-> PriceOf[KeyOf[r]] - Mark]

FilledBuys == {r \in Filled : KeyOf[r] \in Buys}

\* Prices are whole numbers, and no buy fills below the mark.
LEMMA Prices ==
    /\ \A r \in Requests : Credit[r] \in Int /\ Excess[r] \in Int
    /\ \A r \in Requests : KeyOf[r] \in Buys =>
          Excess[r] \in Nat /\ Credit[r] + Excess[r] = 0 - Mark
    /\ \A r \in Requests : KeyOf[r] \notin Buys => Credit[r] \in Nat
    /\ Mark \in Nat /\ StartingCash \in Nat
<1>1. \A r \in Requests : PriceOf[KeyOf[r]] \in Nat /\ Mark \in Nat
    BY PaperConstantsOK
<1>2. \A r \in Requests : KeyOf[r] \in Buys => Mark <= PriceOf[KeyOf[r]]
    BY PricesOK
<1> QED
    BY <1>1, <1>2, PaperConstantsOK DEF Credit, Excess

LEMMA BalanceTypes == Balance \in Int /\ Overrun \in Nat
<1>1. IsFiniteSet(Filled) /\ IsFiniteSet(FilledBuys)
    BY FilledFinite, FS_Subset DEF FilledBuys
<1>2. SumOver(Credit, Filled) \in Int
  <2>1. \A r \in Filled : Credit[r] \in Int
    BY Prices DEF Filled
  <2> QED
    BY <1>1, <2>1, SumType
<1>3. SumOver(Excess, FilledBuys) \in Nat
  <2>1. \A r \in FilledBuys : Excess[r] \in Nat
    BY Prices DEF FilledBuys, Filled
  <2> QED
    BY <1>1, <2>1, SumNatural
<1>4. Balance = StartingCash + SumOver(Credit, Filled) /\ Overrun = SumOver(Excess, FilledBuys)
    BY DEF Balance, Overrun, Credit, Excess, FilledBuys
<1> QED
    BY <1>2, <1>3, <1>4, Prices

\* A fill at its price: a sale adds to the balance, a buy takes the mark and what its
\* limit exceeds the mark by.
LEMMA FillMovesBalance ==
    ASSUME NEW r \in Requests, r \notin Filled, Filled' = Filled \cup {r}
    PROVE  /\ Balance' \in Int /\ Overrun' \in Int
           /\ KeyOf[r] \in Buys => Balance' + Overrun' = Balance + Overrun - Mark
           /\ KeyOf[r] \notin Buys => Balance' >= Balance /\ Overrun' = Overrun
<1>1. IsFiniteSet(Filled) /\ IsFiniteSet(FilledBuys)
    BY FilledFinite, FS_Subset DEF FilledBuys
<1>2. SumOver(Credit, Filled \cup {r}) = Credit[r] + SumOver(Credit, Filled)
  <2>1. \A q \in Filled : Credit[q] \in Int
    BY Prices DEF Filled
  <2> QED
    BY <1>1, <2>1, Prices, SumAdd
<1>3. SumOver(Excess, FilledBuys \cup {r}) = Excess[r] + SumOver(Excess, FilledBuys)
  <2>1. \A q \in FilledBuys : Excess[q] \in Int
    BY Prices DEF FilledBuys, Filled
  <2>2. r \notin FilledBuys
    BY DEF FilledBuys
  <2> QED
    BY <1>1, <2>1, <2>2, Prices, SumAdd
<1>4. /\ Balance = StartingCash + SumOver(Credit, Filled)
      /\ Balance' = StartingCash + SumOver(Credit, Filled')
      /\ Overrun = SumOver(Excess, FilledBuys)
      /\ Overrun' = SumOver(Excess, FilledBuys')
    BY DEF Balance, Overrun, Credit, Excess, FilledBuys
<1>5. SumOver(Credit, Filled) \in Int /\ SumOver(Excess, FilledBuys) \in Int
  <2>1. \A q \in Filled : Credit[q] \in Int /\ Excess[q] \in Int
    BY Prices DEF Filled
  <2>2. \A q \in FilledBuys : Excess[q] \in Int
    BY <2>1 DEF FilledBuys
  <2> QED
    BY <1>1, <2>1, <2>2, SumType
<1>6. CASE KeyOf[r] \in Buys
  <2>1. FilledBuys' = FilledBuys \cup {r}
    BY <1>6 DEF FilledBuys
  <2>2. Credit[r] \in Int /\ Excess[r] \in Int /\ Credit[r] + Excess[r] = 0 - Mark
    BY <1>6, Prices
  <2>3. /\ Balance' = StartingCash + (Credit[r] + SumOver(Credit, Filled))
        /\ Overrun' = Excess[r] + SumOver(Excess, FilledBuys)
    BY <1>2, <1>3, <1>4, <2>1
  <2> QED
    BY <1>4, <1>5, <1>6, <2>2, <2>3, Prices
<1>7. CASE KeyOf[r] \notin Buys
  <2>1. FilledBuys' = FilledBuys
    BY <1>7 DEF FilledBuys
  <2>2. Credit[r] \in Nat
    BY <1>7, Prices
  <2>3. Balance' = StartingCash + (Credit[r] + SumOver(Credit, Filled)) /\ Overrun' = Overrun
    BY <1>2, <1>4, <2>1
  <2> QED
    BY <1>4, <1>5, <1>7, <2>2, <2>3, Prices
<1> QED
    BY <1>6, <1>7

\* A step that fills no order, and of r alone.
LEMMA SpendingKept ==
    ASSUME IInv, SpendingInv, NEW r \in Requests, Filled' = Filled, UNCHANGED <<stale, blind>>,
           \A q \in Requests \ {r} : tx'[q] = tx[q],
           Passed(r)' => Passed(r) \/ Mark <= Balance
    PROVE  SpendingInv'
<1>1. Balance' = Balance /\ Overrun' = Overrun
    BY DEF Balance, Overrun
<1>2. ASSUME NEW q \in Requests, "cash" \notin blind, Passed(q)', "cash" \notin stale[q]
      PROVE  Mark <= Balance
    BY <1>2 DEF SpendingInv, Passed
<1> QED
    BY <1>1, <1>2 DEF SpendingInv

LEMMA InitSpending == Init => SpendingInv
<1> SUFFICES ASSUME Init PROVE SpendingInv
    OBVIOUS
<1>1. Filled = {} /\ \A r \in Requests : ~Passed(r)
    BY DEF Init, Filled, None, Passed, FreshTx
<1>2. Balance = StartingCash + 0 /\ Overrun = 0
  <2>1. {r \in Filled : KeyOf[r] \in Buys} = {}
    BY <1>1
  <2>2. Overrun = SumOver(Excess, {}) /\ Balance = StartingCash + SumOver(Credit, {})
    BY <1>1, <2>1 DEF Balance, Overrun, Credit, Excess
  <2> QED
    BY <2>2, SumEmpty
<1> QED
    BY <1>1, <1>2, Prices DEF SpendingInv

\* A buy that commits with the balance it was checked against; a sale adds to it.
LEMMA FillKeepsSpending ==
    ASSUME IInv, SpendingInv, NEW r \in Requests, PaperCommit(r), tx[r].status = "filled"
    PROVE  SpendingInv'
<1>1. /\ tx' = [tx EXCEPT ![r] = FreshTx("done")]
      /\ r \notin Filled
      /\ Filled' = Filled \cup {r}
    BY Commits
<1>2. /\ tx'[r] = FreshTx("done")
      /\ \A q \in Requests \ {r} : tx'[q] = tx[q]
    BY <1>1 DEF IInv, TypeOK
<1>3. tx[r].pc = "written" /\ ReadsGoStale(r) /\ blind' = blind \cup stale[r]
    BY DEF PaperCommit
<1>4. /\ \A q \in Requests : stale[q] \subseteq stale'[q]
      /\ KeyOf[r] \in Buys => \A q \in Requests \ {r} : Passed(q) => "cash" \in stale'[q]
    BY <1>3 DEF ReadsGoStale, PC, Passed
<1>5. \A q \in Requests : Passed(q)' => q # r /\ Passed(q)
    BY <1>2 DEF Passed, FreshTx
<1>6. /\ Balance \in Int /\ Balance' \in Int /\ Mark \in Int
      /\ Overrun \in Int /\ Overrun' \in Int /\ Overrun >= 0
    BY <1>1, BalanceTypes, FillMovesBalance, Prices
<1>7. CASE KeyOf[r] \in Buys
  <2>1. ASSUME "cash" \notin blind'
        PROVE  Balance' + Overrun' >= 0
    <3>1. Balance + Overrun >= 0 /\ Mark <= Balance
      BY <1>3, <1>7, <2>1 DEF SpendingInv, Passed
    <3>2. Balance' + Overrun' = Balance + Overrun - Mark
      BY <1>1, <1>7, FillMovesBalance
    <3>3. \A b, o, c, p, m \in Int : m <= b /\ o >= 0 /\ c + p = b + o - m => c + p >= 0
      OBVIOUS
    <3> QED
      BY <1>6, <3>1, <3>2, <3>3, Zenon
  <2> QED
    BY <1>4, <1>5, <1>7, <2>1 DEF SpendingInv
<1>8. CASE KeyOf[r] \notin Buys
  <2>1. Balance' >= Balance /\ Overrun' = Overrun
    BY <1>1, <1>8, FillMovesBalance
  <2>2. ASSUME "cash" \notin blind'
        PROVE  Balance' + Overrun' >= 0
    <3>1. Balance + Overrun >= 0
      BY <1>3, <2>2 DEF SpendingInv
    <3>2. \A b, o, c \in Int : b + o >= 0 /\ c >= b => c + o >= 0
      OBVIOUS
    <3> QED
      BY <1>6, <2>1, <3>1, <3>2, Zenon
  <2>3. ASSUME NEW q \in Requests, "cash" \notin blind', Passed(q)', "cash" \notin stale'[q]
        PROVE  Mark <= Balance'
    <3>1. Mark <= Balance
      BY <1>3, <1>4, <1>5, <2>3 DEF SpendingInv
    <3> QED
      BY <1>6, <2>1, <3>1
  <2> QED
    BY <2>2, <2>3 DEF SpendingInv
<1> QED
    BY <1>7, <1>8

LEMMA SpendingStep == IInv /\ SpendingInv /\ [Next]_vars => SpendingInv'
<1> SUFFICES ASSUME IInv, SpendingInv, [Next]_vars PROVE SpendingInv'
    OBVIOUS
<1>0. tx \in [Requests -> Tx]
    BY DEF IInv, TypeOK
<1>1. ASSUME NEW r \in Requests, NEW pc, Goto(r, pc), UNCHANGED <<dbVars, stale, blind>>,
             pc \in {"checked", "inserted", "read", "decided", "written"} =>
                tx[r].pc \in {"checked", "inserted", "read", "decided"} \/
                (KeyOf[r] \in Buys => Mark <= Balance)
      PROVE  SpendingInv'
  <2>1. /\ tx' = [tx EXCEPT ![r].pc = pc]
        /\ \A q \in Requests \ {r} : tx'[q] = tx[q]
        /\ tx'[r].pc = pc
    BY <1>0, <1>1 DEF Goto, Tx
  <2> QED
    BY <1>1, <2>1, SpendingKept DEF Passed, dbVars, Filled
<1>2. ASSUME NEW r \in Requests, Closed(r), Filled' = Filled, UNCHANGED <<stale, blind>>
      PROVE  SpendingInv'
  <2>1. /\ tx'[r] = FreshTx("done")
        /\ \A q \in Requests \ {r} : tx'[q] = tx[q]
    BY <1>0, <1>2 DEF Closed
  <2> QED
    BY <1>2, <2>1, SpendingKept DEF Passed, FreshTx
<1>3. ASSUME NEW r \in Requests, tx[r].pc \in {"inserted", "read"}, NEW t,
             tx' = [tx EXCEPT ![r] = t], UNCHANGED <<dbVars, stale, blind>>
      PROVE  SpendingInv'
  <2>1. \A q \in Requests \ {r} : tx'[q] = tx[q]
    BY <1>0, <1>3
  <2>2. Passed(r)' => Passed(r)
    BY <1>3 DEF Passed
  <2> QED
    BY <1>3, <2>1, <2>2, SpendingKept DEF dbVars, Filled
<1>4. ASSUME NEW r \in Requests, PaperLookup(r) PROVE SpendingInv'
    BY <1>1, <1>2, <1>4 DEF PaperLookup, Done, Closed, dbVars, Filled
<1>5. ASSUME NEW r \in Requests, RolledBack(r) PROVE SpendingInv'
    BY <1>2, <1>5 DEF RolledBack, Done, Closed, dbVars, Filled
<1>6. ASSUME NEW r \in Requests, PaperCheck(r) PROVE SpendingInv'
  <2>1. CASE ~(KeyOf[r] \in Buys /\ Mark > Balance)
    <3>1. KeyOf[r] \in Buys => Mark <= Balance
      BY <2>1, BalanceTypes, Prices
    <3> QED
      BY <1>1, <1>6, <2>1, <3>1 DEF PaperCheck
  <2>2. CASE KeyOf[r] \in Buys /\ Mark > Balance
    BY <1>5, <1>6, <2>2 DEF PaperCheck
  <2> QED
    BY <2>1, <2>2
<1>7. ASSUME NEW r \in Requests, PaperInsert(r) PROVE SpendingInv'
    BY <1>1, <1>5, <1>7 DEF PaperInsert
<1>8. ASSUME NEW r \in Requests, PaperRests(r) PROVE SpendingInv'
  <2>1. PICK status \in {"submitted", "cancelled"} :
           tx' = [tx EXCEPT ![r].pc = "written", ![r].status = status]
    BY <1>8 DEF PaperRests
  <2>2. tx' = [tx EXCEPT ![r] = [tx[r] EXCEPT !.pc = "written", !.status = status]]
    BY <1>0, <2>1
  <2> QED
    BY <1>3, <1>8, <2>2 DEF PaperRests
<1>9. ASSUME NEW r \in Requests, PaperFills(r) PROVE SpendingInv'
  <2>1. CASE tx' = [tx EXCEPT ![r].pc = "read", ![r].status = "filled"] /\
             UNCHANGED <<dbVars, stale, blind>>
    <3>1. tx' = [tx EXCEPT ![r] = [tx[r] EXCEPT !.pc = "read", !.status = "filled"]]
      BY <1>0, <2>1
    <3> QED
      BY <1>3, <1>9, <2>1, <3>1 DEF PaperFills
  <2> QED
    BY <1>3, <1>5, <1>9, <2>1 DEF PaperFills
<1>10. ASSUME NEW r \in Requests, PaperDecide(r) PROVE SpendingInv'
    BY <1>3, <1>5, <1>10 DEF PaperDecide
<1>11. ASSUME NEW r \in Requests, PaperWrite(r) PROVE SpendingInv'
    BY <1>1, <1>5, <1>11 DEF PaperWrite
<1>12. ASSUME NEW r \in Requests, PaperCommit(r) PROVE SpendingInv'
  <2>1. CASE tx[r].status = "filled"
    BY <1>12, <2>1, FillKeepsSpending
  <2>2. CASE tx[r].status # "filled"
    BY <1>2, <1>12, <2>2, Commits DEF PaperCommit
  <2> QED
    BY <2>1, <2>2
<1>13. ASSUME NEW r \in Requests, PaperCancel(r) PROVE SpendingInv'
  <2>1. Filled' = Filled
    BY <1>13 DEF PaperCancel, Filled, IInv, TypeOK, CancellableStatus
  <2> QED
    BY <1>13, <2>1, SpendingKept DEF PaperCancel, Passed
<1>14. ASSUME NEW r \in Requests, PaperCrash(r) PROVE SpendingInv'
    BY <1>2, <1>14 DEF PaperCrash, Done, Closed, dbVars, Filled
<1>15. CASE UNCHANGED vars
    BY <1>15 DEF vars, dbVars, SpendingInv, Passed, Balance, Overrun, Filled
<1>16. ASSUME NEW r \in Requests, PaperAnswer(r) PROVE SpendingInv'
    BY <1>16 DEF PaperAnswer, dbVars, SpendingInv, Passed, Balance, Overrun, Filled
<1> QED
    BY <1>4, <1>5, <1>6, <1>7, <1>8, <1>9, <1>10, <1>11, <1>12, <1>13, <1>14, <1>15, <1>16
    DEF Next, PaperRefuse

-----------------------------------------------------------------------------
(* The desk as its clients see it                                          *)

\* A request under way has not been answered; one about to commit, of its own order
\* at most.
Unanswered ==
    \A r \in Requests :
        /\ tx[r].pc \notin {"written", "done"} => reply[r] = None
        /\ tx[r].pc = "written" => reply[r] \in {None, r}

DeskInv == IInv /\ Unanswered

LEMMA InitDeskInv == Init => DeskInv
BY InitIInv DEF Init, DeskInv, Unanswered

LEMMA StepDeskInv == DeskInv /\ [Next]_vars => DeskInv'
<1> SUFFICES ASSUME DeskInv, [Next]_vars PROVE Unanswered'
    BY StepIInv DEF DeskInv
<1>1. TypeOK
    BY DEF DeskInv, IInv
<1>2. ASSUME NEW r \in Requests, Closed(r), \A q \in Requests \ {r} : reply'[q] = reply[q]
      PROVE  Unanswered'
    BY <1>1, <1>2 DEF DeskInv, Unanswered, Closed, TypeOK, FreshTx
<1>3. ASSUME NEW r \in Requests, NEW answer, Done(r, answer) PROVE Unanswered'
    BY <1>1, <1>2, <1>3 DEF Done, Closed, TypeOK
<1>4. ASSUME NEW r \in Requests, UNCHANGED reply, tx[r].pc \notin {"written", "done"},
             \A q \in Requests \ {r} : tx'[q] = tx[q]
      PROVE  Unanswered'
    BY <1>4 DEF DeskInv, Unanswered
<1>5. ASSUME NEW r \in Requests, PaperLookup(r) PROVE Unanswered'
    BY <1>1, <1>3, <1>4, <1>5 DEF PaperLookup, Goto, TypeOK
<1>6. ASSUME NEW r \in Requests, PaperRefuse(r) \/ PaperCheck(r) \/ PaperInsert(r) \/ PaperWrite(r)
      PROVE  Unanswered'
    BY <1>1, <1>3, <1>4, <1>6 DEF PaperRefuse, PaperCheck, PaperInsert, PaperWrite, RolledBack,
        Goto, TypeOK
<1>7. ASSUME NEW r \in Requests, PaperRests(r) \/ PaperFills(r) PROVE Unanswered'
    BY <1>1, <1>3, <1>4, <1>7 DEF PaperRests, PaperFills, RolledBack, TypeOK
<1>8. ASSUME NEW r \in Requests, PaperDecide(r) PROVE Unanswered'
    BY <1>1, <1>3, <1>4, <1>8 DEF PaperDecide, RolledBack, TypeOK
<1>9. ASSUME NEW r \in Requests, PaperAnswer(r) PROVE Unanswered'
    BY <1>1, <1>9 DEF PaperAnswer, DeskInv, Unanswered, TypeOK
<1>10. ASSUME NEW r \in Requests, PaperCommit(r) PROVE Unanswered'
    BY <1>2, <1>10 DEF PaperCommit
<1>11. ASSUME NEW r \in Requests, PaperCrash(r) PROVE Unanswered'
    BY <1>2, <1>3, <1>11 DEF PaperCrash
<1>12. CASE (\E r \in Requests : PaperCancel(r)) \/ UNCHANGED vars
    BY <1>12 DEF PaperCancel, vars, DeskInv, Unanswered
<1> QED
    BY <1>5, <1>6, <1>7, <1>8, <1>9, <1>10, <1>11, <1>12 DEF Next

\* The order of a key is the one there is.
LEMMA PlacedIs ==
    ASSUME OrdersApart, NEW r \in Requests, order[r] # None, KeyOf[r] \in Keys
    PROVE  PlacedUnder[KeyOf[r]] = r /\ StatusUnder[KeyOf[r]] = order[r] /\ r # None
<1> DEFINE q == CHOOSE p \in Requests : KeyOf[p] = KeyOf[r] /\ order[p] # None
<1>1. q \in Requests /\ KeyOf[q] = KeyOf[r] /\ order[q] # None
    OBVIOUS
<1> HIDE DEF q
<1>2. q = r
    BY <1>1 DEF OrdersApart, SameKey
<1>3. PlacedUnder[KeyOf[r]] = q
    BY DEF PlacedUnder, q
<1>4. r # None
    BY PaperConstantsOK
<1> QED
    BY <1>2, <1>3, <1>4 DEF StatusUnder

\* A key nobody has got an order through with.
LEMMA NotPlaced ==
    ASSUME NEW k \in Keys, \A r \in Requests : KeyOf[r] = k => order[r] = None
    PROVE  PlacedUnder[k] = None /\ StatusUnder[k] = None
BY DEF PlacedUnder, StatusUnder

\* What the clients see follows the orders table alone.
LEMMA SameOrders ==
    UNCHANGED order => UNCHANGED <<PlacedUnder, StatusUnder, Balance>>
BY DEF PlacedUnder, StatusUnder, Balance, Filled

\* A change of r's order alone does not show under any other key.
LEMMA OtherKeys ==
    ASSUME NEW r \in Requests, NEW k \in Keys, k # KeyOf[r],
           \A q \in Requests \ {r} : order'[q] = order[q]
    PROVE  PlacedUnder'[k] = PlacedUnder[k] /\ StatusUnder'[k] = StatusUnder[k]
<1>1. \A q \in Requests : KeyOf[q] = k => order'[q] = order[q]
    OBVIOUS
<1>2. PlacedUnder'[k] = PlacedUnder[k]
  <2>1. (CHOOSE q \in Requests : KeyOf[q] = k /\ order'[q] # None)
            = (CHOOSE q \in Requests : KeyOf[q] = k /\ order[q] # None)
    BY <1>1
  <2> QED
    BY <1>1, <2>1 DEF PlacedUnder
<1>3. PlacedUnder[k] # None => PlacedUnder[k] \in Requests /\ KeyOf[PlacedUnder[k]] = k
    BY DEF PlacedUnder
<1> QED
    BY <1>1, <1>2, <1>3 DEF StatusUnder

\* The view is one of the keys.
LEMMA ByKey ==
    /\ PlacedUnder = [k \in Keys |-> PlacedUnder[k]]
    /\ StatusUnder = [k \in Keys |-> StatusUnder[k]]
    /\ PlacedUnder' = [k \in Keys |-> PlacedUnder'[k]]
    /\ StatusUnder' = [k \in Keys |-> StatusUnder'[k]]
<1>1. /\ PlacedUnder = [k \in Keys |-> PlacedUnder[k]]
      /\ PlacedUnder' = [k \in Keys |-> PlacedUnder'[k]]
    BY DEF PlacedUnder
<1>2. StatusUnder = [k \in Keys |-> StatusUnder[k]]
    BY DEF StatusUnder
<1>3. StatusUnder' = [k \in Keys |-> StatusUnder'[k]]
    BY DEF StatusUnder
<1> QED
    BY <1>1, <1>2, <1>3

\* Only r's own step moves it in or out of the promised.
LEMMA OthersPromised ==
    ASSUME NEW r \in Requests,
           \A q \in Requests \ {r} : tx'[q] = tx[q] /\ reply'[q] = reply[q]
    PROVE  /\ Promised' \ {r} = Promised \ {r}
           /\ r \in Promised' <=> tx'[r].pc = "written" /\ reply'[r] # None
           /\ r \in Promised <=> tx[r].pc = "written" /\ reply[r] # None
BY DEF Promised

\* A request that has told its client nothing and ends with an error.
LEMMA ErrorRefuses ==
    ASSUME DeskInv, NEW r \in Requests, reply[r] = None, Done(r, "error"), UNCHANGED order
    PROVE  Desk!Next
<1>1. \A q \in Requests \ {r} : tx'[q] = tx[q] /\ reply'[q] = reply[q]
    BY DEF Done, DeskInv, IInv, TypeOK
<1>2. tx'[r].pc = "done"
    BY DEF Done, FreshTx, DeskInv, IInv, TypeOK
<1>3. Promised' = Promised
  <2>1. r \notin Promised /\ r \notin Promised' /\ Promised' \ {r} = Promised \ {r}
    BY <1>1, <1>2, OthersPromised
  <2> QED
    BY <2>1
<1>4. Desk!Refuse(r)
    BY <1>3, SameOrders DEF Desk!Refuse, Desk!Tell, Done, None, Desk!None
<1> QED
    BY <1>4 DEF Desk!Next

\* Steps inside a transaction do not show.
LEMMA InsideHides ==
    ASSUME DeskInv, NEW r \in Requests, tx[r].pc \notin {"written", "done"},
           UNCHANGED <<order, reply>>, \A q \in Requests \ {r} : tx'[q] = tx[q]
    PROVE  UNCHANGED Desk!vars
<1>1. reply[r] = None
    BY DEF DeskInv, Unanswered
<1>2. Promised' = Promised
  <2>1. r \notin Promised /\ r \notin Promised' /\ Promised' \ {r} = Promised \ {r}
    BY <1>1, OthersPromised
  <2> QED
    BY <2>1
<1> QED
    BY <1>2, SameOrders DEF Desk!vars

\* A retry is answered with its key's order, or finds none.
LEMMA LookupRepeats ==
    ASSUME DeskInv, NEW r \in Requests, PaperLookup(r)
    PROVE  [Desk!Next]_(Desk!vars)
<1>1. UNCHANGED order /\ reply[r] = None /\ tx[r].pc = "start"
    BY DEF PaperLookup, dbVars, DeskInv, Unanswered
<1>2. ASSUME NEW q \in Requests, order[q] # None, SameKey(q, r), Done(r, q)
      PROVE  Desk!Next
  <2>1. KeyOf[r] \in Keys /\ KeyOf[q] = KeyOf[r]
    BY <1>2, PaperConstantsOK DEF SameKey
  <2>2. PlacedUnder[KeyOf[r]] = q /\ q # None
    BY <1>2, <2>1, PlacedIs DEF DeskInv, IInv
  <2>3. \A p \in Requests \ {r} : tx'[p] = tx[p] /\ reply'[p] = reply[p]
    BY <1>2 DEF Done, DeskInv, IInv, TypeOK
  <2>4. tx'[r].pc = "done"
    BY <1>2 DEF Done, FreshTx, DeskInv, IInv, TypeOK
  <2>5. UNCHANGED Promised
    BY <1>1, <2>3, <2>4, OthersPromised
  <2>6. Desk!Repeat(r)
    BY <1>1, <1>2, <2>2, <2>5, SameOrders DEF Desk!Repeat, Desk!Tell, Done, None, Desk!None
  <2> QED
    BY <2>6 DEF Desk!Next
<1>3. CASE Goto(r, "missed") /\ UNCHANGED reply
  <2>1. \A q \in Requests \ {r} : tx'[q] = tx[q]
    BY <1>3 DEF Goto, DeskInv, IInv, TypeOK
  <2> QED
    BY <1>1, <1>3, <2>1, InsideHides
<1> QED
    BY <1>2, <1>3 DEF PaperLookup

\* The answer promises the order: the key's row is r's, so the key has no order yet and
\* nobody else is promised one.
LEMMA AnswerPromises ==
    ASSUME DeskInv, NEW r \in Requests, PaperAnswer(r)
    PROVE  Desk!Next
<1> DEFINE k == KeyOf[r]
<1>1. /\ tx[r].pc = "written" /\ reply[r] = None /\ reply' = [reply EXCEPT ![r] = r]
      /\ UNCHANGED <<order, tx>> /\ reply \in [Requests -> Requests \cup {None, "error"}]
    BY DEF PaperAnswer, dbVars, DeskInv, IInv, TypeOK
<1>2. InsertedRow(r)
    BY <1>1 DEF InsertedRow
<1>3. k \in Keys /\ \A q \in Requests : KeyOf[q] = k => order[q] = None
    BY <1>2, PaperConstantsOK DEF DeskInv, IInv, KeyHeld, SameKey
<1>4. PlacedUnder[k] = None
    BY <1>3, NotPlaced
<1>5. \A q \in Promised : KeyOf[q] # k
    BY <1>1, <1>2 DEF Promised, DeskInv, IInv, KeyHeld, SameKey, InsertedRow
<1>6. Promised' = Promised \cup {r}
  <2>1. \A q \in Requests \ {r} : tx'[q] = tx[q] /\ reply'[q] = reply[q]
    BY <1>1
  <2>2. tx'[r].pc = "written" /\ reply'[r] # None
    BY <1>1, PaperConstantsOK
  <2> QED
    BY <2>1, <2>2, OthersPromised
<1>7. Desk!Promise(r)
    BY <1>1, <1>4, <1>5, <1>6, SameOrders DEF Desk!Promise, Desk!Tell, None, Desk!None
<1> QED
    BY <1>7 DEF Desk!Next

\* A crash before the answer is an error, one after it takes the promise back.
LEMMA CrashBreaks ==
    ASSUME DeskInv, NEW r \in Requests, PaperCrash(r)
    PROVE  Desk!Next
<1>1. CASE reply[r] = None
    BY <1>1, ErrorRefuses DEF PaperCrash, dbVars
<1>2. CASE reply[r] # None
  <2>1. Closed(r) /\ UNCHANGED <<order, reply>> /\ tx[r].pc # "done"
    BY <1>2 DEF PaperCrash, dbVars
  <2>2. tx[r].pc = "written"
    BY <1>2, <2>1 DEF DeskInv, Unanswered
  <2>3. tx'[r].pc = "done" /\ \A q \in Requests \ {r} : tx'[q] = tx[q]
    BY <2>1 DEF Closed, FreshTx, DeskInv, IInv, TypeOK
  <2>4. r \in Promised /\ Promised' = Promised \ {r}
    BY <1>2, <2>1, <2>2, <2>3, OthersPromised
  <2>5. Desk!Break(r)
    BY <2>1, <2>4, SameOrders DEF Desk!Break
  <2> QED
    BY <2>5 DEF Desk!Next
<1> QED
    BY <1>1, <1>2

\* The balance after a fill.
LEMMA FillPays ==
    ASSUME NEW r \in Requests, r \notin Filled, Filled' = Filled \cup {r}
    PROVE  Balance' = IF KeyOf[r] \in Buys THEN Balance - PriceOf[KeyOf[r]]
                                           ELSE Balance + PriceOf[KeyOf[r]]
<1>1. IsFiniteSet(Filled) /\ (\A q \in Filled : Credit[q] \in Int) /\ Credit[r] \in Int
    BY FilledFinite, Prices DEF Filled
<1>2. SumOver(Credit, Filled \cup {r}) = Credit[r] + SumOver(Credit, Filled)
    BY <1>1, SumAdd
<1>3. SumOver(Credit, Filled) \in Int
    BY <1>1, SumType
<1>4. /\ Balance = StartingCash + SumOver(Credit, Filled)
      /\ Balance' = StartingCash + SumOver(Credit, Filled')
    BY DEF Balance, Credit
<1>5. PriceOf[KeyOf[r]] \in Nat /\ StartingCash \in Nat
    BY PaperConstantsOK
<1>6. Credit[r] = IF KeyOf[r] \in Buys THEN 0 - PriceOf[KeyOf[r]] ELSE PriceOf[KeyOf[r]]
    BY <1>5 DEF Credit
<1> QED
    BY <1>2, <1>3, <1>4, <1>5, <1>6

\* The commit keeps the promise: the key had no order, and status and cash move at once.
LEMMA CommitKeeps ==
    ASSUME DeskInv, NEW r \in Requests, PaperCommit(r)
    PROVE  Desk!Next
<1> DEFINE k == KeyOf[r]
           s == tx[r].status
<1>1. /\ tx[r].pc = "written" /\ reply[r] = r /\ UNCHANGED reply
      /\ order' = [order EXCEPT ![r] = s] /\ order \in [Requests -> {None, "submitted", "cancelled", "filled"}]
    BY DEF PaperCommit, DeskInv, IInv, TypeOK
<1>2. s \in {"submitted", "cancelled", "filled"} /\ s # None
  <2>1. s # "pending"
    BY <1>1 DEF DeskInv, IInv, WritesTarget, Judged
  <2>2. s \in {"pending", "submitted", "cancelled", "filled"}
    BY DEF DeskInv, IInv, TypeOK, Tx
  <2> QED
    BY <2>1, <2>2 DEF None
<1>3. k \in Keys /\ \A q \in Requests : KeyOf[q] = k => order[q] = None
    BY <1>1, PaperConstantsOK DEF DeskInv, IInv, KeyHeld, InsertedRow, SameKey
<1>4. order'[r] = s /\ \A q \in Requests \ {r} : order'[q] = order[q]
    BY <1>1
<1>5. PlacedUnder[k] = None /\ StatusUnder[k] = None
    BY <1>3, NotPlaced
<1>6. PlacedUnder'[k] = r /\ StatusUnder'[k] = s
  <2> DEFINE q == CHOOSE p \in Requests : KeyOf[p] = k /\ order'[p] # None
  <2>1. q \in Requests /\ KeyOf[q] = k /\ order'[q] # None
    BY <1>2, <1>4
  <2> HIDE DEF q
  <2>2. q = r
    BY <1>3, <1>4, <2>1
  <2>3. PlacedUnder'[k] = q
    BY <1>2, <1>3, <1>4 DEF PlacedUnder, q
  <2>4. r # None
    BY PaperConstantsOK
  <2> QED
    BY <1>3, <1>4, <2>2, <2>3, <2>4 DEF StatusUnder
<1>7. \A j \in Keys \ {k} : PlacedUnder'[j] = PlacedUnder[j] /\ StatusUnder'[j] = StatusUnder[j]
    BY <1>4, OtherKeys
<1>8. /\ PlacedUnder' = [PlacedUnder EXCEPT ![k] = r]
      /\ StatusUnder' = [StatusUnder EXCEPT ![k] = s]
    BY <1>3, <1>6, <1>7, ByKey
<1>9. Balance' = IF s = "filled" THEN Desk!After(k) ELSE Balance
  <2>1. r \notin Filled /\ Filled' = IF s = "filled" THEN Filled \cup {r} ELSE Filled
    BY Commits DEF DeskInv
  <2>2. CASE s = "filled"
    BY <2>1, <2>2, FillPays DEF Desk!After
  <2>3. CASE s # "filled"
    BY <2>1, <2>3 DEF Balance
  <2> QED
    BY <2>2, <2>3
<1>10. r \in Promised /\ Promised' = Promised \ {r}
  <2>1. tx'[r].pc = "done" /\ \A q \in Requests \ {r} : tx'[q] = tx[q]
    BY DEF PaperCommit, Closed, FreshTx, DeskInv, IInv, TypeOK
  <2>2. r # None
    BY PaperConstantsOK
  <2> QED
    BY <1>1, <2>1, <2>2, OthersPromised
<1> HIDE DEF s
<1>11. Desk!Keep(r)
    BY <1>1, <1>2, <1>5, <1>8, <1>9, <1>10 DEF Desk!Keep, None, Desk!None
<1> QED
    BY <1>11 DEF Desk!Next

\* A cancel finds the order resting, and moves no cash.
LEMMA CancelCancels ==
    ASSUME DeskInv, NEW r \in Requests, PaperCancel(r)
    PROVE  Desk!Next
<1> DEFINE k == KeyOf[r]
<1>1. /\ order[r] = "submitted" /\ order' = [order EXCEPT ![r] = "cancelled"]
      /\ UNCHANGED reply /\ k \in Keys /\ order \in [Requests -> {None, "submitted", "cancelled", "filled"}]
    BY PaperConstantsOK DEF PaperCancel, CancellableStatus, DeskInv, IInv, TypeOK, None
<1>2. order'[r] = "cancelled" /\ \A q \in Requests \ {r} : order'[q] = order[q]
    BY <1>1
<1>3. \A q \in Requests : order'[q] # None <=> order[q] # None
    BY <1>1, <1>2 DEF None
<1>4. PlacedUnder' = PlacedUnder
    BY <1>3 DEF PlacedUnder
<1>5. PlacedUnder[k] = r /\ StatusUnder[k] = "submitted" /\ r # None
    BY <1>1, PlacedIs DEF DeskInv, IInv, None
<1>6. StatusUnder' = [StatusUnder EXCEPT ![k] = "cancelled"]
  <2>1. StatusUnder'[k] = "cancelled"
    BY <1>1, <1>2, <1>4, <1>5 DEF StatusUnder
  <2>2. \A j \in Keys \ {k} : StatusUnder'[j] = StatusUnder[j]
    BY <1>2, OtherKeys
  <2> QED
    BY <1>1, <2>1, <2>2, ByKey
<1>7. Balance' = Balance
  <2>1. Filled' = Filled
    BY <1>1, <1>2 DEF Filled
  <2> QED
    BY <2>1 DEF Balance
<1>8. Promised' = Promised
    BY DEF PaperCancel, Promised
<1>9. Desk!Cancel(k)
    BY <1>1, <1>4, <1>5, <1>6, <1>7, <1>8 DEF Desk!Cancel
<1> QED
    BY <1>1, <1>9 DEF Desk!Next

\* Before anything is committed.
LEMMA InitDesk == Init => Desk!Init
<1> SUFFICES ASSUME Init PROVE Desk!Init
    OBVIOUS
<1>1. (\A r \in Requests : order[r] = None) /\ Filled = {} /\ reply = [r \in Requests |-> None]
    BY DEF Init, Filled, None
<1>2. /\ PlacedUnder = [k \in Keys |-> None]
      /\ StatusUnder = [k \in Keys |-> None]
    BY <1>1 DEF PlacedUnder, StatusUnder
<1>3. Balance = StartingCash
  <2>1. Balance = StartingCash + SumOver(Credit, {})
    BY <1>1 DEF Balance, Credit
  <2> QED
    BY <2>1, SumEmpty, Prices
<1>4. Promised = {}
    BY DEF Init, Promised
<1> QED
    BY <1>1, <1>2, <1>3, <1>4 DEF Desk!Init, None, Desk!None

LEMMA StepDesk == DeskInv /\ [Next]_vars => [Desk!Next]_(Desk!vars)
<1> SUFFICES ASSUME DeskInv, [Next]_vars PROVE [Desk!Next]_(Desk!vars)
    OBVIOUS
<1>0. tx \in [Requests -> Tx]
    BY DEF DeskInv, IInv, TypeOK
<1>1. ASSUME NEW r \in Requests, tx[r].pc \notin {"written", "done"}, RolledBack(r)
      PROVE  [Desk!Next]_(Desk!vars)
    BY <1>1, ErrorRefuses DEF RolledBack, dbVars, DeskInv, Unanswered
<1>2. ASSUME NEW r \in Requests, tx[r].pc \notin {"written", "done"},
             UNCHANGED <<dbVars, reply, stale, blind, faults>>,
             \A q \in Requests \ {r} : tx'[q] = tx[q]
      PROVE  [Desk!Next]_(Desk!vars)
    BY <1>2, InsideHides DEF dbVars
<1>3. ASSUME NEW r \in Requests, PaperLookup(r) PROVE [Desk!Next]_(Desk!vars)
    BY <1>3, LookupRepeats
<1>4. ASSUME NEW r \in Requests,
             PaperRefuse(r) \/ PaperCheck(r) \/ PaperInsert(r) \/ PaperRests(r) \/ PaperFills(r)
                 \/ PaperDecide(r) \/ PaperWrite(r)
      PROVE  [Desk!Next]_(Desk!vars)
    BY <1>0, <1>1, <1>2, <1>4 DEF PaperRefuse, PaperCheck, PaperInsert, PaperRests, PaperFills,
        PaperDecide, PaperWrite, Goto
<1>5. ASSUME NEW r \in Requests,
             PaperAnswer(r) \/ PaperCommit(r) \/ PaperCancel(r) \/ PaperCrash(r)
      PROVE  [Desk!Next]_(Desk!vars)
    BY <1>5, AnswerPromises, CommitKeeps, CancelCancels, CrashBreaks
<1>6. CASE UNCHANGED vars
  <2>1. UNCHANGED <<order, reply, Promised>>
    BY <1>6 DEF vars, dbVars, Promised
  <2> QED
    BY <2>1, SameOrders DEF Desk!vars
<1> QED
    BY <1>3, <1>4, <1>5, <1>6 DEF Next

-----------------------------------------------------------------------------
(* Theorems                                                                *)

\* The invariant holds of every reachable state of a paper account.
THEOREM Invariance == Spec => []IInv
    BY InitIInv, StepIInv, PTL DEF Spec

\* The unique index gives a paper key one committed order, and the clients who are told
\* of an order that is there the same one, for any number of racing retries and crashes.
\* place_order answers before get_principal commits: a client may also hold an order of
\* its own request that a crash in between has taken away, and nothing else.
THEOREM OneOrderEach == Spec => []OneOrderPerKey
<1>1. IInv => OneOrderPerKey
    BY DEF IInv, OneOrderPerKey, ToldRight, OrdersApart, AnswersCommitted, SameKey
<1> QED
    BY <1>1, Invariance, PTL

\* As long as no fill commits on a position another one has changed since it was read,
\* the account has one position row at most, and its quantity is the sum of the fills:
\* get_position, net_position and upsert_position are right for any number of requests,
\* whichever of them rest, are cancelled, lose a key or die.
THEOREM PositionIsFills == Spec => []PositionMatchesExecutions
<1>1. PositionInv => PositionMatchesExecutions
    BY DEF PositionInv, PositionMatchesExecutions, NetFilled
<1>2. Spec => []PositionInv
    BY InitPosition, PositionStep, Invariance, PTL DEF Spec
<1> QED
    BY <1>1, <1>2, PTL

\* As long as no fill commits on a balance another buy has spent since it was read, the
\* buying-power gate keeps the account above zero, but for what limits exceed the mark
\* by, for any prices and any number of orders.
THEOREM SpendingIsCovered == Spec => []SpendingCovered
<1>1. SpendingInv => SpendingCovered
    BY DEF SpendingInv, SpendingCovered
<1>2. Spec => []SpendingInv
    BY InitSpending, SpendingStep, Invariance, PTL DEF Spec
<1> QED
    BY <1>1, <1>2, PTL

\* The paper desk implements IdempotentDesk: behind transactions that read and write in
\* eight steps, one order, one fill and one movement of cash appear per key, however
\* many calls race for it and whichever of them die.  A call answered before its commit
\* is the only one with its key that is promised an order, and a crash in that moment
\* breaks the promise without a trace in orders or cash.
THEOREM DeskRefinement == Spec => DeskIsIdempotent
<1>1. DeskInv /\ [Next]_vars => [Desk!Next]_(Desk!vars)
    BY StepDesk
<1> QED
    BY <1>1, InitDeskInv, StepDeskInv, InitDesk, PTL DEF Spec, DeskIsIdempotent, Desk!Spec

=============================================================================
