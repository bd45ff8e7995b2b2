------------------------------ MODULE PaperOms ------------------------------
(***************************************************************************)
(* Orders of one paper account in one instrument: place_order's paper path *)
(* (saalr_api/oms/service.py), with a fresh PaperBrokerAdapter per request *)
(* (saalr_brokers/paper.py), and the positions table it keeps.             *)
(*                                                                         *)
(* A paper order fills inside its own request.  The request first reads    *)
(* the balance (a sum over the executions), later reads the position,      *)
(* computes the new one, reads the position again to see whether to insert *)
(* or update, and writes.  All in one READ COMMITTED transaction, with no  *)
(* lock before the write and no unique index on positions, so what it read *)
(* may be out of date when it commits.  The client is answered before the  *)
(* commit: get_principal commits when the response has been sent.          *)
(*                                                                         *)
(* Orders and position rows are named after the request that inserts them. *)
(***************************************************************************)
EXTENDS OrderRules, Collections, Integers

CONSTANTS
    Requests,      \* POST /v1/orders calls, retries included
    Keys,          \* Idempotency-Key values
    KeyOf,         \* the key each request carries
    Buys,          \* the keys whose order is a buy; the others sell
    Mark,          \* the model mark of the instrument
    PriceOf,       \* the price at which each key's order fills
    StartingCash,  \* settings.paper_starting_cash
    MaxFaults      \* bound: crashes in one behaviour

ASSUME PaperConstantsOK ==
    /\ KeyOf \in [Requests -> Keys]
    /\ Buys \subseteq Keys
    /\ Mark \in Nat
    /\ PriceOf \in [Keys -> Nat]
    /\ StartingCash \in Nat
    /\ MaxFaults \in Nat
    /\ None \notin Requests /\ "error" \notin Requests

\* _marketable fills a buy at the mark or at a limit the mark has not passed.
ASSUME PricesOK == \A k \in Buys : Mark <= PriceOf[k]

\* A sum over the orders is of those there have been, however many.
ASSUME RequestsFinite == IsFiniteSet(Requests)

VARIABLES
    (* committed database state *)
    order,      \* orders.status; a "filled" order has its one execution
    held,       \* the position rows there are
    qty,        \* positions.qty of each, 0 for a row that is not there
    (* requests: the locals of place_order and its session *)
    tx,
    reply,      \* what the client was told: an order, "error", or nothing yet
    (* history *)
    stale,      \* what a request read and another has changed since
    blind,      \* what some request had read stale when it committed a fill
    (* bound *)
    faults

dbVars == <<order, held, qty>>
vars   == <<dbVars, tx, reply, stale, blind, faults>>

PC == {"start", "missed", "checked", "inserted", "read", "decided", "written", "done"}

\* What upsert_position decides to do.  "touch" is an update that leaves the
\* qty column out: the ORM writes the columns whose value changed.
Op == {"insert", "update", "touch", "delete", None}

Tx == [pc     : PC,
       status : {"pending", "submitted", "cancelled", "filled"},
       seen   : Requests \cup {None},    \* row the first get_position found
       base   : Int,                     \* its quantity, 0 without a row
       op     : Op,
       target : Requests \cup {None}]    \* row the write is for

\* A transaction in which nothing has been read or written.
FreshTx(pc) == [pc |-> pc, status |-> "pending", seen |-> None, base |-> 0,
                op |-> None, target |-> None]

TypeOK ==
    /\ order \in [Requests -> {None, "submitted", "cancelled", "filled"}]
    /\ held \subseteq Requests
    /\ qty \in [Requests -> Int]
    /\ \A p \in Requests \ held : qty[p] = 0
    /\ tx \in [Requests -> Tx]
    /\ reply \in [Requests -> Requests \cup {None, "error"}]
    /\ stale \in [Requests -> SUBSET {"cash", "position"}]
    /\ blind \subseteq {"cash", "position"}
    /\ faults \in 0..MaxFaults

Init ==
    /\ order = [r \in Requests |-> None]
    /\ held = {}
    /\ qty = [p \in Requests |-> 0]
    /\ tx = [r \in Requests |-> FreshTx("start")]
    /\ reply = [r \in Requests |-> None]
    /\ stale = [r \in Requests |-> {}]
    /\ blind = {}
    /\ faults = 0

-----------------------------------------------------------------------------
SameKey(r, q) == KeyOf[r] = KeyOf[q]

Filled == {r \in Requests : order[r] = "filled"}

\* account_balance: what the executions say the account has.  One share per
\* order.
Balance ==
    StartingCash +
        SumOver([r \in Requests |->
                    IF KeyOf[r] \in Buys THEN -PriceOf[KeyOf[r]] ELSE PriceOf[KeyOf[r]]],
                Filled)

\* The signed quantity of r's fill.
SignedQty(r) == IF KeyOf[r] \in Buys THEN 1 ELSE -1

\* Mutant of NewQty: the side of the order is left out.
NewQtyUnsigned(r) == tx[r].base + 1

NewQty(r) == tx[r].base + SignedQty(r)

Goto(r, pc) == tx' = [tx EXCEPT ![r].pc = pc]

\* The request ends: its answer, its session closed.
Done(r, answer) ==
    /\ tx' = [tx EXCEPT ![r] = FreshTx("done")]
    /\ reply' = [reply EXCEPT ![r] = answer]

\* The request raises; its transaction is rolled back.
RolledBack(r) == Done(r, "error") /\ UNCHANGED <<dbVars, stale, blind, faults>>

\* find_order_by_idempotency: a committed order answers its key.
PaperLookup(r) ==
    /\ tx[r].pc = "start"
    /\ \/ \E q \in Requests : order[q] # None /\ SameKey(q, r) /\ Done(r, q)
       \/ /\ \A q \in Requests : SameKey(q, r) => order[q] = None
          /\ Goto(r, "missed")
          /\ UNCHANGED reply
    /\ UNCHANGED <<dbVars, stale, blind, faults>>

\* The account, the market data or a risk gate other than buying power turns
\* the order down.
PaperRefuse(r) == tx[r].pc = "missed" /\ RolledBack(r)

\* Mutant of PaperCheck: the starting cash instead of the balance.
PaperCheckStartingCash(r) ==
    /\ tx[r].pc = "missed"
    /\ IF KeyOf[r] \in Buys /\ Mark > StartingCash
       THEN RolledBack(r)
       ELSE Goto(r, "checked") /\ UNCHANGED <<dbVars, reply, stale, blind, faults>>

\* The buying-power gate: a buy may cost, at the mark, what the balance holds.
PaperCheck(r) ==
    /\ tx[r].pc = "missed"
    /\ IF KeyOf[r] \in Buys /\ Mark > Balance
       THEN RolledBack(r)
       ELSE Goto(r, "checked") /\ UNCHANGED <<dbVars, reply, stale, blind, faults>>

\* Mutant of PaperInsert: no unique index on the key.
PaperInsertUnchecked(r) ==
    /\ tx[r].pc = "checked"
    /\ Goto(r, "inserted")
    /\ UNCHANGED <<dbVars, reply, stale, blind, faults>>

\* Insert the "pending" row: the unique index on the key waits for a
\* transaction with an uncommitted row, and a committed row is a 409.
PaperInsert(r) ==
    /\ tx[r].pc = "checked"
    /\ \A q \in Requests \ {r} :
          SameKey(q, r) => tx[q].pc \notin {"inserted", "read", "decided", "written"}
    /\ IF \E q \in Requests : order[q] # None /\ SameKey(q, r)
       THEN RolledBack(r)
       ELSE Goto(r, "inserted") /\ UNCHANGED <<dbVars, reply, stale, blind, faults>>

\* The adapter does not fill the order: it rests, or (ioc, fok) is cancelled.
PaperRests(r) ==
    /\ tx[r].pc = "inserted"
    /\ \E status \in {"submitted", "cancelled"} :
          tx' = [tx EXCEPT ![r].pc = "written", ![r].status = status]
    /\ UNCHANGED <<dbVars, reply, stale, blind, faults>>

\* The adapter fills the order.  get_position: two rows are an error (500).
PaperFills(r) ==
    /\ tx[r].pc = "inserted"
    /\ \/ /\ \E p, q \in held : p # q
          /\ RolledBack(r)
       \/ /\ \E p \in held :
                /\ held = {p}
                /\ tx' = [tx EXCEPT ![r] = [@ EXCEPT !.pc = "read", !.status = "filled",
                                                     !.seen = p, !.base = qty[p]]]
          /\ UNCHANGED <<dbVars, reply, stale, blind, faults>>
       \/ /\ held = {}
          /\ tx' = [tx EXCEPT ![r].pc = "read", ![r].status = "filled"]
          /\ UNCHANGED <<dbVars, reply, stale, blind, faults>>

\* What the session believes row p holds: a row it loaded before keeps the
\* value it had then.
Loaded(r, p) == IF tx[r].seen = p THEN tx[r].base ELSE qty[p]

\* upsert_position reads the position again and decides.
PaperDecide(r) ==
    /\ tx[r].pc = "read"
    /\ \/ /\ \E p, q \in held : p # q
          /\ RolledBack(r)
       \/ /\ \E p \in held :
                /\ held = {p}
                /\ tx' = [tx EXCEPT ![r] = [@ EXCEPT
                      !.pc = "decided", !.target = p,
                      !.op = IF NewQty(r) = 0 THEN "delete"
                             ELSE IF Loaded(r, p) = NewQty(r) THEN "touch"
                             ELSE "update"]]
          /\ UNCHANGED <<dbVars, reply, stale, blind, faults>>
       \/ /\ held = {}
          /\ tx' = [tx EXCEPT ![r] = [@ EXCEPT
                      !.pc = "decided", !.target = r,
                      !.op = IF NewQty(r) = 0 THEN None ELSE "insert"]]
          /\ UNCHANGED <<dbVars, reply, stale, blind, faults>>

\* The flush.  An update or a delete waits for the transaction that has written
\* the row; an update that then finds no row is an error (StaleDataError), a
\* delete that finds none only a warning.
PaperWrite(r) ==
    LET p == tx[r].target IN
    /\ tx[r].pc = "decided"
    /\ tx[r].op \in {"update", "touch", "delete"} =>
          \A q \in Requests \ {r} : tx[q].pc = "written" => tx[q].target # p
    /\ IF tx[r].op \in {"update", "touch"} /\ p \notin held
       THEN RolledBack(r)
       ELSE Goto(r, "written") /\ UNCHANGED <<dbVars, reply, stale, blind, faults>>

\* The positions table after r's write.
PositionWritten(r) ==
    LET p == tx[r].target IN
    /\ held' = CASE tx[r].op = "insert" -> held \cup {p}
                 [] tx[r].op = "delete" -> held \ {p}
                 [] OTHER               -> held
    /\ qty' = CASE tx[r].op \in {"insert", "update"} -> [qty EXCEPT ![p] = NewQty(r)]
                [] tx[r].op = "delete"               -> [qty EXCEPT ![p] = 0]
                [] OTHER                             -> qty

\* History: a fill that commits makes the position read by other requests
\* stale, and a buy the balance they read as well.
ReadsGoStale(r) ==
    stale' = [q \in Requests |->
        stale[q] \cup (IF /\ q # r /\ KeyOf[r] \in Buys
                          /\ tx[q].pc \in PC \ {"start", "missed", "done"}
                       THEN {"cash"} ELSE {})
                 \cup (IF q # r /\ tx[q].pc \in {"read", "decided", "written"}
                       THEN {"position"} ELSE {})]

\* place_order returns the order, and the client reads it.
PaperAnswer(r) ==
    /\ tx[r].pc = "written" /\ reply[r] = None
    /\ reply' = [reply EXCEPT ![r] = r]
    /\ UNCHANGED <<dbVars, tx, stale, blind, faults>>

\* The request is over; what it told its client stands.
Closed(r) == tx' = [tx EXCEPT ![r] = FreshTx("done")]

\* get_principal commits order, execution and position together.
PaperCommit(r) ==
    /\ tx[r].pc = "written" /\ reply[r] = r
    /\ order' = [order EXCEPT ![r] = tx[r].status]
    /\ IF tx[r].status = "filled"
       THEN /\ PositionWritten(r)
            /\ ReadsGoStale(r)
            /\ blind' = blind \cup stale[r]
       ELSE UNCHANGED <<held, qty, stale, blind>>
    /\ Closed(r)
    /\ UNCHANGED <<reply, faults>>

\* cancel_order on a resting order: no broker call, one transaction.
PaperCancel(r) ==
    /\ order[r] \in CancellableStatus
    /\ order' = [order EXCEPT ![r] = "cancelled"]
    /\ UNCHANGED <<held, qty, tx, reply, stale, blind, faults>>

\* The API process dies, or the commit fails: a client that was answered has been
\* told of an order that will not be.
PaperCrash(r) ==
    /\ tx[r].pc \notin {"start", "done"}
    /\ faults < MaxFaults /\ faults' = faults + 1
    /\ IF reply[r] = None THEN Done(r, "error") ELSE Closed(r) /\ UNCHANGED reply
    /\ UNCHANGED <<dbVars, stale, blind>>

Next ==
    \E r \in Requests :
        \/ PaperLookup(r) \/ PaperRefuse(r) \/ PaperCheck(r) \/ PaperInsert(r)
        \/ PaperRests(r) \/ PaperFills(r) \/ PaperDecide(r) \/ PaperWrite(r)
        \/ PaperAnswer(r) \/ PaperCommit(r) \/ PaperCancel(r) \/ PaperCrash(r)

Spec == Init /\ [][Next]_vars

-----------------------------------------------------------------------------
(* Safety                                                                  *)

\* The client of r was told of an order that is there.
ToldRight(r) == reply[r] \in Requests /\ order[reply[r]] # None

\* A key fills at most once, and every request with it that is answered with an
\* order is answered with the same one; except that a client answered with its
\* own request's order may lose it to a crash before the commit.
OneOrderPerKey ==
    /\ \A r, q \in Requests : SameKey(r, q) =>
          /\ order[r] # None /\ order[q] # None => r = q
          /\ ToldRight(r) /\ ToldRight(q) => reply[r] = reply[q]
    /\ \A r \in Requests : reply[r] \in Requests =>
          \/ ToldRight(r)
          \/ reply[r] = r /\ (tx[r].pc = "written" \/ faults > 0)

\* As long as no fill was committed on a position read too early, there is at
\* most one position row and it holds the sum of the fills; racing requests
\* that end in an error, a 409 or a resting order do no harm.
PositionMatchesExecutions ==
    "position" \notin blind =>
        /\ \A p, q \in held : p = q
        /\ SumOver(qty, held) = SumOver([r \in Requests |-> SignedQty(r)], Filled)

\* What filled buys cost above the mark they were checked at: _marketable fills
\* a limit order at its limit.
Overrun == SumOver([r \in Requests |-> PriceOf[KeyOf[r]] - Mark],
                   {r \in Filled : KeyOf[r] \in Buys})

\* As long as no fill was committed on a balance read too early, the account
\* goes below zero by no more than limits exceed the mark at which the
\* buying-power gate (lld.md: "Order exceeds account balance") prices orders.
SpendingCovered == "cash" \notin blind => Balance + Overrun >= 0

-----------------------------------------------------------------------------
(* The desk as its clients see it                                          *)

\* The committed order of each key, and its status.
PlacedUnder ==
    [k \in Keys |->
        IF \E r \in Requests : KeyOf[r] = k /\ order[r] # None
        THEN CHOOSE r \in Requests : KeyOf[r] = k /\ order[r] # None
        ELSE None]

StatusUnder == [k \in Keys |-> IF PlacedUnder[k] = None THEN None ELSE order[PlacedUnder[k]]]

\* The requests whose client has been told of the order they are about to commit.
Promised == {r \in Requests : tx[r].pc = "written" /\ reply[r] # None}

Desk == INSTANCE IdempotentDesk
            WITH placed <- PlacedUnder, status <- StatusUnder, cash <- Balance, told <- reply,
                 open <- Promised

\* However requests, retries and crashes interleave, order, execution and cash appear
\* at once and once per key, a call is told of its key's order, of an error, or of an
\* order of its own that is promised to nobody else and that only a crash before the
\* commit takes back; a cancel reaches resting orders only.
DeskIsIdempotent == Desk!Spec
=============================================================================
