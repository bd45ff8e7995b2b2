------------------------------- MODULE LiveOms -------------------------------
(***************************************************************************)
(* Live orders of one Alpaca account: the API handlers that place and      *)
(* cancel orders (saalr_api/oms/service.py), the reconciliation worker     *)
(* (saalr_core/oms/reconcile.py, oms_worker/reconcile.py), and the broker. *)
(*                                                                         *)
(* Every API request runs in ONE database transaction, opened by           *)
(* get_principal and committed when the request is over; an HTTPException  *)
(* rolls it back.  The handlers await the broker inside that transaction,  *)
(* so the database and the broker can disagree about what happened.  The   *)
(* worker polls the broker for the orders it believes open and books the   *)
(* fills it had not seen, one transaction per account and pass.            *)
(*                                                                         *)
(* A request that inserts an order row lends it its own name: row[r] is    *)
(* the row of request r, book[r] the broker's order for that row.          *)
(***************************************************************************)
EXTENDS OrderRules, Collections, Integers

\* Statuses of a broker order that is set aside, traded or not, and can trade
\* again: most of them read "cancelled" or "rejected" here.
Paused ==
    {"pending_cancel", "pending_replace", "done_for_day", "suspended", "stopped",
     "calculated"}

\* Broker orders that can still trade.  "new" stands for every status of an
\* order that has not traded and reads "submitted".
Working == {"new", "partially_filled"} \cup Paused

\* Statuses of an order that ended without being filled.
Closed == {"canceled", "expired", "replaced", "rejected"}

RawStatus == Working \cup Closed \cup {"filled"}

CONSTANTS
    Requests,    \* POST /v1/orders calls, retries of the client included
    Keys,        \* Idempotency-Key values
    KeyOf,       \* the key each request carries
    Buys,        \* the keys whose order is a buy; the others sell
    Qty,         \* shares per order
    Cancels,     \* POST /v1/orders/{id}/cancel calls
    Pauses,      \* bound: statuses with which the broker sets orders aside
    Ends,        \* bound: statuses with which the broker ends unfilled orders
    MaxFaults    \* bound: crashes, failed broker calls, polls without prices

ASSUME ConstantsOK ==
    /\ KeyOf \in [Requests -> Keys]
    /\ Buys \subseteq Keys
    /\ Qty \in Nat \ {0}
    /\ Pauses \subseteq Paused
    /\ Ends \subseteq Closed
    /\ MaxFaults \in Nat
    /\ None \notin Requests
    /\ "error" \notin Requests

\* A sum over the orders is of those there have been, however many.
ASSUME RequestsFinite == IsFiniteSet(Requests)

VARIABLES
    (* committed database state *)
    row,        \* orders.status of each row, None when there is no row
    recorded,   \* sum of executions.qty of each order
    position,   \* positions.qty of the instrument all orders trade
    audit,      \* audit_log, as pairs <<order, status written>>
    (* the broker *)
    book,       \* the broker's orders: raw status and filled quantity
    (* API requests in flight *)
    place,      \* where each place request is
    reply,      \* what its client was told
    cancel,     \* where each cancel request is, and its order
    (* the reconciliation pass in flight: its uncommitted reads and writes *)
    phase,      \* where the pass is
    seen,       \* status of the open orders as listed (ORM copies)
    snap,       \* the broker's answer to get_orders
    unpriced,   \* orders whose filled_avg_price is missing in that answer
    todo,       \* orders the loop has still to visit
    fills,      \* execution quantities inserted, not committed
    moves,      \* statuses written, not committed
    netQty,     \* the position quantity as the transaction sees it
    (* history of the committed passes *)
    unbooked,   \* orders whose last poll moved no share it saw for want of a price
    early,      \* orders closed here on a status with which the broker still trades
    (* bound *)
    faults      \* faults injected so far

dbVars     == <<row, recorded, position, audit, unbooked, early>>
apiVars    == <<place, reply, cancel>>
passVars   == <<phase, seen, snap, unpriced, todo, fills, moves, netQty>>
vars       == <<dbVars, book, apiVars, passVars, faults>>

-----------------------------------------------------------------------------
BrokerOrder == [st : RawStatus \cup {None}, filled : 0..Qty]

NoOrder == [st |-> None, filled |-> 0]

PlacePC == {"start", "missed", "inserted", "accepted", "done"}

CancelPC == {"start", "read", "called", "done"}

TypeOK ==
    /\ row \in [Requests -> OrderStatus \cup {None}]
    /\ recorded \in [Requests -> 0..Qty]
    /\ position \in Int
    /\ audit \subseteq Requests \X OrderStatus
    /\ book \in [Requests -> BrokerOrder]
    /\ place \in [Requests -> PlacePC]
    /\ reply \in [Requests -> Requests \cup {None, "error"}]
    /\ cancel \in [Cancels -> [pc : CancelPC, order : Requests \cup {None}]]
    /\ phase \in {"idle", "listed", "fetched"}
    /\ seen \in [Requests -> OpenStatus \cup {None}]
    /\ snap \in [Requests -> BrokerOrder]
    /\ unpriced \subseteq Requests
    /\ todo \subseteq Requests
    /\ fills \in [Requests -> 0..Qty]
    /\ moves \in [Requests -> OrderStatus \cup {None}]
    /\ netQty \in Int
    /\ unbooked \subseteq Requests
    /\ early \subseteq Requests
    /\ faults \in 0..MaxFaults

\* The pass's variables when no pass is running.
PassCleared ==
    /\ phase' = "idle"
    /\ seen' = [r \in Requests |-> None]
    /\ snap' = [r \in Requests |-> NoOrder]
    /\ unpriced' = {}
    /\ todo' = {}
    /\ fills' = [r \in Requests |-> 0]
    /\ moves' = [r \in Requests |-> None]
    /\ netQty' = 0

Init ==
    /\ row = [r \in Requests |-> None]
    /\ recorded = [r \in Requests |-> 0]
    /\ position = 0
    /\ audit = {}
    /\ book = [r \in Requests |-> NoOrder]
    /\ place = [r \in Requests |-> "start"]
    /\ reply = [r \in Requests |-> None]
    /\ cancel = [c \in Cancels |-> [pc |-> "start", order |-> None]]
    /\ phase = "idle"
    /\ seen = [r \in Requests |-> None]
    /\ snap = [r \in Requests |-> NoOrder]
    /\ unpriced = {}
    /\ todo = {}
    /\ fills = [r \in Requests |-> 0]
    /\ moves = [r \in Requests |-> None]
    /\ netQty = 0
    /\ unbooked = {}
    /\ early = {}
    /\ faults = 0

\* One more fault, within the bound.
Fault == faults < MaxFaults /\ faults' = faults + 1

-----------------------------------------------------------------------------
(* POST /v1/orders: place_order and _submit_live                           *)

SameKey(r, q) == KeyOf[r] = KeyOf[q]

\* Mutant of ClientOrderId: the id of the row, which a retry does not share.
RowOrderId(r) == r

\* client_order_id of the broker order that request r submits.
ClientOrderId(r) == KeyOf[r]

\* Request r ends and its transaction is rolled back; the client reads an
\* error (an HTTPException of the handler).
Refused(r) ==
    /\ place' = [place EXCEPT ![r] = "done"]
    /\ reply' = [reply EXCEPT ![r] = "error"]

\* find_order_by_idempotency: a committed row with the key answers the request
\* with that row, whatever its status; otherwise the handler goes on.
PlaceLookup(r) ==
    /\ place[r] = "start"
    /\ \/ \E q \in Requests :
            /\ row[q] # None /\ SameKey(q, r)
            /\ place' = [place EXCEPT ![r] = "done"]
            /\ reply' = [reply EXCEPT ![r] = q]
       \/ /\ \A q \in Requests : SameKey(q, r) => row[q] = None
          /\ place' = [place EXCEPT ![r] = "missed"]
          /\ UNCHANGED reply
    /\ UNCHANGED <<dbVars, book, cancel, passVars, faults>>

\* The account is unknown or inactive, its adapter or balance is unavailable,
\* or a risk gate fails.  The "rejected" row and its audit entry that a failed
\* gate writes are rolled back by the HTTPException raised after them.
PlaceRefuse(r) ==
    /\ place[r] = "missed"
    /\ Refused(r)
    /\ UNCHANGED <<dbVars, book, cancel, passVars, faults>>

\* Insert the "pending" row.  The unique index on (tenant_id, idempotency_key)
\* makes the insert wait for a transaction that holds an uncommitted row with
\* the key, and fail (409 ORDER_DUPLICATE_IN_FLIGHT) when one is committed.
PlaceInsert(r) ==
    /\ place[r] = "missed"
    /\ \A q \in Requests \ {r} :
          SameKey(q, r) => place[q] \notin {"inserted", "accepted"}
    /\ \/ /\ \E q \in Requests : row[q] # None /\ SameKey(q, r)
          /\ Refused(r)
       \/ /\ \A q \in Requests : SameKey(q, r) => row[q] = None
          /\ place' = [place EXCEPT ![r] = "inserted"]
          /\ UNCHANGED reply
    /\ UNCHANGED <<dbVars, book, cancel, passVars, faults>>

\* Mutant of ClientOrderIdTaken: only orders that still trade are compared.
TakenByWorkingOrder(r) ==
    \E q \in Requests :
        book[q].st \in Working /\ ClientOrderId(q) = ClientOrderId(r)

\* The broker refuses a client_order_id it has already seen.
ClientOrderIdTaken(r) ==
    \E q \in Requests :
        book[q].st # None /\ ClientOrderId(q) = ClientOrderId(r)

\* adapter.submit_order returns "submitted": the handler sets the status,
\* writes the audit entry and returns the order to the client.
PlaceSubmit(r) ==
    /\ place[r] = "inserted"
    /\ ~ClientOrderIdTaken(r)
    /\ book' = [book EXCEPT ![r].st = "new"]
    /\ place' = [place EXCEPT ![r] = "accepted"]
    /\ reply' = [reply EXCEPT ![r] = r]
    /\ UNCHANGED <<dbVars, cancel, passVars, faults>>

\* The broker answers with a status that reads "rejected", of which two still
\* trade: the "rejected" status and its audit entry are rolled back by the 422
\* raised after them.
PlaceRejected(r) ==
    /\ place[r] = "inserted"
    /\ ~ClientOrderIdTaken(r)
    /\ \E st \in MapsToRejected : book' = [book EXCEPT ![r].st = st]
    /\ Refused(r)
    /\ UNCHANGED <<dbVars, cancel, passVars, faults>>

\* The broker refuses the client_order_id, or is not reached: a BrokerError
\* (502) and no order at the broker.
PlaceUnavailable(r) ==
    /\ place[r] = "inserted"
    /\ Refused(r)
    /\ UNCHANGED <<dbVars, book, cancel, passVars, faults>>

\* The call fails with a BrokerError (502) although the broker took the order:
\* a timeout, a connection lost after the request went out.
PlaceTimeout(r) ==
    /\ place[r] = "inserted"
    /\ ~ClientOrderIdTaken(r)
    /\ Fault
    /\ book' = [book EXCEPT ![r].st = "new"]
    /\ Refused(r)
    /\ UNCHANGED <<dbVars, cancel, passVars>>

\* Mutant of PlaceCommit: the transaction may end before the broker call.
PlaceCommitEarly(r) ==
    /\ place[r] \in {"inserted", "accepted"}
    /\ row' = [row EXCEPT ![r] = "submitted"]
    /\ audit' = audit \cup {<<r, "submitted">>}
    /\ place' = [place EXCEPT ![r] = "done"]
    /\ UNCHANGED <<recorded, position, unbooked, early, book, reply, cancel, passVars,
                  faults>>

\* get_principal commits: row, status and audit entry become visible at once.
PlaceCommit(r) ==
    /\ place[r] = "accepted"
    /\ row' = [row EXCEPT ![r] = "submitted"]
    /\ audit' = audit \cup {<<r, "submitted">>}
    /\ place' = [place EXCEPT ![r] = "done"]
    /\ UNCHANGED <<recorded, position, unbooked, early, book, reply, cancel, passVars,
                  faults>>

\* The API process dies, or its commit fails: everything uncommitted is gone.
PlaceCrash(r) ==
    /\ place[r] \in {"missed", "inserted", "accepted"}
    /\ Fault
    /\ place' = [place EXCEPT ![r] = "done"]
    /\ UNCHANGED <<dbVars, book, reply, cancel, passVars>>

-----------------------------------------------------------------------------
(* POST /v1/orders/{id}/cancel: cancel_order                               *)

\* Load the order; 404 and 409 end the request.
CancelRead(c, r) ==
    /\ cancel[c].pc = "start"
    /\ row[r] # None
    /\ cancel' = [cancel EXCEPT ![c] =
                     IF row[r] \in CancellableStatus
                     THEN [pc |-> "read", order |-> r]
                     ELSE [pc |-> "done", order |-> None]]
    /\ UNCHANGED <<dbVars, book, place, reply, passVars, faults>>

\* The broker's cancel call.  It asks a working order to stop and does nothing
\* to any other; the adapter swallows every error.
CancelCall(c) ==
    /\ cancel[c].pc = "read"
    /\ LET r == cancel[c].order IN
          book' = [book EXCEPT ![r].st = IF @ \in Working
                                          THEN "pending_cancel" ELSE @]
    /\ cancel' = [cancel EXCEPT ![c].pc = "called"]
    /\ UNCHANGED <<dbVars, place, reply, passVars, faults>>

\* The call fails before it reaches the broker; only a log line tells.
CancelCallLost(c) ==
    /\ cancel[c].pc = "read"
    /\ Fault
    /\ cancel' = [cancel EXCEPT ![c].pc = "called"]
    /\ UNCHANGED <<dbVars, book, place, reply, passVars>>

\* transition() is checked against the status read before the broker call, and
\* the UPDATE sets the status column whatever it holds by now.
CancelCommit(c) ==
    /\ cancel[c].pc = "called"
    /\ LET r == cancel[c].order IN
          /\ row' = [row EXCEPT ![r] = "cancelled"]
          /\ audit' = audit \cup {<<r, "cancelled">>}
    /\ cancel' = [cancel EXCEPT ![c].pc = "done"]
    /\ UNCHANGED <<recorded, position, unbooked, early, book, place, reply, passVars,
                  faults>>

CancelCrash(c) ==
    /\ cancel[c].pc \in {"read", "called"}
    /\ Fault
    /\ cancel' = [cancel EXCEPT ![c].pc = "done"]
    /\ UNCHANGED <<dbVars, book, place, reply, passVars>>

-----------------------------------------------------------------------------
(* The reconciliation worker: reconcile_once and reconcile_account.  One    *)
(* pass runs at a time, as reconcile_account's docstring assumes.           *)

\* Mutant of ReconcileList: partly filled orders are not polled.
ReconcileListSubmitted ==
    /\ phase = "idle"
    /\ \E r \in Requests : row[r] = "submitted"
    /\ phase' = "listed"
    /\ seen' = [r \in Requests |->
                   IF row[r] = "submitted" THEN row[r] ELSE None]
    /\ UNCHANGED <<dbVars, book, apiVars, snap, unpriced, todo, fills, moves, netQty,
                  faults>>

\* A pass that finds no open order only stamps last_reconciled_at.
ReconcileList ==
    /\ phase = "idle"
    /\ \E r \in Requests : row[r] \in OpenStatus
    /\ phase' = "listed"
    /\ seen' = [r \in Requests |->
                   IF row[r] \in OpenStatus THEN row[r] ELSE None]
    /\ UNCHANGED <<dbVars, book, apiVars, snap, unpriced, todo, fills, moves, netQty,
                  faults>>

\* adapter.get_orders: what the broker holds now, filled orders included, the
\* orders in missing without an average price.  The loop will visit the listed
\* orders it finds there.
Fetched(missing) ==
    /\ phase = "listed"
    /\ phase' = "fetched"
    /\ snap' = book
    /\ unpriced' = missing
    /\ todo' = {r \in Requests : seen[r] # None /\ book[r].st # None}
    /\ netQty' = position
    /\ UNCHANGED <<dbVars, book, apiVars, seen, fills, moves>>

ReconcileFetch == Fetched({}) /\ UNCHANGED faults

\* The broker has a fill of some orders and does not say at what price.
ReconcileFetchUnpriced ==
    /\ Fault
    /\ \E missing \in SUBSET {r \in Requests : book[r].filled > 0} :
          missing # {} /\ Fetched(missing)

Signed(r, n) == IF KeyOf[r] \in Buys THEN n ELSE -n

\* Mutants of Delta.  Fills are booked when the order has filled, not before.
DeltaWhenFilled(r) ==
    IF snap[r].filled = Qty /\ r \notin unpriced THEN Qty - recorded[r] ELSE 0

\* The fills of an order that ended unfilled are left out.
DeltaOfGoodOrders(r) ==
    IF /\ snap[r].filled > recorded[r] /\ r \notin unpriced
       /\ map_status(snap[r].st) \in {"partial", "filled"}
    THEN snap[r].filled - recorded[r] ELSE 0

\* The fill quantity the pass has not booked yet; a positive one that comes with
\* a price becomes an execution and moves the position.
Delta(r) ==
    LET observed == snap[r].filled
    IN  IF observed > recorded[r] /\ r \notin unpriced
        THEN observed - recorded[r] ELSE 0

\* The status the pass writes: the broker's, when it differs from the one
\* listed and the state machine allows the step; otherwise none.
NewStatus(r) ==
    LET new == map_status(snap[r].st)
    IN  IF new # seen[r] /\ Allowed(seen[r], new) THEN new ELSE None

\* Mutant of ReconcileOrder: a sale is added to the position.
ReconcileOrderUnsigned(r) ==
    /\ phase = "fetched"
    /\ r \in todo
    /\ todo' = todo \ {r}
    /\ fills' = [fills EXCEPT ![r] = Delta(r)]
    /\ netQty' = netQty + Delta(r)
    /\ moves' = [moves EXCEPT ![r] = NewStatus(r)]
    /\ UNCHANGED <<dbVars, book, apiVars, phase, seen, snap, unpriced, faults>>

\* The body of the loop over open_orders.
ReconcileOrder(r) ==
    /\ phase = "fetched"
    /\ r \in todo
    /\ todo' = todo \ {r}
    /\ fills' = [fills EXCEPT ![r] = Delta(r)]
    /\ netQty' = netQty + Signed(r, Delta(r))
    /\ moves' = [moves EXCEPT ![r] = NewStatus(r)]
    /\ UNCHANGED <<dbVars, book, apiVars, phase, seen, snap, unpriced, faults>>

\* The orders the loop visits in the pass that is running.
Polled == {r \in Requests : seen[r] # None /\ snap[r].st # None}

\* tenant_session commits executions, position, statuses and audit entries.
\* Only the columns the pass assigned are written.
ReconcileCommit ==
    /\ phase = "fetched"
    /\ todo = {}
    /\ recorded' = [r \in Requests |-> recorded[r] + fills[r]]
    /\ position' = netQty
    /\ row' = [r \in Requests |-> IF moves[r] # None THEN moves[r] ELSE row[r]]
    /\ audit' = audit \cup {<<r, moves[r]>> : r \in {q \in Requests : moves[q] # None}}
    /\ unbooked' = (unbooked \ Polled) \cup
                      {r \in Polled \cap unpriced : snap[r].filled > recorded[r]}
    /\ early' = early \cup
                   {r \in Polled : moves[r] \in Terminal /\ snap[r].st \in Working}
    /\ PassCleared
    /\ UNCHANGED <<book, apiVars, faults>>

\* The poll fails or the worker dies: the transaction is rolled back, the next
\* pass starts afresh (reconcile_once isolates the exception).
ReconcileAbort ==
    /\ phase # "idle"
    /\ Fault
    /\ PassCleared
    /\ UNCHANGED <<dbVars, book, apiVars>>

-----------------------------------------------------------------------------
(* The broker and its market                                               *)

BrokerFill(r) ==
    /\ book[r].st \in Working
    /\ book' = [book EXCEPT ![r] =
          [st |-> IF @.filled + 1 = Qty THEN "filled"
                  ELSE IF @.st = "new" THEN "partially_filled"
                  ELSE @.st,
           filled |-> @.filled + 1]]
    /\ UNCHANGED <<dbVars, apiVars, passVars, faults>>

\* The exchange or the account's owner sets a working order aside, before or
\* after it has traded.
BrokerPause(r) ==
    /\ book[r].st \in {"new", "partially_filled"}
    /\ \E st \in Pauses : book' = [book EXCEPT ![r].st = st]
    /\ UNCHANGED <<dbVars, apiVars, passVars, faults>>

\* It trades again: the next day, or the cancel or replacement was refused.
BrokerResume(r) ==
    /\ book[r].st \in Paused
    /\ book' = [book EXCEPT ![r].st = IF book[r].filled = 0
                                        THEN "new" ELSE "partially_filled"]
    /\ UNCHANGED <<dbVars, apiVars, passVars, faults>>

\* An order ends without being filled, whether or not it has traded.
BrokerClose(r) ==
    /\ book[r].st \in Working
    /\ \E end \in Ends : book' = [book EXCEPT ![r].st = end]
    /\ UNCHANGED <<dbVars, apiVars, passVars, faults>>

-----------------------------------------------------------------------------
Place(r) ==
    \/ PlaceLookup(r) \/ PlaceRefuse(r) \/ PlaceInsert(r) \/ PlaceSubmit(r)
    \/ PlaceRejected(r) \/ PlaceUnavailable(r) \/ PlaceTimeout(r)
    \/ PlaceCommit(r) \/ PlaceCrash(r)

Cancel(c) ==
    \/ \E r \in Requests : CancelRead(c, r)
    \/ CancelCall(c) \/ CancelCallLost(c) \/ CancelCommit(c) \/ CancelCrash(c)

Reconcile ==
    \/ ReconcileList \/ ReconcileFetch \/ ReconcileFetchUnpriced
    \/ \E r \in Requests : ReconcileOrder(r)
    \/ ReconcileCommit \/ ReconcileAbort

Broker ==
    \E r \in Requests :
        BrokerFill(r) \/ BrokerPause(r) \/ BrokerResume(r) \/ BrokerClose(r)

Next ==
    \/ \E r \in Requests : Place(r)
    \/ \E c \in Cancels : Cancel(c)
    \/ Reconcile
    \/ Broker

\* The worker keeps polling: EventBridge starts a pass every five minutes, and
\* run_reconcile loops.  Nothing else is owed to the order desk.
Fairness ==
    /\ WF_vars(ReconcileList)
    /\ WF_vars(ReconcileFetch)
    /\ \A r \in Requests : WF_vars(ReconcileOrder(r))
    /\ WF_vars(ReconcileCommit)

Spec == Init /\ [][Next]_vars

FairSpec == Spec /\ Fairness

-----------------------------------------------------------------------------
(* Safety                                                                  *)

\* An Idempotency-Key owns at most one committed order row, however many
\* requests carry it and wherever they crash (orders' unique index and the
\* rollback of every failed attempt).
OneOrderPerKey ==
    \A r, q \in Requests :
        row[r] # None /\ row[q] # None /\ SameKey(r, q) => r = q

\* A key puts at most one order on the market: a retry after a timeout, a
\* crash or a rejection never doubles the client's exposure
\* (client_order_id = idempotency_key, not the id of the row).
OneExposurePerKey ==
    \A r, q \in Requests :
        book[r].st # None /\ book[q].st # None /\ SameKey(r, q) => r = q

\* Two requests with one key that were both told of an order were told of the
\* same order (the replay of place_order).
RepliesAgree ==
    \A r, q \in Requests :
        reply[r] \in Requests /\ reply[q] \in Requests /\ SameKey(r, q)
            => reply[r] = reply[q]

\* A row that is visible to other transactions has an order at the broker for
\* the same key: no phantom order is listed, cancelled or polled.
RowsAreAtBroker == \A r \in Requests : row[r] # None => book[r].st # None

\* The ledger never holds a share the broker did not trade, whatever the age of
\* the poll a pass works from and however passes are cut short.
LedgerWithinBroker == \A r \in Requests : recorded[r] <= book[r].filled

\* The books never run ahead of the broker: no order and no share in them that the
\* broker does not have, through failed commits, cancels and passes cut short.
BooksWithinBroker == RowsAreAtBroker /\ LedgerWithinBroker

\* An order's status and its executions tell the same story: a filled order is
\* booked in full and a partial one in part, unless the poll that said so named
\* no price; an open order is never booked in full, and without a row nothing is.
StatusMatchesLedger ==
    \A r \in Requests :
        /\ row[r] = "filled" => recorded[r] = Qty \/ r \in unbooked
        /\ row[r] = "partial" => recorded[r] > 0 \/ r \in unbooked
        /\ row[r] \in OpenStatus => recorded[r] < Qty
        /\ row[r] = None => recorded[r] = 0

\* The position is the sum of the account's signed executions
\* (net_position and insert_execution see the same fills).
PositionMatchesLedger ==
    position = SumOver([r \in Requests |-> Signed(r, recorded[r])], Requests)

\* Every status a row shows was audited in the transaction that wrote it.
StatusAudited ==
    \A r \in Requests : row[r] # None => <<r, row[r]>> \in audit

\* When both sides are done with an order, every share traded is booked: a
\* share is lost only to a poll that named no price, or after a poll that closed
\* the order here while the broker could still trade it.  cancel_order calls
\* reconciliation the place that confirms a cancelled order's terminal state.
NoLostFill ==
    \A r \in Requests :
        row[r] \in Terminal /\ book[r].st \notin Working
            => recorded[r] = book[r].filled \/ r \in unbooked \cup early

(* Refinement                                                              *)

\* The desk keeps the promises of OrderLifecycle as long as nobody cancels: the
\* order table and the execution table refine its variables.
Lifecycle == INSTANCE OrderLifecycle
                WITH Orders <- Requests, status <- row, executed <- recorded

OrdersFollowLifecycle == Lifecycle!Spec

(* Liveness                                                                *)

\* The state machine has no step from "partial" to "rejected": an order that
\* traded and was rejected stays open here, and is polled for ever.
Stuck(r) == row[r] = "partial" /\ book[r].st = "rejected"

\* The fills of an order the broker has finished with are eventually booked, and
\* the order closed here unless it is stuck; except orders of which a poll
\* named no price or that were closed here while the broker could trade them.
FillsReachTheLedger ==
    \A r \in Requests :
        row[r] \in OpenStatus /\ book[r].st \notin Working
            ~> \/ recorded[r] = book[r].filled /\ (row[r] \in Terminal \/ Stuck(r))
               \/ r \in unbooked \cup early

\* No order but a stuck one stays open here for ever once the broker has finished
\* with it, whatever the polls leave out.
OpenOrdersClose ==
    \A r \in Requests :
        row[r] \in OpenStatus /\ book[r].st \notin Working
            ~> row[r] \in Terminal \/ Stuck(r)
=============================================================================
