--------------------------- MODULE IdempotentDesk ---------------------------
(***************************************************************************)
(* What a desk with idempotency keys promises the account and its clients, *)
(* without transactions, sessions or unique indexes: each key is executed  *)
(* once, in one step that also moves the cash.  A call is told of its      *)
(* key's order, of an error, or beforehand of the order it is placing;     *)
(* that promise is kept or, when the desk dies, broken, and until then no  *)
(* other call with the key is promised anything.                           *)
(***************************************************************************)
EXTENDS OrderRules, Integers

CONSTANTS
    Requests,      \* calls, retries included
    Keys,          \* idempotency keys
    KeyOf,         \* the key of each call
    Buys,          \* keys whose order is a buy; the others sell
    PriceOf,       \* the price at which each key's order fills
    StartingCash

VARIABLES
    placed,        \* the call that placed each key's order, None before
    status,        \* that order's status
    cash,          \* of the account
    told,          \* what each call was told
    open           \* calls told of an order they have yet to place

vars == <<placed, status, cash, told, open>>

Init ==
    /\ placed = [k \in Keys |-> None]
    /\ status = [k \in Keys |-> None]
    /\ cash = StartingCash
    /\ told = [r \in Requests |-> None]
    /\ open = {}

\* A call is told once.
Tell(r, answer) == told[r] = None /\ told' = [told EXCEPT ![r] = answer]

\* The account after a fill under key k.
After(k) == IF k \in Buys THEN cash - PriceOf[k] ELSE cash + PriceOf[k]

\* A call with a key that has no order, and none promised, is told of its own.
Promise(r) ==
    /\ placed[KeyOf[r]] = None
    /\ \A q \in open : KeyOf[q] # KeyOf[r]
    /\ Tell(r, r)
    /\ open' = open \cup {r}
    /\ UNCHANGED <<placed, status, cash>>

\* The promised order is placed; it rests, is cancelled, or fills.
Keep(r) ==
    /\ r \in open
    /\ placed[KeyOf[r]] = None
    /\ placed' = [placed EXCEPT ![KeyOf[r]] = r]
    /\ \E s \in {"submitted", "cancelled", "filled"} :
          /\ status' = [status EXCEPT ![KeyOf[r]] = s]
          /\ cash' = IF s = "filled" THEN After(KeyOf[r]) ELSE cash
    /\ open' = open \ {r}
    /\ UNCHANGED told

\* The desk dies: the call was told of an order that never is.
Break(r) ==
    /\ r \in open
    /\ open' = open \ {r}
    /\ UNCHANGED <<placed, status, cash, told>>

\* Any later call with the key is told of the order there is.
Repeat(r) ==
    /\ placed[KeyOf[r]] # None
    /\ Tell(r, placed[KeyOf[r]])
    /\ UNCHANGED <<placed, status, cash, open>>

Refuse(r) == Tell(r, "error") /\ UNCHANGED <<placed, status, cash, open>>

\* A resting order is cancelled.
Cancel(k) ==
    /\ status[k] = "submitted"
    /\ status' = [status EXCEPT ![k] = "cancelled"]
    /\ UNCHANGED <<placed, cash, told, open>>

Next ==
    \/ \E r \in Requests : Promise(r) \/ Keep(r) \/ Break(r) \/ Repeat(r) \/ Refuse(r)
    \/ \E k \in Keys : Cancel(k)

Spec == Init /\ [][Next]_vars
=============================================================================
