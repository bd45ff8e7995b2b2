--------------------------- MODULE OrderLifecycle ---------------------------
(***************************************************************************)
(* What the order desk promises about each order, without databases,       *)
(* requests or polling: an accepted order moves along the order state      *)
(* machine, its booked quantity only grows, stays within the order and     *)
(* agrees with the status unless the last report named no price, and a     *)
(* closed order never changes again.                                       *)
(*                                                                         *)
(*        submitted ---> partial ---> filled                               *)
(*            |  \____________\____> cancelled                             *)
(*            |____> rejected, filled                                      *)
(*                                                                         *)
(* Several orders may move in one step: a reconciliation pass commits all  *)
(* it found at once.                                                       *)
(***************************************************************************)
EXTENDS OrderRules

CONSTANTS
    Orders,     \* the orders there may be
    Qty         \* shares per order

VARIABLES
    status,     \* status of each order, None before it is accepted
    executed,   \* shares booked as executed
    unbooked    \* orders whose last report could not be booked

vars == <<status, executed, unbooked>>

Init ==
    /\ status = [o \in Orders |-> None]
    /\ executed = [o \in Orders |-> 0]
    /\ unbooked = {}

\* The quantities an order in status s may have booked.
Booked(s) ==
    CASE s \in {"submitted", "cancelled", "rejected"} -> 0..(Qty - 1)
      [] s = "partial"   -> 1..(Qty - 1)
      [] s = "filled"    -> {Qty}
      [] OTHER           -> {0}

\* The desk takes the order.
Accept(o) ==
    /\ status[o] = None
    /\ status'[o] = "submitted"
    /\ executed'[o] = 0
    /\ o \notin unbooked'

\* The desk learns more of an open order: further fills, a later status, or
\* both.  What it learns without a price moves the status alone.
Report(o) ==
    /\ status[o] \in OpenStatus
    /\ status'[o] \in {status[o]} \cup VALID_TRANSITIONS[status[o]]
    /\ IF o \in unbooked'
       THEN executed'[o] = executed[o]
       ELSE executed'[o] \in Booked(status'[o]) /\ executed'[o] >= executed[o]

Unmoved(o) ==
    /\ status'[o] = status[o] /\ executed'[o] = executed[o]
    /\ o \in unbooked' <=> o \in unbooked

Next ==
    /\ status' \in [Orders -> OrderStatus \cup {None}]
    /\ executed' \in [Orders -> 0..Qty]
    /\ unbooked' \subseteq Orders
    /\ \A o \in Orders : Accept(o) \/ Report(o) \/ Unmoved(o)

Spec == Init /\ [][Next]_vars
=============================================================================
