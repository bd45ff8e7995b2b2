----------------------------- MODULE OrderRules -----------------------------
(***************************************************************************)
(* The pure rules of the order-management core that both the API and the   *)
(* reconciliation worker import: the order state machine                   *)
(* (saalr_core/oms/fsm.py) and the translation of a broker's order status  *)
(* into one of ours (saalr_brokers/alpaca.py).                             *)
(***************************************************************************)
EXTENDS Naturals

None == "none"

\* The values of orders.status (OrderStatus).
OrderStatus ==
    {"pending", "submitted", "partial", "filled", "cancelled", "rejected"}

\* Mutant of VALID_TRANSITIONS: a partly filled order can only fill.
PartialOnlyFills ==
    [s \in OrderStatus |->
        CASE s = "pending"   -> {"submitted", "rejected", "cancelled"}
          [] s = "submitted" -> {"partial", "filled", "cancelled", "rejected"}
          [] s = "partial"   -> {"filled"}
          [] OTHER           -> {}]

\* The transition table of the order state machine.
VALID_TRANSITIONS ==
    [s \in OrderStatus |->
        CASE s = "pending"   -> {"submitted", "rejected", "cancelled"}
          [] s = "submitted" -> {"partial", "filled", "cancelled", "rejected"}
          [] s = "partial"   -> {"filled", "cancelled"}
          [] OTHER           -> {}]

\* transition() returns its target when the table allows it and raises
\* IllegalOrderTransition otherwise.
Allowed(current, target) == target \in VALID_TRANSITIONS[current]

Terminal == {s \in OrderStatus : VALID_TRANSITIONS[s] = {}}

\* Alpaca's statuses that map_status turns into each of ours.  A status that
\* is in none of these sets is unknown to the adapter and reads "submitted".
MapsToPartial   == {"partially_filled"}
MapsToFilled    == {"filled"}
MapsToCancelled == {"canceled", "expired", "done_for_day", "pending_cancel",
                    "replaced", "pending_replace"}
MapsToRejected  == {"rejected", "suspended", "stopped"}

\* Mutant of map_status: a partial fill reads as a complete one.
PartialReadsFilled(raw) ==
    CASE raw \in MapsToPartial \cup MapsToFilled -> "filled"
      [] raw \in MapsToCancelled -> "cancelled"
      [] raw \in MapsToRejected  -> "rejected"
      [] OTHER                   -> "submitted"

map_status(raw) ==
    CASE raw \in MapsToPartial   -> "partial"
      [] raw \in MapsToFilled    -> "filled"
      [] raw \in MapsToCancelled -> "cancelled"
      [] raw \in MapsToRejected  -> "rejected"
      [] OTHER                   -> "submitted"

\* The statuses list_open_orders_for_account selects: what a reconciliation
\* pass looks at.
OpenStatus == {"submitted", "partial"}

\* The statuses cancel_order accepts.
CancellableStatus == {"pending", "submitted"}
=============================================================================
