------------------------------ MODULE MCBilling ------------------------------
(***************************************************************************)
(* Small instances of Billing for TLC.                                     *)
(***************************************************************************)
EXTENDS Billing

CONSTANTS u1, u2, h1, h2

\* The second upgrade asks for the other plan.
BothPlans == [u \in Upgrades |-> IF u = u1 THEN "pro" ELSE "premium"]
=============================================================================
