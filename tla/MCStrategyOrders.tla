-------------------------- MODULE MCStrategyOrders --------------------------
(* Two legs, a call and two retries. *)
EXTENDS StrategyOrders, TLC

CONSTANTS r1, r2, r3

MCCalls == {r1, r2, r3}
Symmetry == Permutations(MCCalls)

=============================================================================
