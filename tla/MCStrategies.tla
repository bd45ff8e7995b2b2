---------------------------- MODULE MCStrategies ----------------------------
(***************************************************************************)
(* One strategy and two requests at a time; and the orders for its two     *)
(* legs, a call and two retries. The two share no state: "part" names the  *)
(* one that runs, and the other keeps its initial state.                   *)
(***************************************************************************)
EXTENDS Strategies, StrategyOrders, TLC

CONSTANTS h1, h2, t1, t2, r1, r2, r3

VARIABLE part

MCHandlers == {h1, h2}
MCTokens == {t1, t2}
MCCalls == {r1, r2, r3}
Symmetry == Permutations(MCHandlers) \cup Permutations(MCTokens) \cup Permutations(MCCalls)

DeskInit ==
    /\ part \in {"strategy", "legs"}
    /\ Init
    /\ LegsInit /\ (part # "legs" => broker = "alpaca")

DeskNext ==
    \/ part = "strategy" /\ Next /\ UNCHANGED <<part, legsVars>>
    \/ part = "legs" /\ LegsNext /\ UNCHANGED <<part, vars>>

DeskSpec == DeskInit /\ [][DeskNext]_<<part, vars, legsVars>>

=============================================================================
