----------------------------- MODULE JobDelivery -----------------------------
(***************************************************************************)
(* What a job queue with workers promises, without streams, consumer       *)
(* groups, databases or failing calls: delivery at least once.             *)
(*                                                                         *)
(* A job that was sent is owed until a worker settles it, and a worker     *)
(* settles only what it holds and has itself seen to its end.  A worker    *)
(* that dies gives back all it held; what is owed may be taken by several  *)
(* workers.                                                                *)
(***************************************************************************)
CONSTANTS
    Jobs,       \* the jobs that may be sent
    Workers     \* who takes them

VARIABLES
    sent,       \* jobs ever sent
    owed,       \* those no worker has settled
    hands,      \* jobs each worker holds
    worked      \* those of them it has seen to their end

vars == <<sent, owed, hands, worked>>

Init ==
    /\ sent = {} /\ owed = {}
    /\ hands = [w \in Workers |-> {}]
    /\ worked = [w \in Workers |-> {}]

\* A job is sent, and owed, once: what was settled does not come back.
Send(j) ==
    /\ j \notin sent
    /\ sent' = sent \cup {j}
    /\ owed' = owed \cup {j}
    /\ UNCHANGED <<hands, worked>>

\* A worker with nothing in hand takes some of what is owed.
Take(w) ==
    /\ hands[w] = {}
    /\ \E jobs \in SUBSET owed : hands' = [hands EXCEPT ![w] = jobs]
    /\ UNCHANGED <<sent, owed, worked>>

\* It has seen one of its jobs to the end.
Work(w) ==
    /\ \E j \in hands[w] : worked' = [worked EXCEPT ![w] = @ \cup {j}]
    /\ UNCHANGED <<sent, owed, hands>>

\* It settles such a job, which another worker may have settled before.
Settle(w) ==
    /\ \E j \in hands[w] \cap worked[w] :
          /\ owed' = owed \ {j}
          /\ hands' = [hands EXCEPT ![w] = @ \ {j}]
          /\ worked' = [worked EXCEPT ![w] = @ \ {j}]
    /\ UNCHANGED sent

\* It dies.
Drop(w) ==
    /\ hands' = [hands EXCEPT ![w] = {}]
    /\ worked' = [worked EXCEPT ![w] = {}]
    /\ UNCHANGED <<sent, owed>>

Next ==
    \/ \E j \in Jobs : Send(j)
    \/ \E w \in Workers : Take(w) \/ Work(w) \/ Settle(w) \/ Drop(w)

Spec == Init /\ [][Next]_vars
=============================================================================
