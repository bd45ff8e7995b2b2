------------------------------ MODULE JobStream ------------------------------
(***************************************************************************)
(* A Redis stream read by one consumer group                               *)
(* (saalr_core/queue/backtest_queue.py), and the loop of its consumers     *)
(* (backtest_worker/consumer.py) as far as the stream is concerned: which  *)
(* entries a consumer holds, when it takes new ones, when it reclaims      *)
(* those of others.                                                        *)
(*                                                                         *)
(* Delivery is at least once.  An entry that was delivered and not acked   *)
(* stays pending, whatever became of its consumer; XAUTOCLAIM hands the    *)
(* pending entries that were idle for claim_min_idle_ms to its caller.     *)
(* The group exists before the first entry (the API's start-up and every   *)
(* worker create it), and the stream stays below its MAXLEN.               *)
(***************************************************************************)
EXTENDS Naturals, Sequences, SequencesExt, Collections

CONSTANTS
    Jobs,       \* the jobs an entry may name
    Workers,    \* consumers: a container that is restarted keeps its name here
    Count       \* entries read by one XREADGROUP (bound: 10 in the code)

VARIABLES
    stream,     \* every entry ever added, oldest first
    delivered,  \* how many of them the group has delivered
    pending,    \* delivered and not acked
    up,         \* consumers that are running
    batch       \* entries each consumer has taken and not finished, in order

streamVars == <<stream, delivered, pending, up, batch>>

StreamTypeOK ==
    /\ stream \in Seq(Jobs)
    /\ delivered \in 0..Len(stream)
    /\ pending \subseteq Jobs
    /\ up \subseteq Workers
    /\ batch \in [Workers -> Seq(Jobs)]

StreamInit ==
    /\ stream = <<>>
    /\ delivered = 0
    /\ pending = {}
    /\ up = {}
    /\ batch = [w \in Workers |-> <<>>]

\* Entries no consumer has been given.
Undelivered == ToSet(SubSeq(stream, delivered + 1, Len(stream)))

\* enqueue: XADD.
Enqueue(j) ==
    /\ stream' = Append(stream, j)
    /\ UNCHANGED <<delivered, pending, up, batch>>

\* A consumer starts: claim_stale pages through all that is pending and idle
\* long enough, oldest first, and the consumer works through it before it reads
\* anything new.  This is the only time it reclaims.  Which of the pending
\* entries have been idle for so long is up to the clock.
StartConsumer(w) ==
    /\ w \notin up
    /\ up' = up \cup {w}
    /\ \E idle \in SUBSET pending :
          batch' = [batch EXCEPT ![w] = Among(stream, idle)]
    /\ UNCHANGED <<stream, delivered, pending>>

\* Mutants of ConsumeBatch.  The batch loses its last entry.
ConsumeAllButLast(w) ==
    /\ w \in up
    /\ batch[w] = <<>>
    /\ delivered < Len(stream)
    /\ LET taken == SubSeq(stream, delivered + 1, Len(stream) - 1)
       IN  /\ batch' = [batch EXCEPT ![w] = taken]
           /\ pending' = pending \cup ToSet(taken)
    /\ delivered' = Len(stream)
    /\ UNCHANGED <<stream, up>>

\* XREADGROUP with NOACK: entries count as done when they are read.
ConsumeNoAck(w) ==
    /\ w \in up
    /\ batch[w] = <<>>
    /\ delivered < Len(stream)
    /\ batch' = [batch EXCEPT ![w] = SubSeq(stream, delivered + 1, Len(stream))]
    /\ delivered' = Len(stream)
    /\ UNCHANGED <<stream, pending, up>>

\* consume_batch: XREADGROUP with ">".
ConsumeBatch(w) ==
    /\ w \in up
    /\ batch[w] = <<>>
    /\ delivered < Len(stream)
    /\ LET last == IF delivered + Count < Len(stream) THEN delivered + Count ELSE Len(stream)
           taken == SubSeq(stream, delivered + 1, last)
       IN  /\ batch' = [batch EXCEPT ![w] = taken]
           /\ pending' = pending \cup ToSet(taken)
           /\ delivered' = last
    /\ UNCHANGED <<stream, up>>

\* Mutant of AckHead: the ack names every entry of the batch.
AckBatch(w) ==
    /\ pending' = pending \ ToSet(batch[w])
    /\ batch' = [batch EXCEPT ![w] = <<>>]
    /\ UNCHANGED <<stream, delivered, up>>

\* ack: XACK and XDEL, by entry; it does not ask who holds the entry by now.
AckHead(w) ==
    LET j == Head(batch[w]) IN
        /\ pending' = pending \ {j}
        /\ batch' = [batch EXCEPT ![w] = Tail(@)]
        /\ UNCHANGED <<stream, delivered, up>>

\* A consumer dies; what it had taken stays pending.
StopConsumer(w) ==
    /\ w \in up
    /\ up' = up \ {w}
    /\ batch' = [batch EXCEPT ![w] = <<>>]
    /\ UNCHANGED <<stream, delivered, pending>>

(* The stream as the queue of JobDelivery.                                 *)

\* Jobs that were sent and not acked.
Owed == Undelivered \cup pending

\* The jobs each worker has taken and not acked.
Hands == [w \in Workers |-> ToSet(batch[w])]
=============================================================================
