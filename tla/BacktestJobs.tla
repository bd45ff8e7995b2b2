---------------------------- MODULE BacktestJobs ----------------------------
(***************************************************************************)
(* Backtest runs, from POST /v1/strategies/{id}/backtest to their result:  *)
(* the API handler (saalr_api/backtests/router.py) with its idempotency    *)
(* key in Redis, the job stream (JobStream), and the workers               *)
(* (backtest_worker/consumer.py, backtest_worker/service.py).              *)
(*                                                                         *)
(* Three stores are written one after the other with no transaction around *)
(* them: the backtests row (its own database transaction), the key, the    *)
(* stream.  A run is named after the request that creates its row.         *)
(***************************************************************************)
EXTENDS JobStream

CONSTANTS
    Keys,        \* Idempotency-Key values
    KeyOf,       \* the key each request carries
    Racing,      \* TRUE when a client may retry before it has an answer
    MaxFaults    \* bound: crashes and failed calls in one behaviour

Requests == Jobs

None == "none"

ASSUME BacktestConstantsOK ==
    /\ KeyOf \in [Jobs -> Keys]
    /\ Count \in Nat \ {0}
    /\ Racing \in BOOLEAN
    /\ MaxFaults \in Nat
    /\ None \notin Jobs /\ "error" \notin Jobs

VARIABLES
    run,        \* backtests.status of each run, None when there is no row
    idem,       \* the Redis key's value: the run it is bound to, or None
    api,        \* where each request is
    reply,      \* what its client was told: a run, "error", or nothing yet
    phase,      \* what each worker does next with the first job of its batch
    unsaved,    \* history: runs whose outcome could not be written
    faults      \* faults so far

apiVars == <<idem, api, reply>>
vars == <<streamVars, run, apiVars, phase, unsaved, faults>>

RunStatus == {"queued", "running", "succeeded", "failed"}
Finished == {"succeeded", "failed"}
ApiPC == {"start", "missed", "created", "bound", "unbind", "done"}

TypeOK ==
    /\ StreamTypeOK
    /\ run \in [Requests -> RunStatus \cup {None}]
    /\ idem \in [Keys -> Requests \cup {None}]
    /\ api \in [Requests -> ApiPC]
    /\ reply \in [Requests -> Requests \cup {None, "error"}]
    /\ phase \in [Workers -> {"load", "compute", "fail", "ack"}]
    /\ unsaved \subseteq Requests
    /\ faults \in 0..MaxFaults

Init ==
    /\ StreamInit
    /\ run = [r \in Requests |-> None]
    /\ idem = [k \in Keys |-> None]
    /\ api = [r \in Requests |-> "start"]
    /\ reply = [r \in Requests |-> None]
    /\ phase = [w \in Workers |-> "load"]
    /\ unsaved = {}
    /\ faults = 0

Fault == faults < MaxFaults /\ faults' = faults + 1

-----------------------------------------------------------------------------
(* POST /v1/strategies/{id}/backtest                                       *)

SameKey(r, q) == KeyOf[r] = KeyOf[q]

Goto(r, pc) == api' = [api EXCEPT ![r] = pc]

Answer(r, a) == Goto(r, "done") /\ reply' = [reply EXCEPT ![r] = a]

\* A client that waits for its answer has one request of a key under way.
Sent(r) ==
    Racing \/ \A q \in Requests \ {r} : SameKey(q, r) => api[q] \in {"start", "done"}

\* GET the key: a bound run answers the request.  The strategy may also be
\* unknown (404).
ApiLookup(r) ==
    /\ api[r] = "start"
    /\ Sent(r)
    /\ \/ Answer(r, "error")
       \/ idem[KeyOf[r]] # None /\ Answer(r, idem[KeyOf[r]])
       \/ idem[KeyOf[r]] = None /\ Goto(r, "missed") /\ UNCHANGED reply
    /\ UNCHANGED <<streamVars, run, idem, phase, unsaved, faults>>

\* create_backtest, committed on its own.
ApiCreate(r) ==
    /\ api[r] = "missed"
    /\ run' = [run EXCEPT ![r] = "queued"]
    /\ Goto(r, "created")
    /\ UNCHANGED <<streamVars, idem, reply, phase, unsaved, faults>>

\* Mutant of ApiBind: SET XX.
ApiBindExisting(r) ==
    /\ api[r] = "created"
    /\ idem' = [idem EXCEPT ![KeyOf[r]] = IF @ # None THEN r ELSE @]
    /\ Goto(r, "bound")
    /\ UNCHANGED <<streamVars, run, reply, phase, unsaved, faults>>

\* SET NX.  Its result is not looked at.
ApiBind(r) ==
    /\ api[r] = "created"
    /\ idem' = [idem EXCEPT ![KeyOf[r]] = IF @ = None THEN r ELSE @]
    /\ Goto(r, "bound")
    /\ UNCHANGED <<streamVars, run, reply, phase, unsaved, faults>>

\* The job is in the stream: 202 with the new run.
ApiEnqueue(r) ==
    /\ api[r] = "bound"
    /\ Enqueue(r)
    /\ Answer(r, r)
    /\ UNCHANGED <<run, idem, phase, unsaved, faults>>

\* enqueue raises: Redis was not reached, or took the entry and did not answer.
ApiEnqueueFails(r) ==
    /\ api[r] = "bound"
    /\ Fault
    /\ Enqueue(r) \/ UNCHANGED streamVars
    /\ Goto(r, "unbind")
    /\ UNCHANGED <<run, idem, reply, phase, unsaved>>

\* DEL the key, best effort, and answer 503.
ApiUnbind(r) ==
    /\ api[r] = "unbind"
    /\ \/ idem' = [idem EXCEPT ![KeyOf[r]] = None] /\ UNCHANGED faults
       \/ Fault /\ UNCHANGED idem
    /\ Answer(r, "error")
    /\ UNCHANGED <<streamVars, run, phase, unsaved>>

\* The process dies, or a call to the database or to Redis raises (500).
ApiCrash(r) ==
    /\ api[r] \in {"missed", "created", "bound", "unbind"}
    /\ Fault
    /\ Answer(r, "error")
    /\ UNCHANGED <<streamVars, run, idem, phase, unsaved>>

-----------------------------------------------------------------------------
(* The worker: run_consumer, _process, run_backtest                        *)

Job(w) == Head(batch[w])

Working(w) == w \in up /\ batch[w] # <<>>

WorkerStart(w) ==
    /\ StartConsumer(w)
    /\ UNCHANGED <<run, apiVars, phase, unsaved, faults>>

WorkerConsume(w) ==
    /\ ConsumeBatch(w)
    /\ UNCHANGED <<run, apiVars, phase, unsaved, faults>>

\* Phase 1: mark the run "running", whatever its status, and read its inputs.
\* When that raises, the transaction is rolled back and the run is to fail.
WorkerLoad(w) ==
    /\ Working(w) /\ phase[w] = "load"
    /\ \/ /\ run' = [run EXCEPT ![Job(w)] = "running"]
          /\ phase' = [phase EXCEPT ![w] = "compute"]
       \/ /\ phase' = [phase EXCEPT ![w] = "fail"]
          /\ UNCHANGED run
    /\ UNCHANGED <<streamVars, apiVars, unsaved, faults>>

\* Phases 2 and 3: the engine ends or raises, and save_result records which.
WorkerSave(w) ==
    /\ Working(w) /\ phase[w] \in {"compute", "fail"}
    /\ \E outcome \in Finished :
          /\ phase[w] = "fail" => outcome = "failed"
          /\ run' = [run EXCEPT ![Job(w)] = outcome]
    /\ phase' = [phase EXCEPT ![w] = "ack"]
    /\ UNCHANGED <<streamVars, apiVars, unsaved, faults>>

\* save_result raises: _process logs it and acks all the same.
WorkerSaveFails(w) ==
    /\ Working(w) /\ phase[w] \in {"compute", "fail"}
    /\ Fault
    /\ unsaved' = unsaved \cup {Job(w)}
    /\ phase' = [phase EXCEPT ![w] = "ack"]
    /\ UNCHANGED <<streamVars, run, apiVars>>

WorkerAck(w) ==
    /\ Working(w) /\ phase[w] = "ack"
    /\ AckHead(w)
    /\ phase' = [phase EXCEPT ![w] = "load"]
    /\ UNCHANGED <<run, apiVars, unsaved, faults>>

WorkerCrash(w) ==
    /\ StopConsumer(w)
    /\ Fault
    /\ phase' = [phase EXCEPT ![w] = "load"]
    /\ UNCHANGED <<run, apiVars, unsaved>>

-----------------------------------------------------------------------------
Api(r) ==
    \/ ApiLookup(r) \/ ApiCreate(r) \/ ApiBind(r) \/ ApiEnqueue(r)
    \/ ApiEnqueueFails(r) \/ ApiUnbind(r) \/ ApiCrash(r)

Worker(w) ==
    \/ WorkerStart(w) \/ WorkerConsume(w) \/ WorkerLoad(w) \/ WorkerSave(w)
    \/ WorkerSaveFails(w) \/ WorkerAck(w) \/ WorkerCrash(w)

Next ==
    \/ \E r \in Requests : Api(r)
    \/ \E w \in Workers : Worker(w)

\* ECS keeps the workers running, and a worker that runs works.
Fairness ==
    \A w \in Workers :
        /\ WF_vars(WorkerStart(w))
        /\ WF_vars(WorkerConsume(w))
        /\ WF_vars(WorkerLoad(w))
        /\ WF_vars(WorkerSave(w))
        /\ WF_vars(WorkerAck(w))

Spec == Init /\ [][Next]_vars

FairSpec == Spec /\ Fairness

-----------------------------------------------------------------------------
(* Safety                                                                  *)

\* A key's clients are told of one run at most: a retry is answered with the
\* run of the first call, or replaces one that never got through (the key is
\* bound before the job is enqueued).
OneRunPerKey ==
    \A r, q \in Requests :
        reply[r] \in Requests /\ reply[q] \in Requests /\ SameKey(r, q)
            => reply[r] = reply[q]

\* A run a client was promised and that has not started is in the stream, or
\* with the group's pending entries: no crash and no second worker drops it.
PromisedRunsAreHeld ==
    \A r \in Requests :
        reply[r] = r /\ run[r] = "queued"
            => r \in Undelivered \cup pending \cup unsaved

\* What each worker has seen to its end: the job it is to ack.
SeenThrough == [w \in Workers |-> {j \in ToSet(batch[w]) : phase[w] = "ack" /\ j = Job(w)}]

Delivery == INSTANCE JobDelivery
                WITH sent <- ToSet(stream), owed <- Owed, hands <- Hands, worked <- SeenThrough

\* Stream, consumer group and workers deliver at least once: no crash, no second
\* worker and no failed write takes a job out of the stream before a worker that
\* holds it has been through it.
DeliveredAtLeastOnce == Delivery!Spec

(* Liveness                                                                *)

\* Pending, and in nobody's hands.
Stranded(r) == r \in pending /\ \A w \in Workers : r \notin ToSet(batch[w])

\* A promised run is taken up, unless a crash strands its entry.
PromisedRunsStart ==
    \A r \in Requests :
        reply[r] = r ~> run[r] # "queued" \/ r \in unsaved \/ Stranded(r)

\* A promised run ends: the entry of a worker that crashed is reclaimed on the
\* next start of a worker.
PromisedRunsEnd ==
    \A r \in Requests : reply[r] = r ~> run[r] \in Finished \/ r \in unsaved
=============================================================================
