---------------------------- MODULE ResearchJobs ----------------------------
(***************************************************************************)
(* Research notes, from POST /v1/research/run to the finished note: the    *)
(* handler (saalr_api/research/service.py), the job stream of its own      *)
(* (JobStream: research_queue.py is backtest_queue.py with other fields),  *)
(* and the workers (research_agent/consumer.py, research_agent/service.py) *)
(* with the metered calls of their agents (saalr_core/research/graph.py,   *)
(* saalr_core/llm/metered.py).                                             *)
(*                                                                         *)
(* What a run may cost is decided by three reads that nothing locks: the   *)
(* handler's, the worker's before it starts, and one before every call.    *)
(* One tenant and one market; a note is named after the request that       *)
(* creates it.                                                             *)
(***************************************************************************)
EXTENDS JobStream, FiniteSets

CONSTANTS
    Tickers,     \* what is researched
    TickerOf,    \* the ticker of each request
    Calls,       \* metered calls of one run (bound: 6 roles in the code)
    Providers,   \* chat providers of the gateway
    Cost,        \* what a call to each of them costs
    Cap,         \* the month's budget
    Limit,       \* runs in a day (bound: 10 in the code)
    MaxFaults    \* bound: crashes and failed calls in one behaviour

Requests == Jobs

None == "none"

MaxCost == CHOOSE c \in {Cost[p] : p \in Providers} : \A p \in Providers : Cost[p] <= c

ASSUME ResearchConstantsOK ==
    /\ TickerOf \in [Jobs -> Tickers]
    /\ Cost \in [Providers -> Nat] /\ Providers # {}
    /\ {Calls, Limit, Count} \subseteq Nat \ {0}
    /\ {Cap, MaxFaults} \subseteq Nat
    /\ None \notin Jobs \cup Workers /\ "error" \notin Jobs

VARIABLES
    rows,        \* research_notes, oldest first
    status,      \* their status
    author,      \* the worker whose result a note holds, or None
    transcript,  \* the worker whose transcript is stored for it, or None
    old,         \* how many rows were made before today (see ClockMoves)
    spent,       \* llm_usage, summed over the month
    api,         \* where each request is
    reply,       \* what its client was told: a note, "error", or nothing yet
    phase,       \* what each worker does next with the first job of its batch
    called,      \* how many calls of its run each worker has recorded
    lost,        \* history: rows with no job, or whose outcome was not written
    overlapped,  \* history: jobs that two running workers had in hand at once
    faults       \* faults so far

noteVars == <<rows, status, author, transcript>>
apiVars == <<api, reply>>
workVars == <<phase, called>>
vars == <<streamVars, noteVars, old, spent, apiVars, workVars, lost, overlapped, faults>>

Finished == {"succeeded", "failed"}
InFlight == {"queued", "running"}
ApiPC == {"start", "missed", "create", "enqueue", "done"}
Phase == {"load", "mark", "meter", "call", "save", "transcript", "fail", "ack"}

TypeOK ==
    /\ StreamTypeOK
    /\ rows \in Seq(Requests)
    /\ status \in [Requests -> InFlight \cup Finished \cup {None}]
    /\ {author, transcript} \subseteq [Requests -> Workers \cup {None}]
    /\ old \in 0..Len(rows)
    /\ spent \in Nat
    /\ api \in [Requests -> ApiPC]
    /\ reply \in [Requests -> Requests \cup {None, "error"}]
    /\ phase \in [Workers -> Phase]
    /\ called \in [Workers -> 0..Calls]
    /\ lost \cup overlapped \subseteq Requests
    /\ faults \in 0..MaxFaults

Init ==
    /\ StreamInit
    /\ rows = <<>>
    /\ status = [r \in Requests |-> None]
    /\ author = [r \in Requests |-> None]
    /\ transcript = [r \in Requests |-> None]
    /\ old = 0 /\ spent = 0
    /\ api = [r \in Requests |-> "start"]
    /\ reply = [r \in Requests |-> None]
    /\ phase = [w \in Workers |-> "load"]
    /\ called = [w \in Workers |-> 0]
    /\ lost = {} /\ overlapped = {}
    /\ faults = 0

Fault == faults < MaxFaults /\ faults' = faults + 1

-----------------------------------------------------------------------------
(* POST /v1/research/run                                                   *)

Goto(r, pc) == api' = [api EXCEPT ![r] = pc]

Answer(r, a) == Goto(r, "done") /\ reply' = [reply EXCEPT ![r] = a]

SameTicker(r, q) == TickerOf[r] = TickerOf[q]

\* The newest row of r's ticker from row n on that has one of the statuses, as
\* a set of at most one note.
Newest(r, n, wanted) ==
    LET found == {i \in n..Len(rows) : SameTicker(rows[i], r) /\ status[rows[i]] \in wanted}
    IN  {rows[i] : i \in {k \in found : \A l \in found : l <= k}}

BudgetExceeded == spent >= Cap

\* count_runs_today.
RunsToday == {i \in (old + 1)..Len(rows) : status[rows[i]] # "failed"}

\* Without refresh, a note of the last six hours answers the request (200).
ApiCached(r) ==
    /\ api[r] = "start"
    /\ \/ \E q \in Newest(r, old + 1, {"succeeded"}) : Answer(r, q)
       \/ Goto(r, "missed") /\ UNCHANGED reply    \* also: refresh
    /\ UNCHANGED <<streamVars, noteVars, old, spent, workVars, lost, overlapped, faults>>

\* A run in flight answers it (202); the day's limit (429) and the month's
\* budget (402) refuse it.
ApiGate(r) ==
    /\ api[r] = "missed"
    /\ LET running == Newest(r, 1, InFlight)
       IN  \/ \E q \in running : Answer(r, q)
           \/ /\ running = {}
              /\ IF Cardinality(RunsToday) >= Limit \/ BudgetExceeded
                   THEN Answer(r, "error")
                   ELSE Goto(r, "create") /\ UNCHANGED reply
    /\ UNCHANGED <<streamVars, noteVars, old, spent, workVars, lost, overlapped, faults>>

\* create_queued_run, committed on its own before the job is sent.
ApiCreate(r) ==
    /\ api[r] = "create"
    /\ rows' = Append(rows, r)
    /\ status' = [status EXCEPT ![r] = "queued"]
    /\ Goto(r, "enqueue")
    /\ UNCHANGED <<streamVars, author, transcript, old, spent, reply, workVars, lost, overlapped, faults>>

ApiEnqueue(r) ==
    /\ api[r] = "enqueue"
    /\ Enqueue(r)
    /\ Answer(r, r)
    /\ UNCHANGED <<noteVars, old, spent, workVars, lost, overlapped, faults>>

\* enqueue raises (503), or the process dies, before or after the job went in:
\* the row stays.
ApiEnqueueFails(r) ==
    /\ api[r] = "enqueue"
    /\ Fault
    /\ Answer(r, "error")
    /\ \/ Enqueue(r) /\ UNCHANGED lost
       \/ lost' = lost \cup {r} /\ UNCHANGED streamVars
    /\ UNCHANGED <<noteVars, old, spent, workVars, overlapped>>

Api(r) == ApiCached(r) \/ ApiGate(r) \/ ApiCreate(r) \/ ApiEnqueue(r) \/ ApiEnqueueFails(r)

-----------------------------------------------------------------------------
(* The worker: run_consumer, _process, run_research_job                    *)

Job(w) == Head(batch[w])

At(w, p) == w \in up /\ batch[w] # <<>> /\ phase[w] = p

GoOn(w, p) == phase' = [phase EXCEPT ![w] = p]

\* What a worker's step on a job leaves alone, whatever else it does.
JobStep == UNCHANGED <<streamVars, rows, old, apiVars, overlapped>>

\* claim_stale may take what another worker is still busy with.
WorkerStart(w) ==
    /\ StartConsumer(w)
    /\ overlapped' = overlapped \cup
                     {j \in ToSet(batch'[w]) : \E v \in up : j \in ToSet(batch[v])}
    /\ UNCHANGED <<noteVars, old, spent, apiVars, workVars, lost, faults>>

WorkerConsume(w) ==
    /\ ConsumeBatch(w)
    /\ UNCHANGED <<noteVars, old, spent, apiVars, workVars, lost, overlapped, faults>>

\* Mutant of WorkerLoad: a redelivered job is not recognised.
WorkerLoadUnchecked(w) ==
    /\ At(w, "load")
    /\ GoOn(w, IF BudgetExceeded THEN "fail" ELSE "mark")
    /\ JobStep
    /\ UNCHANGED <<status, author, transcript, spent, called, lost, faults>>

\* Phase 1 reads the note: a finished one is left alone, a run over budget
\* fails.
WorkerLoad(w) ==
    /\ At(w, "load")
    /\ GoOn(w, CASE status[Job(w)] \in Finished -> "ack"
                 [] status[Job(w)] \notin Finished /\ BudgetExceeded -> "fail"
                 [] OTHER -> "mark")
    /\ JobStep
    /\ UNCHANGED <<status, author, transcript, spent, called, lost, faults>>

\* Price, regime, sentiment and documents: no price data or no provider ends the run.
GatherInputs(w) == GoOn(w, "meter") \/ GoOn(w, "fail")

\* mark_running, whatever the status is by now; then phase 2.
WorkerMark(w) ==
    /\ At(w, "mark")
    /\ status' = [status EXCEPT ![Job(w)] = "running"]
    /\ GatherInputs(w)
    /\ JobStep
    /\ UNCHANGED <<author, transcript, spent, called, lost, faults>>

\* Mutant of MeterCheck: the budget is read before the first call only.
MeterCheckOnce(w) ==
    /\ At(w, "meter")
    /\ GoOn(w, IF called[w] = 0 /\ BudgetExceeded THEN "fail" ELSE "call")
    /\ JobStep
    /\ UNCHANGED <<status, author, transcript, spent, called, lost, faults>>

\* metered_complete reads the month's cost in a transaction of its own.
MeterCheck(w) ==
    /\ At(w, "meter")
    /\ GoOn(w, IF BudgetExceeded THEN "fail" ELSE "call")
    /\ JobStep
    /\ UNCHANGED <<status, author, transcript, spent, called, lost, faults>>

\* run_agent_graph: the analysts, the trader and the PM in turn; the PM's answer is
\* the note.
NextCall(w) == IF called[w] + 1 = Calls THEN "save" ELSE "meter"

\* The gateway's providers are tried in turn; the one that answers is charged
\* and the call recorded.
MeterRecord(w) ==
    /\ At(w, "call")
    /\ \E p \in Providers : spent' = spent + Cost[p]
    /\ called' = [called EXCEPT ![w] = @ + 1]
    /\ GoOn(w, NextCall(w))
    /\ JobStep
    /\ UNCHANGED <<status, author, transcript, lost, faults>>

\* Every provider failed (ChatError), or the call could not be recorded.
MeterFails(w) ==
    /\ At(w, "call")
    /\ GoOn(w, "fail")
    /\ JobStep
    /\ UNCHANGED <<status, author, transcript, spent, called, lost, faults>>

\* Phase 3.
WorkerSave(w) ==
    /\ At(w, "save")
    /\ status' = [status EXCEPT ![Job(w)] = "succeeded"]
    /\ author' = [author EXCEPT ![Job(w)] = w]
    /\ GoOn(w, "transcript")
    /\ JobStep
    /\ UNCHANGED <<transcript, spent, called, lost, faults>>

\* One transcript per note (UNIQUE); a failed insert is logged and forgotten.
WorkerTranscript(w) ==
    /\ At(w, "transcript")
    /\ \/ transcript' = [transcript EXCEPT ![Job(w)] = IF @ = None THEN w ELSE @]
       \/ UNCHANGED transcript
    /\ GoOn(w, "ack")
    /\ JobStep
    /\ UNCHANGED <<status, author, spent, called, lost, faults>>

\* Mutant of WorkerFail: the failure is logged and not persisted.
WorkerFailUnsaved(w) ==
    /\ At(w, "fail")
    /\ GoOn(w, "ack")
    /\ JobStep
    /\ UNCHANGED <<status, author, transcript, spent, called, lost, faults>>

\* _fail, in a new transaction.
WorkerFail(w) ==
    /\ At(w, "fail")
    /\ status' = [status EXCEPT ![Job(w)] = "failed"]
    /\ GoOn(w, "ack")
    /\ JobStep
    /\ UNCHANGED <<author, transcript, spent, called, lost, faults>>

\* The outcome cannot be written: _process logs it and acks all the same.
WorkerSaveFails(w) ==
    /\ At(w, "save") \/ At(w, "fail")
    /\ Fault
    /\ lost' = lost \cup {Job(w)}
    /\ GoOn(w, "ack")
    /\ JobStep
    /\ UNCHANGED <<status, author, transcript, spent, called>>

WorkerAck(w) ==
    /\ At(w, "ack")
    /\ AckHead(w)
    /\ GoOn(w, "load")
    /\ called' = [called EXCEPT ![w] = 0]
    /\ UNCHANGED <<noteVars, old, spent, apiVars, lost, overlapped, faults>>

\* The process dies; an ack that raises ends it too.
WorkerCrash(w) ==
    /\ StopConsumer(w)
    /\ Fault
    /\ GoOn(w, "load")
    /\ called' = [called EXCEPT ![w] = 0]
    /\ UNCHANGED <<noteVars, old, spent, apiVars, lost, overlapped>>

Worker(w) ==
    \/ WorkerStart(w) \/ WorkerConsume(w) \/ WorkerLoad(w) \/ WorkerMark(w)
    \/ MeterCheck(w) \/ MeterRecord(w) \/ MeterFails(w)
    \/ WorkerSave(w) \/ WorkerTranscript(w) \/ WorkerFail(w)
    \/ WorkerSaveFails(w) \/ WorkerAck(w) \/ WorkerCrash(w)

-----------------------------------------------------------------------------
(* Time, within one month                                                  *)

\* A night: six hours, and the end of a day.
ClockMoves ==
    /\ old < Len(rows)
    /\ old' = Len(rows)
    /\ UNCHANGED <<streamVars, noteVars, spent, apiVars, workVars, lost, overlapped, faults>>

Next ==
    \/ \E r \in Requests : Api(r)
    \/ \E w \in Workers : Worker(w)
    \/ ClockMoves

\* ECS keeps the workers running, and a worker that runs works.
Fairness == \A w \in Workers : WF_vars(Worker(w) /\ UNCHANGED faults)

Spec == Init /\ [][Next]_vars

FairSpec == Spec /\ Fairness

-----------------------------------------------------------------------------
(* Safety                                                                  *)

\* Runs that read the budget at once overshoot it, by one call of each worker
\* at most: every call reads it again, whatever runs, retries and crashes went
\* before ("collectively overshoot by ~one run's cost" is this bound).
OverspendBounded ==
    spent = 0 \/ spent < Cap + Cardinality(Workers) * MaxCost

\* A run a client was told of and that has not started is on its way to a
\* worker, also when the client was answered with another request's run: only
\* a failed enqueue leaves it with no job.
PromisedRunsAreHeld ==
    \A q \in Requests :
        LET r == reply[q] IN
            r \in Requests /\ status[r] = "queued"
                => r \in Undelivered \cup pending \cup lost \/ api[r] = "enqueue"

\* The transcript stored for a note is that of the run that wrote it.
TranscriptMatchesNote ==
    \A r \in Requests \ overlapped :
        transcript[r] # None => transcript[r] = author[r]

\* A note that is finished stays as it is and keeps the transcript of its own
\* run, also when its job is delivered again because its worker died before the
\* ack, unless two running workers had the job at once.
FinishedRunsStay ==
    /\ [][\A r \in Requests :
             status[r] \in Finished /\ r \notin overlapped
                 => status'[r] = status[r] /\ author'[r] = author[r]]_vars
    /\ []TranscriptMatchesNote

\* What each worker has seen to its end: the job it is to ack.
SeenThrough == [w \in Workers |-> {j \in ToSet(batch[w]) : phase[w] = "ack" /\ j = Job(w)}]

Delivery == INSTANCE JobDelivery
                WITH sent <- ToSet(stream), owed <- Owed, hands <- Hands, worked <- SeenThrough

\* Stream, consumer group and workers deliver at least once: no crash, no second
\* worker and no failed write takes a job out of the stream before a worker that
\* holds it has been through it, or found its note finished.
DeliveredAtLeastOnce == Delivery!Spec

(* Liveness                                                                *)

\* Pending, and in nobody's hands.
Stranded(r) == r \in pending /\ \A w \in Workers : r \notin ToSet(batch[w])

\* A run that was accepted ends, and its ticker can be researched again, unless
\* its outcome was not written, a crash strands it, or two workers had it at
\* once (one may mark it running after the other has finished, and die).
RunsEnd ==
    \A r \in Requests :
        reply[r] = r ~>
            status[r] \in Finished \/ r \in lost \cup overlapped \/ Stranded(r)
=============================================================================
