------------------------- MODULE ResearchJobs_proofs -------------------------
(***************************************************************************)
(* How far research runs overspend, that no accepted run loses its job,    *)
(* and that a finished note stays, for every number of requests, runs,     *)
(* workers, providers and faults, and every budget.                        *)
(***************************************************************************)
EXTENDS ResearchJobs, CollectionLemmas, FiniteSetTheorems, TLAPS

\* There are workers, finitely many, and some provider is the dearest.
Fleet ==
    /\ IsFiniteSet(Workers)
    /\ \E p \in Providers : \A q \in Providers : Cost[q] <= Cost[p]

\* Workers that have passed the check of a call and have not recorded it.
InCall == {w \in Workers : phase[w] = "call"}

\* What is spent, and what the calls in progress may add.
Committed == spent + Cardinality(InCall) * MaxCost

\* Each call in progress was let through below the budget, so that all of them
\* together reach at most one call of every worker past it.
Bounded ==
    \/ spent = 0 /\ InCall = {}
    \/ Committed < Cap + Cardinality(Workers) * MaxCost

MoneyTypeOK ==
    /\ spent \in Nat
    /\ phase \in [Workers -> Phase]

IInv == MoneyTypeOK /\ Bounded

-----------------------------------------------------------------------------
(* Lemmas                                                                  *)

LEMMA MaxCostBounds ==
    ASSUME Fleet
    PROVE  /\ MaxCost \in Nat
           /\ \A p \in Providers : Cost[p] \in Nat /\ Cost[p] <= MaxCost
BY ResearchConstantsOK DEF Fleet, MaxCost

LEMMA TimesMonotone ==
    ASSUME NEW m \in Nat, NEW a \in Nat, NEW b \in Nat, a <= b
    PROVE  a * m \in Nat /\ b * m \in Nat /\ a * m <= b * m
OBVIOUS

LEMMA TimesLess ==
    ASSUME NEW m \in Nat, NEW a \in Nat, a > 0
    PROVE  (a - 1) * m + m = a * m
OBVIOUS

LEMMA InCallFinite ==
    ASSUME Fleet
    PROVE  /\ IsFiniteSet(InCall) /\ Cardinality(InCall) \in Nat
           /\ Cardinality(Workers) \in Nat
           /\ Cardinality(InCall) <= Cardinality(Workers)
BY FS_Subset, FS_CardinalityType DEF Fleet, InCall

\* A step that spends nothing and lets no call through.
LEMMA NoCall ==
    ASSUME Fleet, IInv, UNCHANGED spent, phase' \in [Workers -> Phase], InCall' \subseteq InCall
    PROVE  IInv'
<1>1. Cardinality(InCall') \in Nat /\ Cardinality(InCall') <= Cardinality(InCall)
    BY InCallFinite, FS_Subset, FS_CardinalityType
<1>2. Cardinality(InCall') * MaxCost <= Cardinality(InCall) * MaxCost
      /\ Cardinality(InCall') * MaxCost \in Nat /\ Cardinality(InCall) * MaxCost \in Nat
    BY <1>1, InCallFinite, MaxCostBounds, TimesMonotone
<1>3. Cardinality(Workers) * MaxCost \in Nat
    BY InCallFinite, MaxCostBounds, TimesMonotone
<1>4. Bounded'
  <2>1. CASE spent = 0 /\ InCall = {}
    BY <2>1 DEF Bounded
  <2>2. CASE Committed < Cap + Cardinality(Workers) * MaxCost
    BY <1>2, <1>3, <2>2, ResearchConstantsOK DEF Bounded, Committed, IInv, MoneyTypeOK
  <2> QED
    BY <2>1, <2>2 DEF IInv, Bounded
<1> QED
    BY <1>4 DEF IInv, MoneyTypeOK

\* A worker goes on to anything but a call.
LEMMA GoesOn ==
    ASSUME Fleet, IInv, UNCHANGED spent, NEW w \in Workers, NEW p \in Phase \ {"call"}, GoOn(w, p)
    PROVE  IInv'
<1>1. phase' \in [Workers -> Phase] /\ InCall' \subseteq InCall
    BY DEF IInv, MoneyTypeOK, GoOn, InCall
<1> QED
    BY <1>1, NoCall

-----------------------------------------------------------------------------
(* The invariant                                                           *)

LEMMA InitIInv == Init => IInv
BY DEF Init, IInv, MoneyTypeOK, Bounded, InCall, Phase

\* A call that is let through finds the month below its budget, whatever the other
\* workers are in the middle of.
LEMMA CheckIInv ==
    ASSUME Fleet, IInv, NEW w \in Workers, MeterCheck(w)
    PROVE  IInv'
<1>1. CASE BudgetExceeded
    BY <1>1, GoesOn DEF MeterCheck, Phase
<1>2. CASE ~BudgetExceeded
  <2>1. spent' = spent /\ spent \in Nat /\ spent < Cap /\ Cap \in Nat
    BY <1>2, ResearchConstantsOK DEF MeterCheck, BudgetExceeded, IInv, MoneyTypeOK
  <2>2. phase' \in [Workers -> Phase] /\ InCall' \subseteq Workers
    BY <1>2 DEF MeterCheck, GoOn, IInv, MoneyTypeOK, Phase, InCall
  <2>3. /\ Cardinality(InCall') \in Nat /\ Cardinality(Workers) \in Nat
        /\ Cardinality(InCall') <= Cardinality(Workers)
    BY <2>2, FS_Subset, FS_CardinalityType DEF Fleet
  <2>4. /\ Cardinality(InCall') * MaxCost \in Nat /\ Cardinality(Workers) * MaxCost \in Nat
        /\ Cardinality(InCall') * MaxCost <= Cardinality(Workers) * MaxCost
    BY <2>3, MaxCostBounds, TimesMonotone
  <2> QED
    BY <2>1, <2>2, <2>4 DEF IInv, MoneyTypeOK, Bounded, Committed
<1> QED
    BY <1>1, <1>2

\* A call that is recorded turns what it might cost into what it did.
LEMMA RecordIInv ==
    ASSUME Fleet, IInv, NEW w \in Workers, MeterRecord(w)
    PROVE  IInv'
<1>1. PICK p \in Providers : spent' = spent + Cost[p]
    BY DEF MeterRecord
<1>2. w \in InCall /\ spent \in Nat /\ MaxCost \in Nat /\ Cost[p] \in Nat /\ Cost[p] <= MaxCost
    BY MaxCostBounds DEF MeterRecord, At, InCall, IInv, MoneyTypeOK
<1>3. NextCall(w) \in Phase \ {"call"}
    BY DEF NextCall, Phase
<1>4. phase' \in [Workers -> Phase] /\ InCall' = InCall \ {w}
    BY <1>3 DEF MeterRecord, GoOn, IInv, MoneyTypeOK, InCall
<1>5. Cardinality(InCall) > 0 /\ Cardinality(InCall') = Cardinality(InCall) - 1
    BY <1>2, <1>4, InCallFinite, FS_RemoveElement, FS_EmptySet
<1>6. /\ Cardinality(InCall') * MaxCost + MaxCost = Cardinality(InCall) * MaxCost
      /\ Cardinality(InCall') * MaxCost \in Nat
  <2>1. Cardinality(InCall') \in Nat
    BY <1>5, InCallFinite
  <2> QED
    BY <1>2, <1>5, <2>1, InCallFinite, TimesLess, TimesMonotone
<1>7. Cardinality(Workers) * MaxCost \in Nat
    BY InCallFinite, MaxCostBounds, TimesMonotone
<1>8. Committed < Cap + Cardinality(Workers) * MaxCost
    BY <1>2 DEF IInv, Bounded
<1>9. Bounded'
    BY <1>1, <1>2, <1>6, <1>7, <1>8, ResearchConstantsOK DEF Bounded, Committed
<1> QED
    BY <1>1, <1>2, <1>4, <1>9 DEF IInv, MoneyTypeOK

LEMMA StepIInv == Fleet /\ IInv /\ [Next]_vars => IInv'
<1> SUFFICES ASSUME Fleet, IInv, [Next]_vars PROVE IInv'
    OBVIOUS
<1>1. ASSUME UNCHANGED <<spent, phase>> PROVE IInv'
    BY <1>1 DEF IInv, MoneyTypeOK, Bounded, Committed, InCall
<1>2. ASSUME NEW r \in Requests, Api(r) PROVE IInv'
    BY <1>1, <1>2 DEF Api, ApiCached, ApiGate, ApiCreate, ApiEnqueue, ApiEnqueueFails, workVars
<1>3. ASSUME NEW w \in Workers, WorkerStart(w) \/ WorkerConsume(w) PROVE IInv'
    BY <1>1, <1>3 DEF WorkerStart, WorkerConsume, workVars
<1>4. ASSUME NEW w \in Workers, WorkerLoad(w) PROVE IInv'
  <2>1. PICK p \in {"ack", "fail", "mark"} : GoOn(w, p)
    BY <1>4 DEF WorkerLoad
  <2> QED
    BY <1>4, <2>1, GoesOn DEF WorkerLoad, Phase
<1>5. ASSUME NEW w \in Workers, WorkerMark(w) PROVE IInv'
    BY <1>5, GoesOn DEF WorkerMark, GatherInputs, Phase
<1>6. ASSUME NEW w \in Workers, MeterCheck(w) PROVE IInv'
    BY <1>6, CheckIInv
<1>7. ASSUME NEW w \in Workers, MeterRecord(w) PROVE IInv'
    BY <1>7, RecordIInv
<1>8. ASSUME NEW w \in Workers, MeterFails(w) PROVE IInv'
    BY <1>8, GoesOn DEF MeterFails, Phase
<1>9. ASSUME NEW w \in Workers,
             \/ WorkerSave(w) \/ WorkerTranscript(w) \/ WorkerFail(w) \/ WorkerSaveFails(w)
      PROVE  IInv'
    BY <1>9, GoesOn DEF WorkerSave, WorkerTranscript, WorkerFail, WorkerSaveFails, Phase
<1>10. ASSUME NEW w \in Workers, WorkerAck(w) \/ WorkerCrash(w) PROVE IInv'
    BY <1>10, GoesOn DEF WorkerAck, WorkerCrash, Phase
<1>11. CASE ClockMoves
    BY <1>1, <1>11 DEF ClockMoves, workVars
<1>12. CASE UNCHANGED vars
    BY <1>1, <1>12 DEF vars, workVars
<1> QED
    BY <1>2, <1>3, <1>4, <1>5, <1>6, <1>7, <1>8, <1>9, <1>10, <1>11, <1>12 DEF Next, Worker

-----------------------------------------------------------------------------
(* The stream                                                              *)

\* Entries some consumer has been given.
Delivered == ToSet(SubSeq(stream, 1, delivered))

\* A job is sent once, and what is pending or in a worker's hands was delivered.
StreamInv ==
    /\ StreamTypeOK
    /\ IsInjective(stream)
    /\ pending \subseteq Delivered
    /\ \A w \in Workers : ToSet(batch[w]) \subseteq Delivered /\ IsInjective(batch[w])

LEMMA StreamSets ==
    ASSUME StreamInv
    PROVE  Delivered \subseteq ToSet(stream) /\ ToSet(stream) \subseteq Jobs
BY FirstSet, InToSet DEF StreamInv, StreamTypeOK, Delivered

LEMMA EnqueueStream ==
    ASSUME StreamInv, NEW j \in Jobs \ ToSet(stream), Enqueue(j)
    PROVE  /\ StreamInv'
           /\ ToSet(stream') = ToSet(stream) \cup {j}
           /\ Undelivered' = Undelivered \cup {j}
<1>1. /\ stream \in Seq(Jobs) /\ delivered \in 0..Len(stream) /\ Len(stream) \in Nat
      /\ stream' = Append(stream, j) /\ UNCHANGED <<delivered, pending, up, batch>>
    BY DEF StreamInv, StreamTypeOK, Enqueue
<1>2. /\ stream' \in Seq(Jobs) /\ Len(stream') = Len(stream) + 1
      /\ ToSet(stream') = ToSet(stream) \cup {j}
      /\ Undelivered' = Undelivered \cup {j}
      /\ Delivered' = Delivered
      /\ IsInjective(stream')
    BY <1>1, AppendTo, AppendSet, AppendKeepsFirst, InjectiveAppend
    DEF Undelivered, Delivered, StreamInv
<1>3. delivered' \in 0..Len(stream')
    BY <1>1, <1>2
<1> QED
    BY <1>1, <1>2, <1>3 DEF StreamInv, StreamTypeOK

LEMMA StartStream ==
    ASSUME StreamInv, NEW w \in Workers, StartConsumer(w)
    PROVE  /\ StreamInv' /\ \A v \in Workers \ {w} : batch'[v] = batch[v]
           /\ ToSet(batch'[w]) \subseteq pending
<1>1. PICK idle \in SUBSET pending : batch' = [batch EXCEPT ![w] = Among(stream, idle)]
    BY DEF StartConsumer
<1>2. /\ Among(stream, idle) \in Seq(Jobs)
      /\ ToSet(Among(stream, idle)) \subseteq idle
      /\ IsInjective(Among(stream, idle))
    BY AmongType, InjectiveAmong DEF StreamInv, StreamTypeOK
<1> QED
    BY <1>1, <1>2 DEF StreamInv, StreamTypeOK, StartConsumer, Delivered

LEMMA ConsumeStream ==
    ASSUME StreamInv, NEW w \in Workers, ConsumeBatch(w)
    PROVE  /\ StreamInv'
           /\ Owed' = Owed /\ ToSet(batch'[w]) \subseteq Owed
           /\ \A v \in Workers \ {w} : batch'[v] = batch[v]
           /\ ToSet(batch'[w]) \cap Delivered = {}
<1> DEFINE last == IF delivered + Count < Len(stream) THEN delivered + Count ELSE Len(stream)
           taken == SubSeq(stream, delivered + 1, last)
<1>1. /\ stream \in Seq(Jobs) /\ delivered \in 0..Len(stream) /\ Len(stream) \in Nat
      /\ IsInjective(stream) /\ UNCHANGED <<stream, up>>
      /\ batch' = [batch EXCEPT ![w] = taken] /\ delivered' = last
      /\ pending' = pending \cup ToSet(taken)
    BY DEF StreamInv, StreamTypeOK, ConsumeBatch
<1>2. last \in 0..Len(stream) /\ delivered \in 0..last
    BY <1>1, ResearchConstantsOK
<1> HIDE DEF last
<1>3. /\ taken \in Seq(Jobs) /\ ToSet(taken) \subseteq ToSet(stream)
      /\ Undelivered = ToSet(taken) \cup Undelivered'
    BY <1>1, <1>2, SplitSet DEF Undelivered
<1>4. /\ IsInjective(taken) /\ Delivered \cap ToSet(taken) = {}
      /\ Delivered' = Delivered \cup ToSet(taken)
    BY <1>1, <1>2, InjectiveSubSeq DEF Delivered
<1> HIDE DEF taken
<1>5. batch'[w] = taken /\ \A v \in Workers \ {w} : batch'[v] = batch[v]
    BY <1>1 DEF StreamInv, StreamTypeOK
<1>6. StreamTypeOK'
    BY <1>1, <1>2, <1>3, StreamSets DEF StreamInv, StreamTypeOK
<1>7. StreamInv'
    BY <1>1, <1>4, <1>5, <1>6 DEF StreamInv
<1>8. Owed' = Owed /\ ToSet(taken) \subseteq Owed
    BY <1>1, <1>3 DEF Owed
<1> QED
    BY <1>4, <1>5, <1>7, <1>8

LEMMA AckStream ==
    ASSUME StreamInv, NEW w \in Workers, batch[w] # <<>>, AckHead(w)
    PROVE  /\ StreamInv' /\ Undelivered' = Undelivered
           /\ pending' = pending \ {Job(w)}
           /\ \A v \in Workers \ {w} : batch'[v] = batch[v]
           /\ ToSet(batch'[w]) = ToSet(batch[w]) \ {Job(w)}
<1>1. batch[w] \in Seq(Jobs) /\ ToSet(batch[w]) \subseteq Delivered /\ IsInjective(batch[w])
    BY DEF StreamInv, StreamTypeOK
<1>2. /\ Tail(batch[w]) \in Seq(Jobs) /\ IsInjective(Tail(batch[w]))
      /\ ToSet(Tail(batch[w])) = ToSet(batch[w]) \ {Job(w)}
    BY <1>1, TailSet, InjectiveTail DEF Job
<1>3. /\ UNCHANGED <<stream, delivered, up>> /\ pending' = pending \ {Job(w)}
      /\ batch' = [batch EXCEPT ![w] = Tail(batch[w])]
    BY DEF AckHead, Job
<1> QED
    BY <1>1, <1>2, <1>3 DEF StreamInv, StreamTypeOK, Undelivered, Delivered

LEMMA StopStream ==
    ASSUME StreamInv, NEW w \in Workers, StopConsumer(w)
    PROVE  /\ StreamInv' /\ \A v \in Workers \ {w} : batch'[v] = batch[v]
           /\ batch'[w] = <<>>
<1>1. <<>> \in Seq(Jobs) /\ ToSet(<<>>) = {} /\ IsInjective(<<>>)
    BY DEF ToSet, IsInjective
<1> QED
    BY <1>1 DEF StreamInv, StreamTypeOK, StopConsumer, Delivered

-----------------------------------------------------------------------------
(* No accepted run loses its job                                           *)

\* A worker that has nothing in hand starts with the next job from its beginning; one
\* that may still call has calls left.
PhasesOK ==
    \A w \in Workers :
        /\ w \notin up => batch[w] = <<>>
        /\ batch[w] = <<>> => phase[w] = "load"
        /\ phase[w] \in {"load", "mark", "meter", "call"} => called[w] < Calls

\* A note gets its row before its job is sent.
SentLast ==
    \A r \in Requests :
        /\ api[r] \in {"start", "missed", "create"} => status[r] = None
        /\ api[r] # "done" => r \notin ToSet(stream)

\* A run that has not started is on its way to a worker, whoever was told of it.
QueuedAreHeld ==
    \A r \in Requests :
        status[r] = "queued" => r \in Undelivered \cup pending \cup lost \/ api[r] = "enqueue"

\* A worker marks the note before it goes on, or ends it.
BegunAreMarked ==
    \A w \in Workers :
        phase[w] \notin {"load", "mark", "fail"} => status[Job(w)] # "queued" \/ Job(w) \in lost

RunInv ==
    /\ TypeOK /\ StreamInv /\ PhasesOK
    /\ SentLast /\ QueuedAreHeld /\ BegunAreMarked

LEMMA InitRunInv == Init => RunInv
<1> SUFFICES ASSUME Init PROVE RunInv
    OBVIOUS
<1>1. /\ <<>> \in Seq(Jobs) /\ <<>> \in Seq(Requests) /\ Len(<<>>) = 0 /\ 0 \in 0..0
      /\ ToSet(<<>>) = {} /\ IsInjective(<<>>)
    BY DEF ToSet, IsInjective
<1>2. StreamInv
    BY <1>1 DEF Init, StreamInit, StreamInv, StreamTypeOK
<1>3. Calls \in Nat /\ 0 < Calls /\ 0 \in 0..Calls /\ 0 \in 0..MaxFaults /\ 0 \in Nat
    BY ResearchConstantsOK
<1>4. TypeOK
    BY <1>1, <1>2, <1>3 DEF Init, TypeOK, ApiPC, Phase, StreamInv
<1> QED
    BY <1>1, <1>2, <1>3, <1>4 DEF Init, StreamInit, RunInv, PhasesOK, SentLast, QueuedAreHeld,
        BegunAreMarked, None

\* The job a worker has in hand is one of the stream's.
LEMMA JobInHand ==
    ASSUME RunInv, NEW w \in Workers, batch[w] # <<>>
    PROVE  /\ Job(w) \in ToSet(batch[w]) /\ Job(w) \in ToSet(stream)
           /\ Job(w) \in Requests /\ api[Job(w)] = "done"
<1>1. batch[w] \in Seq(Jobs) /\ ToSet(batch[w]) \subseteq ToSet(stream)
    BY StreamSets DEF RunInv, StreamInv, StreamTypeOK
<1> QED
    BY <1>1, TailSet DEF Job, Requests, RunInv, SentLast

\* A step of the API keeps the type invariant.
LEMMA ApiTypes ==
    ASSUME RunInv, NEW r \in Requests, Api(r)
    PROVE  TypeOK' /\ StreamInv'
<1>1. StreamInv'
  <2>1. CASE Enqueue(r) /\ api[r] = "enqueue"
    BY <2>1, EnqueueStream DEF RunInv, SentLast, Requests
  <2>2. CASE UNCHANGED streamVars
    BY <2>2 DEF RunInv, StreamInv, StreamTypeOK, Delivered, streamVars
  <2> QED
    BY <2>1, <2>2 DEF Api, ApiCached, ApiGate, ApiCreate, ApiEnqueue, ApiEnqueueFails
<1>2. rows' \in Seq(Requests) /\ old' \in 0..Len(rows')
  <2>1. rows \in Seq(Requests) /\ Len(rows) \in Nat /\ old \in 0..Len(rows) /\ old' = old
    BY DEF RunInv, TypeOK, Api, ApiCached, ApiGate, ApiCreate, ApiEnqueue, ApiEnqueueFails
  <2>2. CASE rows' = rows
    BY <2>1, <2>2
  <2>3. CASE rows' = Append(rows, r)
    <3>1. rows' \in Seq(Requests) /\ Len(rows') = Len(rows) + 1
      BY <2>1, <2>3
    <3> QED
      BY <2>1, <3>1
  <2> QED
    BY <2>2, <2>3 DEF noteVars, Api, ApiCached, ApiGate, ApiCreate, ApiEnqueue, ApiEnqueueFails
<1>3. /\ status' \in [Requests -> InFlight \cup Finished \cup {None}]
      /\ {author', transcript'} \subseteq [Requests -> Workers \cup {None}]
      /\ spent' \in Nat /\ phase' \in [Workers -> Phase] /\ called' \in [Workers -> 0..Calls]
      /\ lost' \cup overlapped' \subseteq Requests
    BY DEF RunInv, TypeOK, InFlight, noteVars, workVars, Api, ApiCached, ApiGate, ApiCreate,
        ApiEnqueue, ApiEnqueueFails
<1>4. api' \in [Requests -> ApiPC] /\ reply' \in [Requests -> Requests \cup {None, "error"}]
  <2>1. \A n \in Nat \ {0} : \A wanted : Newest(r, n, wanted) \subseteq Requests
    <3> SUFFICES ASSUME NEW n \in Nat \ {0}, NEW i \in n..Len(rows) PROVE rows[i] \in Requests
      BY DEF Newest
    <3> QED
      BY DEF RunInv, TypeOK
  <2>2. old + 1 \in Nat \ {0}
    BY DEF RunInv, TypeOK
  <2>3. Newest(r, old + 1, {"succeeded"}) \subseteq Requests /\ Newest(r, 1, InFlight) \subseteq Requests
    BY <2>1, <2>2
  <2>4. CASE UNCHANGED reply /\ \E pc \in ApiPC : Goto(r, pc)
    BY <2>4 DEF RunInv, TypeOK, Goto
  <2>5. CASE \E a \in Requests \cup {"error"} : Answer(r, a)
    BY <2>5 DEF RunInv, TypeOK, Goto, Answer, ApiPC
  <2> QED
    BY <2>3, <2>4, <2>5 DEF Api, ApiCached, ApiGate, ApiCreate, ApiEnqueue, ApiEnqueueFails, ApiPC
<1>5. faults' \in 0..MaxFaults
    BY ResearchConstantsOK, SMTT(30) DEF RunInv, TypeOK, Fault, Api, ApiCached, ApiGate,
        ApiCreate, ApiEnqueue, ApiEnqueueFails
<1> QED
    BY <1>1, <1>2, <1>3, <1>4, <1>5 DEF TypeOK, StreamInv

LEMMA ApiRunInv ==
    ASSUME RunInv, NEW r \in Requests, Api(r)
    PROVE  RunInv'
<1>0. /\ TypeOK' /\ StreamInv' /\ TypeOK /\ StreamInv
      /\ UNCHANGED <<pending, delivered, up, batch, phase, called>>
      /\ lost \subseteq lost'
      /\ \A q \in Requests \ {r} : status'[q] = status[q] /\ api'[q] = api[q]
    BY ApiTypes, ZenonT(40) DEF RunInv, TypeOK, streamVars, noteVars, workVars, Api, ApiCached,
        ApiGate, ApiCreate, ApiEnqueue, ApiEnqueueFails, Enqueue, Goto, Answer
<1>1. PhasesOK'
    BY <1>0 DEF RunInv, PhasesOK
<1>2. ASSUME \A q \in Requests : q \in ToSet(stream) => status'[q] = status[q]
      PROVE  BegunAreMarked'
  <2> SUFFICES ASSUME NEW w \in Workers, phase[w] \notin {"load", "mark", "fail"}
               PROVE  status'[Job(w)] # "queued" \/ Job(w) \in lost'
    BY <1>0 DEF BegunAreMarked, Job
  <2>1. batch[w] # <<>> /\ (status[Job(w)] # "queued" \/ Job(w) \in lost)
    BY DEF RunInv, PhasesOK, BegunAreMarked
  <2> QED
    BY <1>0, <1>2, <2>1, JobInHand
<1>3. CASE ApiCached(r) \/ ApiGate(r)
  <2>1. /\ UNCHANGED <<stream, status, lost>> /\ Undelivered' = Undelivered
        /\ api[r] \in {"start", "missed"} /\ api'[r] # "enqueue"
    BY <1>0, <1>3 DEF ApiCached, ApiGate, streamVars, noteVars, Undelivered, TypeOK, Goto, Answer
  <2>2. SentLast' /\ QueuedAreHeld'
    BY <1>0, <2>1 DEF RunInv, SentLast, QueuedAreHeld
  <2> QED
    BY <1>0, <1>1, <1>2, <2>1, <2>2 DEF RunInv
<1>4. CASE ApiCreate(r)
  <2>1. /\ UNCHANGED <<stream, lost>> /\ Undelivered' = Undelivered
        /\ api[r] = "create" /\ api'[r] = "enqueue"
    BY <1>0, <1>4 DEF ApiCreate, streamVars, Undelivered, TypeOK, Goto
  <2>2. SentLast' /\ QueuedAreHeld'
    BY <1>0, <2>1 DEF RunInv, SentLast, QueuedAreHeld
  <2>3. \A q \in Requests : q \in ToSet(stream) => status'[q] = status[q]
    BY <1>0, <2>1 DEF RunInv, SentLast
  <2> QED
    BY <1>0, <1>1, <1>2, <2>2, <2>3 DEF RunInv
<1>5. CASE ApiEnqueue(r) \/ ApiEnqueueFails(r)
  <2>1. /\ api[r] = "enqueue" /\ api'[r] = "done" /\ status' = status
        /\ \/ Enqueue(r)
           \/ UNCHANGED streamVars /\ r \in lost'
    BY <1>0, <1>5 DEF ApiEnqueue, ApiEnqueueFails, noteVars, TypeOK, Goto, Answer
  <2>2. CASE Enqueue(r)
    <3>1. /\ ToSet(stream') = ToSet(stream) \cup {r}
          /\ Undelivered' = Undelivered \cup {r}
      BY <2>1, <2>2, EnqueueStream DEF RunInv, SentLast, Requests
    <3>2. SentLast' /\ QueuedAreHeld'
      BY <1>0, <2>1, <3>1 DEF RunInv, SentLast, QueuedAreHeld
    <3> QED
      BY <1>0, <1>1, <1>2, <2>1, <3>2 DEF RunInv
  <2>3. CASE UNCHANGED streamVars /\ r \in lost'
    <3>1. stream' = stream /\ Undelivered' = Undelivered
      BY <2>3 DEF streamVars, Undelivered
    <3>2. SentLast' /\ QueuedAreHeld'
      BY <1>0, <2>1, <2>3, <3>1 DEF RunInv, SentLast, QueuedAreHeld
    <3> QED
      BY <1>0, <1>1, <1>2, <2>1, <3>2 DEF RunInv
  <2> QED
    BY <2>1, <2>2, <2>3
<1> QED
    BY <1>3, <1>4, <1>5 DEF Api

\* Every step of a worker keeps the type invariant.
LEMMA WorkerTypes ==
    ASSUME RunInv, NEW w \in Workers, Worker(w)
    PROVE  TypeOK' /\ StreamInv'
<1>1. ASSUME batch[w] # <<>> PROVE Job(w) \in Requests
    BY <1>1, JobInHand
<1>2. StreamInv'
  <2>1. CASE StartConsumer(w) \/ ConsumeBatch(w) \/ StopConsumer(w)
    BY <2>1, StartStream, ConsumeStream, StopStream DEF RunInv
  <2>2. CASE batch[w] # <<>> /\ AckHead(w)
    BY <2>2, AckStream DEF RunInv
  <2>3. CASE UNCHANGED streamVars
    BY <2>3 DEF RunInv, StreamInv, StreamTypeOK, Delivered, streamVars
  <2> QED
    BY <2>1, <2>2, <2>3 DEF Worker, WorkerStart, WorkerConsume, WorkerLoad, WorkerMark, MeterCheck,
        MeterRecord, MeterFails, WorkerSave, WorkerTranscript, WorkerFail, WorkerSaveFails,
        WorkerAck, WorkerCrash, JobStep, At
<1>3. UNCHANGED <<rows, old, apiVars>>
    BY DEF noteVars, Worker, WorkerStart, WorkerConsume, WorkerLoad, WorkerMark, MeterCheck,
        MeterRecord, MeterFails, WorkerSave, WorkerTranscript, WorkerFail, WorkerSaveFails,
        WorkerAck, WorkerCrash, JobStep
<1>4. /\ status' \in [Requests -> InFlight \cup Finished \cup {None}]
      /\ {author', transcript'} \subseteq [Requests -> Workers \cup {None}]
      /\ lost' \subseteq Requests
  <2>0. /\ status \in [Requests -> InFlight \cup Finished \cup {None}]
        /\ author \in [Requests -> Workers \cup {None}]
        /\ transcript \in [Requests -> Workers \cup {None}]
        /\ lost \subseteq Requests
    BY DEF RunInv, TypeOK
  <2>1. CASE WorkerMark(w) \/ WorkerSave(w) \/ WorkerFail(w) \/ WorkerSaveFails(w)
             \/ WorkerTranscript(w)
    <3>1. CASE WorkerMark(w)
      BY <2>0, <3>1 DEF InFlight, WorkerMark
    <3>2. CASE WorkerSave(w)
      BY <2>0, <3>2 DEF Finished, WorkerSave
    <3>3. CASE WorkerFail(w)
      BY <2>0, <3>3 DEF Finished, WorkerFail
    <3>4. CASE WorkerSaveFails(w)
      BY <1>1, <2>0, <3>4 DEF WorkerSaveFails, At
    <3>5. CASE WorkerTranscript(w)
      BY <2>0, <3>5 DEF WorkerTranscript
    <3> QED
      BY <2>1, <3>1, <3>2, <3>3, <3>4, <3>5
  <2>2. CASE UNCHANGED <<status, author, transcript, lost>>
    BY <2>2 DEF RunInv, TypeOK
  <2> QED
    BY <2>1, <2>2 DEF noteVars, Worker, WorkerStart, WorkerConsume, WorkerLoad, MeterCheck,
        MeterRecord, MeterFails, WorkerAck, WorkerCrash
<1>5. overlapped' \subseteq Requests
  <2>1. ToSet(batch'[w]) \subseteq Requests
    BY <1>2, StreamSets DEF RunInv, StreamInv, StreamTypeOK, Requests, ToSet
  <2> QED
    BY <2>1 DEF RunInv, TypeOK, Worker, WorkerStart, WorkerConsume, WorkerLoad, WorkerMark,
        MeterCheck, MeterRecord, MeterFails, WorkerSave, WorkerTranscript, WorkerFail,
        WorkerSaveFails, WorkerAck, WorkerCrash, JobStep
<1>6. phase' \in [Workers -> Phase]
  <2>1. CASE \E p \in Phase : GoOn(w, p)
    BY <2>1 DEF RunInv, TypeOK, GoOn
  <2>2. CASE phase' = phase
    BY <2>2 DEF RunInv, TypeOK
  <2>3. NextCall(w) \in Phase
    BY DEF NextCall, Phase
  <2>4. WorkerLoad(w) => \E p \in {"ack", "fail", "mark"} : GoOn(w, p)
    BY DEF WorkerLoad
  <2> QED
    BY <2>1, <2>2, <2>3, <2>4 DEF Phase, Worker, WorkerStart, WorkerConsume, WorkerMark,
        MeterCheck, MeterRecord, MeterFails, WorkerSave, WorkerTranscript, WorkerFail,
        WorkerSaveFails, WorkerAck, WorkerCrash, GatherInputs, workVars
<1>7. spent' \in Nat /\ called' \in [Workers -> 0..Calls] /\ faults' \in 0..MaxFaults
  <2>1. CASE MeterRecord(w)
    <3>1. spent' \in Nat
      BY <2>1, ResearchConstantsOK, SMTT(30) DEF MeterRecord, RunInv, TypeOK
    <3>2. called[w] \in 0..Calls /\ called[w] < Calls /\ Calls \in Nat
      BY <2>1, ResearchConstantsOK DEF MeterRecord, At, RunInv, TypeOK, PhasesOK
    <3>3. called[w] + 1 \in 0..Calls
      BY <3>2
    <3>4. faults' = faults /\ called' = [called EXCEPT ![w] = called[w] + 1]
      BY <2>1 DEF MeterRecord
    <3> QED
      BY <3>1, <3>3, <3>4 DEF MeterRecord, RunInv, TypeOK
  <2>2. CASE spent' = spent /\ (called' = called \/ called' = [called EXCEPT ![w] = 0])
             /\ (faults' = faults \/ Fault)
    <3>1. Calls \in Nat /\ 0 \in 0..Calls /\ MaxFaults \in Nat
      BY ResearchConstantsOK
    <3>2. faults' \in 0..MaxFaults
      BY <2>2, <3>1 DEF RunInv, TypeOK, Fault
    <3> QED
      BY <2>2, <3>1, <3>2 DEF RunInv, TypeOK
  <2> QED
    BY <2>1, <2>2 DEF Worker, WorkerStart, WorkerConsume, WorkerLoad, WorkerMark, MeterCheck,
        MeterFails, WorkerSave, WorkerTranscript, WorkerFail, WorkerSaveFails, WorkerAck,
        WorkerCrash, workVars
<1> QED
    BY <1>2, <1>3, <1>4, <1>5, <1>6, <1>7 DEF RunInv, TypeOK, StreamInv, apiVars

\* What a step of a worker on its job changes: the worker, the note of its job.
WorksOn(w) ==
    \/ WorkerLoad(w) \/ WorkerMark(w) \/ MeterCheck(w) \/ MeterRecord(w) \/ MeterFails(w)
    \/ WorkerSave(w) \/ WorkerTranscript(w) \/ WorkerFail(w) \/ WorkerSaveFails(w)

LEMMA WorkChanges ==
    ASSUME RunInv, NEW w \in Workers, WorksOn(w)
    PROVE  /\ batch[w] # <<>> /\ w \in up
           /\ UNCHANGED <<streamVars, apiVars, overlapped>> /\ lost \subseteq lost'
           /\ \A v \in Workers \ {w} : phase'[v] = phase[v] /\ called'[v] = called[v]
           /\ \A q \in Requests \ {Job(w)} : /\ status'[q] = status[q] /\ author'[q] = author[q]
                                             /\ transcript'[q] = transcript[q]
           /\ status'[Job(w)] = "queued" => status[Job(w)] = "queued"
           /\ phase'[w] \notin {"load", "mark", "fail"} =>
                  status'[Job(w)] # "queued" \/ Job(w) \in lost'
           /\ phase'[w] \in {"load", "mark", "meter", "call"} => called'[w] < Calls
<1>0. TypeOK /\ batch[w] # <<>> /\ w \in up /\ UNCHANGED <<streamVars, apiVars, overlapped>>
    BY DEF RunInv, WorksOn, WorkerLoad, WorkerMark, MeterCheck, MeterRecord, MeterFails,
        WorkerSave, WorkerTranscript, WorkerFail, WorkerSaveFails, At, JobStep
<1>1. lost \subseteq lost' /\ \A v \in Workers \ {w} : phase'[v] = phase[v] /\ called'[v] = called[v]
    BY <1>0 DEF TypeOK, WorksOn, WorkerLoad, WorkerMark, MeterCheck, MeterRecord, MeterFails,
        WorkerSave, WorkerTranscript, WorkerFail, WorkerSaveFails, GoOn, GatherInputs
<1>2. Job(w) \in Requests
    BY <1>0, JobInHand
<1>3. /\ \A q \in Requests \ {Job(w)} : /\ status'[q] = status[q] /\ author'[q] = author[q]
                                        /\ transcript'[q] = transcript[q]
      /\ status'[Job(w)] = "queued" => status[Job(w)] = "queued"
    BY <1>0, <1>2 DEF TypeOK, WorksOn, WorkerLoad, WorkerMark, MeterCheck, MeterRecord, MeterFails,
        WorkerSave, WorkerTranscript, WorkerFail, WorkerSaveFails
<1>4. /\ phase[w] \notin {"load", "mark", "fail"} => status[Job(w)] # "queued" \/ Job(w) \in lost
      /\ phase[w] \in {"load", "mark", "meter", "call"} => called[w] < Calls
    BY DEF RunInv, BegunAreMarked, PhasesOK
<1>5. phase'[w] \notin {"load", "mark", "fail"} => status'[Job(w)] # "queued" \/ Job(w) \in lost'
  <2>1. CASE WorkerLoad(w)
    <3>1. /\ status' = status
          /\ \/ phase'[w] = "ack" /\ status[Job(w)] \in Finished
             \/ phase'[w] \in {"fail", "mark"}
      BY <2>1, <1>0 DEF WorkerLoad, GoOn, TypeOK
    <3> QED
      BY <3>1 DEF Finished
  <2>2. CASE WorkerMark(w) \/ WorkerSave(w) \/ WorkerFail(w) \/ WorkerSaveFails(w)
    BY <1>0, <1>2, <2>2 DEF TypeOK, WorkerMark, WorkerSave, WorkerFail, WorkerSaveFails
  <2>3. CASE MeterCheck(w) \/ MeterRecord(w) \/ MeterFails(w) \/ WorkerTranscript(w)
    <3>1. /\ phase[w] \in {"meter", "call", "transcript"} /\ status' = status /\ lost' = lost
      BY <2>3 DEF MeterCheck, MeterRecord, MeterFails, WorkerTranscript, At
    <3> QED
      BY <1>4, <3>1
  <2> QED
    BY <2>1, <2>2, <2>3 DEF WorksOn
<1>6. phase'[w] \in {"load", "mark", "meter", "call"} => called'[w] < Calls
  <2>1. CASE MeterRecord(w)
    <3>1. /\ called[w] \in 0..Calls /\ called[w] < Calls /\ Calls \in Nat
          /\ called'[w] = called[w] + 1 /\ phase'[w] = NextCall(w)
      BY <1>0, <1>4, <2>1, ResearchConstantsOK DEF MeterRecord, At, GoOn, TypeOK
    <3>2. CASE called[w] + 1 = Calls
      BY <3>1, <3>2 DEF NextCall
    <3>3. CASE called[w] + 1 # Calls
      BY <3>1, <3>3
    <3> QED
      BY <3>2, <3>3
  <2>2. CASE WorkerLoad(w)
    BY <1>4, <2>2 DEF WorkerLoad, At
  <2>3. CASE WorkerMark(w) \/ MeterCheck(w) \/ MeterFails(w) \/ WorkerSave(w)
             \/ WorkerTranscript(w) \/ WorkerFail(w) \/ WorkerSaveFails(w)
    BY <1>0, <1>4, <2>3 DEF TypeOK, WorkerMark, MeterCheck, MeterFails, WorkerSave,
        WorkerTranscript, WorkerFail, WorkerSaveFails, GoOn, At
  <2> QED
    BY <2>1, <2>2, <2>3 DEF WorksOn
<1> QED
    BY <1>0, <1>1, <1>3, <1>5, <1>6

LEMMA WorkRunInv ==
    ASSUME RunInv, NEW w \in Workers, WorksOn(w)
    PROVE  RunInv'
<1>0. TypeOK' /\ StreamInv'
    BY WorkerTypes DEF Worker, WorksOn
<1> DEFINE j == Job(w)
<1>1. /\ batch[w] # <<>> /\ w \in up
      /\ UNCHANGED <<streamVars, apiVars, overlapped>> /\ lost \subseteq lost'
      /\ \A v \in Workers \ {w} : phase'[v] = phase[v] /\ called'[v] = called[v]
      /\ \A q \in Requests \ {j} : status'[q] = status[q]
      /\ status'[j] = "queued" => status[j] = "queued"
      /\ phase'[w] \notin {"load", "mark", "fail"} => status'[j] # "queued" \/ j \in lost'
      /\ phase'[w] \in {"load", "mark", "meter", "call"} => called'[w] < Calls
    BY WorkChanges
<1>2. j \in Requests /\ api[j] = "done" /\ \A v \in Workers : Job(v)' = Job(v)
    BY <1>1, JobInHand DEF streamVars, Job
<1>3. UNCHANGED <<stream, pending, up, batch, api>> /\ Undelivered' = Undelivered
    BY <1>1 DEF streamVars, apiVars, Undelivered
<1> HIDE DEF j
<1>4. PhasesOK'
    BY <1>1, <1>3 DEF RunInv, PhasesOK
<1>5. SentLast'
    BY <1>1, <1>2, <1>3 DEF RunInv, SentLast
<1>6. QueuedAreHeld'
    BY <1>1, <1>2, <1>3 DEF RunInv, QueuedAreHeld
<1>7. BegunAreMarked'
  <2> SUFFICES ASSUME NEW v \in Workers, phase'[v] \notin {"load", "mark", "fail"}
               PROVE  status'[Job(v)] # "queued" \/ Job(v) \in lost'
    BY <1>2 DEF BegunAreMarked
  <2>1. CASE v = w
    BY <1>1, <2>1 DEF j
  <2>2. CASE v # w
    <3>1. phase[v] \notin {"load", "mark", "fail"}
      BY <1>1, <2>2
    <3>2. batch[v] # <<>> /\ (status[Job(v)] # "queued" \/ Job(v) \in lost)
      BY <3>1 DEF RunInv, PhasesOK, BegunAreMarked
    <3>3. Job(v) \in Requests
      BY <3>2, JobInHand
    <3> QED
      BY <1>1, <3>2, <3>3
  <2> QED
    BY <2>1, <2>2
<1> QED
    BY <1>0, <1>4, <1>5, <1>6, <1>7 DEF RunInv

\* A worker takes, reclaims or loses jobs; it has nothing in hand yet, or any more.
LEMMA TakeChanges ==
    ASSUME RunInv, NEW w \in Workers, WorkerStart(w) \/ WorkerConsume(w) \/ WorkerCrash(w)
    PROVE  /\ UNCHANGED <<stream, noteVars, apiVars, lost>>
           /\ phase'[w] = "load" /\ called'[w] < Calls
           /\ \A v \in Workers \ {w} : /\ phase'[v] = phase[v] /\ called'[v] = called[v]
                                       /\ batch'[v] = batch[v] /\ (v \in up' <=> v \in up)
           /\ w \notin up' => batch'[w] = <<>>
           /\ Undelivered \cup pending \subseteq Undelivered' \cup pending'
<1>1. CASE WorkerStart(w)
  <2>1. UNCHANGED <<stream, delivered, pending>>
    BY <1>1 DEF WorkerStart, StartConsumer
  <2> QED
    BY <1>1, <2>1, StartStream DEF RunInv, PhasesOK, WorkerStart, StartConsumer, workVars,
        Undelivered
<1>2. CASE WorkerConsume(w)
    BY <1>2, ConsumeStream DEF RunInv, PhasesOK, WorkerConsume, ConsumeBatch, workVars, Owed
<1>3. CASE WorkerCrash(w)
  <2>1. 0 < Calls
    BY ResearchConstantsOK
  <2>2. UNCHANGED <<stream, delivered, pending>> /\ up' = up \ {w}
    BY <1>3 DEF WorkerCrash, StopConsumer
  <2> QED
    BY <1>3, <2>1, <2>2, StopStream DEF RunInv, TypeOK, WorkerCrash, GoOn, Undelivered
<1> QED
    BY <1>1, <1>2, <1>3

LEMMA TakeRunInv ==
    ASSUME RunInv, NEW w \in Workers, WorkerStart(w) \/ WorkerConsume(w) \/ WorkerCrash(w)
    PROVE  RunInv'
<1>1. TypeOK' /\ StreamInv'
    BY WorkerTypes DEF Worker
<1>2. PhasesOK'
    BY TakeChanges DEF RunInv, PhasesOK
<1>3. UNCHANGED <<stream, status, api, lost>>
    BY TakeChanges DEF noteVars, apiVars
<1>4. SentLast'
    BY <1>3 DEF RunInv, SentLast
<1>5. QueuedAreHeld'
    BY <1>3, TakeChanges DEF RunInv, QueuedAreHeld
<1>6. BegunAreMarked'
    BY <1>3, TakeChanges DEF RunInv, BegunAreMarked, Job
<1> QED
    BY <1>1, <1>2, <1>4, <1>5, <1>6 DEF RunInv

\* The ack drops a job that was marked, or whose outcome could not be written.
LEMMA AckRunInv ==
    ASSUME RunInv, NEW w \in Workers, WorkerAck(w)
    PROVE  RunInv'
<1>1. TypeOK' /\ StreamInv' /\ UNCHANGED <<stream, up, status, api, lost>>
    BY WorkerTypes DEF Worker, WorkerAck, AckHead, noteVars, apiVars
<1>2. /\ phase[w] = "ack" /\ phase'[w] = "load" /\ w \in up /\ called'[w] = 0 /\ 0 < Calls
      /\ \A v \in Workers \ {w} : /\ phase'[v] = phase[v] /\ called'[v] = called[v]
                                  /\ batch'[v] = batch[v]
      /\ pending' = pending \ {Job(w)} /\ Undelivered' = Undelivered
    BY AckStream, ResearchConstantsOK DEF RunInv, TypeOK, WorkerAck, At, GoOn
<1>3. PhasesOK' /\ BegunAreMarked'
    BY <1>1, <1>2 DEF RunInv, PhasesOK, BegunAreMarked, Job
<1>4. SentLast'
    BY <1>1 DEF RunInv, SentLast
<1>5. QueuedAreHeld'
    BY <1>1, <1>2 DEF RunInv, QueuedAreHeld, BegunAreMarked
<1> QED
    BY <1>1, <1>3, <1>4, <1>5 DEF RunInv

LEMMA ClockRunInv == RunInv /\ ClockMoves => RunInv'
<1> SUFFICES ASSUME RunInv, ClockMoves PROVE RunInv'
    OBVIOUS
<1>1. old' \in 0..Len(rows)
    BY DEF RunInv, TypeOK, ClockMoves
<1> QED
    BY <1>1 DEF RunInv, TypeOK, StreamInv, StreamTypeOK, Delivered, Undelivered, PhasesOK, SentLast,
        QueuedAreHeld, BegunAreMarked, Job, ClockMoves, streamVars, noteVars, apiVars, workVars

LEMMA StepRunInv == RunInv /\ [Next]_vars => RunInv'
<1> SUFFICES ASSUME RunInv, [Next]_vars PROVE RunInv'
    OBVIOUS
<1>1. ASSUME NEW r \in Requests, Api(r) PROVE RunInv'
    BY <1>1, ApiRunInv
<1>2. ASSUME NEW w \in Workers, Worker(w) PROVE RunInv'
    BY <1>2, TakeRunInv, WorkRunInv, AckRunInv DEF Worker, WorksOn
<1>3. CASE UNCHANGED vars
    BY <1>3 DEF vars, streamVars, noteVars, apiVars, workVars, RunInv, TypeOK, StreamInv,
        StreamTypeOK, Delivered, Undelivered, PhasesOK, SentLast, QueuedAreHeld, BegunAreMarked, Job
<1> QED
    BY <1>1, <1>2, <1>3, ClockRunInv DEF Next

-----------------------------------------------------------------------------
(* The workers deliver at least once                                       *)

\* A job that was delivered is not delivered again by the group: only a reclaim
\* hands it out once more.
LEMMA DeliveredOnce ==
    ASSUME StreamInv
    PROVE  Delivered \cap Undelivered = {} /\ Undelivered \subseteq ToSet(stream)
<1>1. /\ stream \in Seq(Jobs) /\ IsInjective(stream) /\ delivered \in 0..Len(stream)
      /\ Len(stream) \in 0..Len(stream)
    BY DEF StreamInv, StreamTypeOK
<1> QED
    BY <1>1, InjectiveSubSeq, SplitSet DEF Delivered, Undelivered

\* The mapped state after a step of one worker.
LEMMA OneMoves ==
    ASSUME NEW w \in Workers,
           \A v \in Workers \ {w} : batch'[v] = batch[v] /\ phase'[v] = phase[v]
    PROVE  /\ Hands' = [Hands EXCEPT ![w] = ToSet(batch'[w])]
           /\ SeenThrough' =
                  [SeenThrough EXCEPT ![w] = {j \in ToSet(batch'[w]) :
                                                 phase'[w] = "ack" /\ j = Head(batch'[w])}]
<1>1. Hands' = [Hands EXCEPT ![w] = ToSet(batch'[w])]
    BY DEF Hands
<1>2. \A v \in Workers \ {w} : SeenThrough'[v] = SeenThrough[v]
    BY DEF SeenThrough, Job
<1>3. SeenThrough'[w] = {j \in ToSet(batch'[w]) : phase'[w] = "ack" /\ j = Head(batch'[w])}
    BY DEF SeenThrough, Job
<1>4. DOMAIN SeenThrough = Workers /\ DOMAIN SeenThrough' = Workers
    BY DEF SeenThrough
<1> QED
    BY <1>1, <1>2, <1>3, <1>4 DEF SeenThrough

\* A step that leaves the stream and the workers alone is a stutter of the queue.
LEMMA Stutters ==
    UNCHANGED <<streamVars, phase>> => UNCHANGED Delivery!vars
BY DEF streamVars, Delivery!vars, Owed, Hands, SeenThrough, Undelivered, Job

\* Putting a job into the stream, whatever the API does besides.
LEMMA SendDelivers ==
    ASSUME StreamInv, NEW r \in Requests, r \notin ToSet(stream), Enqueue(r), UNCHANGED phase
    PROVE  Delivery!Next
<1>1. r \in Jobs /\ UNCHANGED <<pending, batch>>
    BY DEF Requests, Enqueue
<1>2. ToSet(stream)' = ToSet(stream) \cup {r} /\ Owed' = Owed \cup {r}
    BY <1>1, EnqueueStream DEF Owed
<1>3. UNCHANGED <<Hands, SeenThrough>>
    BY <1>1 DEF Hands, SeenThrough, Job
<1> QED
    BY <1>1, <1>2, <1>3 DEF Delivery!Next, Delivery!Send

\* Every step of the API is a send or a stutter of the queue.
LEMMA ApiDelivers ==
    ASSUME RunInv, NEW r \in Requests, Api(r)
    PROVE  [Delivery!Next]_(Delivery!vars)
<1>1. UNCHANGED phase
    BY DEF Api, ApiCached, ApiGate, ApiCreate, ApiEnqueue, ApiEnqueueFails, workVars
<1>2. \/ UNCHANGED streamVars
      \/ Enqueue(r) /\ r \notin ToSet(stream)
    BY DEF Api, ApiCached, ApiGate, ApiCreate, ApiEnqueue, ApiEnqueueFails, RunInv, SentLast
<1> QED
    BY <1>1, <1>2, Stutters, SendDelivers DEF RunInv

\* Taking, reclaiming and losing jobs.
LEMMA TakeDelivers ==
    ASSUME RunInv, NEW w \in Workers, WorkerStart(w) \/ WorkerConsume(w) \/ WorkerCrash(w)
    PROVE  Delivery!Next
<1>1. /\ phase'[w] = "load" /\ UNCHANGED stream
      /\ \A v \in Workers \ {w} : batch'[v] = batch[v] /\ phase'[v] = phase[v]
    BY TakeChanges
<1>2. /\ Hands' = [Hands EXCEPT ![w] = ToSet(batch'[w])]
      /\ SeenThrough' = [SeenThrough EXCEPT ![w] = {}]
    BY <1>1, OneMoves
<1>3. CASE WorkerStart(w) \/ WorkerConsume(w)
  <2>1. Owed' = Owed /\ ToSet(batch'[w]) \subseteq Owed
    BY <1>3, StartStream, ConsumeStream DEF RunInv, WorkerStart, WorkerConsume, StartConsumer,
        Owed, Undelivered
  <2>2. batch[w] = <<>> /\ ToSet(<<>>) = {}
    BY <1>3 DEF RunInv, PhasesOK, WorkerStart, WorkerConsume, StartConsumer, ConsumeBatch, ToSet
  <2>3. Hands[w] = {} /\ SeenThrough[w] = {}
    BY <2>2 DEF Hands, SeenThrough
  <2>4. SeenThrough' = SeenThrough
    BY <1>2, <2>3 DEF SeenThrough
  <2>5. Delivery!Take(w)
    BY <1>1, <1>2, <2>1, <2>3, <2>4 DEF Delivery!Take
  <2> QED
    BY <2>5 DEF Delivery!Next
<1>4. CASE WorkerCrash(w)
  <2>1. batch'[w] = <<>> /\ ToSet(<<>>) = {}
    BY <1>4, StopStream DEF RunInv, WorkerCrash, ToSet
  <2>2. UNCHANGED Owed
    BY <1>4 DEF WorkerCrash, StopConsumer, Owed, Undelivered
  <2>3. Delivery!Drop(w)
    BY <1>1, <1>2, <2>1, <2>2 DEF Delivery!Drop
  <2> QED
    BY <2>3 DEF Delivery!Next
<1> QED
    BY <1>3, <1>4

\* Work on a job: the step that leaves only the ack to do has seen it through.
LEMMA WorkDelivers ==
    ASSUME RunInv, NEW w \in Workers, WorksOn(w)
    PROVE  [Delivery!Next]_(Delivery!vars)
<1>1. /\ batch[w] # <<>> /\ UNCHANGED streamVars /\ phase[w] # "ack"
      /\ \A v \in Workers \ {w} : phase'[v] = phase[v]
    BY WorkChanges DEF WorksOn, WorkerLoad, WorkerMark, MeterCheck, MeterRecord, MeterFails,
        WorkerSave, WorkerTranscript, WorkerFail, WorkerSaveFails, At
<1>2. UNCHANGED <<stream, batch, Owed, Hands>>
    BY <1>1 DEF streamVars, Owed, Hands, Undelivered
<1>3. /\ SeenThrough[w] = {} /\ Job(w) \in ToSet(batch[w]) /\ Hands[w] = ToSet(batch[w])
    BY <1>1, JobInHand DEF SeenThrough, Hands
<1>4. SeenThrough' = [SeenThrough EXCEPT ![w] = {j \in ToSet(batch[w]) :
                                                    phase'[w] = "ack" /\ j = Head(batch[w])}]
    BY <1>1, <1>2, OneMoves
<1>5. CASE phase'[w] = "ack"
  <2>1. SeenThrough' = [SeenThrough EXCEPT ![w] = SeenThrough[w] \cup {Job(w)}]
    BY <1>3, <1>4, <1>5 DEF Job
  <2>2. Delivery!Work(w)
    BY <1>2, <1>3, <2>1 DEF Delivery!Work
  <2> QED
    BY <2>2 DEF Delivery!Next
<1>6. CASE phase'[w] # "ack"
  <2>1. SeenThrough' = [SeenThrough EXCEPT ![w] = {}]
    BY <1>4, <1>6
  <2>2. UNCHANGED SeenThrough
    BY <1>3, <2>1 DEF SeenThrough
  <2> QED
    BY <1>2, <2>2 DEF Delivery!vars
<1> QED
    BY <1>5, <1>6

\* The ack settles the job that was seen through, and no other.
LEMMA AckDelivers ==
    ASSUME RunInv, NEW w \in Workers, WorkerAck(w)
    PROVE  Delivery!Next
<1>1. /\ batch[w] # <<>> /\ phase[w] = "ack" /\ AckHead(w) /\ phase'[w] = "load"
      /\ \A v \in Workers \ {w} : phase'[v] = phase[v]
    BY DEF WorkerAck, At, GoOn, RunInv, TypeOK
<1>2. /\ Undelivered' = Undelivered /\ pending' = pending \ {Job(w)} /\ UNCHANGED stream
      /\ \A v \in Workers \ {w} : batch'[v] = batch[v]
      /\ ToSet(batch'[w]) = ToSet(batch[w]) \ {Job(w)}
    BY <1>1, AckStream DEF RunInv, AckHead
<1>3. Job(w) \in ToSet(batch[w]) /\ Job(w) \notin Undelivered
    BY <1>1, JobInHand, DeliveredOnce DEF RunInv, StreamInv
<1>4. Owed' = Owed \ {Job(w)}
    BY <1>2, <1>3 DEF Owed
<1>5. SeenThrough[w] = {Job(w)} /\ Hands[w] = ToSet(batch[w])
    BY <1>1, <1>3 DEF SeenThrough, Hands
<1>6. /\ Hands' = [Hands EXCEPT ![w] = Hands[w] \ {Job(w)}]
      /\ SeenThrough' = [SeenThrough EXCEPT ![w] = SeenThrough[w] \ {Job(w)}]
    BY <1>1, <1>2, <1>5, OneMoves
<1>7. Delivery!Settle(w)
    BY <1>2, <1>3, <1>4, <1>5, <1>6 DEF Delivery!Settle
<1> QED
    BY <1>7 DEF Delivery!Next

\* An empty stream is an empty queue.
LEMMA InitDelivers == Init => Delivery!Init
<1> SUFFICES ASSUME Init PROVE Delivery!Init
    OBVIOUS
<1>1. stream = <<>> /\ delivered = 0 /\ pending = {} /\ \A w \in Workers : batch[w] = <<>>
    BY DEF Init, StreamInit
<1>2. ToSet(<<>>) = {}
    BY DEF ToSet
<1>3. Owed = {}
  <2>1. Undelivered = ToSet(SubSeq(<<>>, 1, 0))
    BY <1>1 DEF Undelivered
  <2>2. SubSeq(<<>>, 1, 0) = <<>>
    OBVIOUS
  <2> QED
    BY <1>1, <1>2, <2>1, <2>2 DEF Owed
<1>4. /\ Hands = [w \in Workers |-> {}]
      /\ SeenThrough = [w \in Workers |-> {}]
    BY <1>1, <1>2 DEF Hands, SeenThrough
<1> QED
    BY <1>1, <1>2, <1>3, <1>4 DEF Delivery!Init

LEMMA StepDelivers == RunInv /\ [Next]_vars => [Delivery!Next]_(Delivery!vars)
<1> SUFFICES ASSUME RunInv, [Next]_vars PROVE [Delivery!Next]_(Delivery!vars)
    OBVIOUS
<1>1. ASSUME NEW r \in Requests, Api(r) PROVE [Delivery!Next]_(Delivery!vars)
    BY <1>1, ApiDelivers
<1>2. ASSUME NEW w \in Workers, Worker(w) PROVE [Delivery!Next]_(Delivery!vars)
    BY <1>2, TakeDelivers, WorkDelivers, AckDelivers DEF Worker, WorksOn
<1>3. CASE ClockMoves \/ UNCHANGED vars
    BY <1>3, Stutters DEF ClockMoves, vars, workVars
<1> QED
    BY <1>1, <1>2, <1>3 DEF Next

-----------------------------------------------------------------------------
(* A finished note stays                                                   *)

\* Of the running workers one has the job in hand.
OneHolder ==
    \A v, w \in Workers : \A j \in Requests \ overlapped :
        j \in ToSet(batch[v]) /\ j \in ToSet(batch[w]) => v = w

\* It alone writes the note: it found it unfinished, and nothing has changed since.
AtWork ==
    \A w \in Workers : phase[w] # "load" /\ Job(w) \notin overlapped =>
        /\ phase[w] \notin {"transcript", "ack"} => status[Job(w)] \notin Finished
        /\ phase[w] = "transcript" => status[Job(w)] = "succeeded" /\ author[Job(w)] = w

\* The transcript is stored after the note, by the same run.
Transcribed ==
    \A r \in Requests \ overlapped :
        transcript[r] # None => status[r] = "succeeded" /\ transcript[r] = author[r]

NoteInv == OneHolder /\ AtWork /\ Transcribed

\* What no step but that of a single holder changes.
Stay ==
    \A r \in Requests :
        status[r] \in Finished /\ r \notin overlapped
            => status'[r] = status[r] /\ author'[r] = author[r]

LEMMA InitNoteInv == Init => NoteInv
BY DEF Init, StreamInit, NoteInv, OneHolder, AtWork, Transcribed, ToSet

\* A worker whose job is of no other worker's concern.
LEMMA Alone ==
    ASSUME RunInv, NoteInv, NEW v \in Workers, NEW w \in Workers \ {v},
           batch[v] # <<>>, batch[w] # <<>>, Job(v) \notin overlapped
    PROVE  Job(v) # Job(w)
BY JobInHand DEF NoteInv, OneHolder

\* A step of a worker on its job.
LEMMA WorkNoteInv ==
    ASSUME RunInv, NoteInv, NEW w \in Workers, WorksOn(w)
    PROVE  NoteInv' /\ Stay
<1> DEFINE j == Job(w)
<1>1. /\ batch[w] # <<>> /\ UNCHANGED <<batch, overlapped>>
      /\ \A v \in Workers \ {w} : phase'[v] = phase[v]
      /\ \A q \in Requests \ {j} : /\ status'[q] = status[q] /\ author'[q] = author[q]
                                   /\ transcript'[q] = transcript[q]
    BY WorkChanges DEF streamVars
<1>2. j \in Requests /\ j \in ToSet(batch[w]) /\ \A v \in Workers : Job(v)' = Job(v)
    BY <1>1, JobInHand DEF Job
<1>3. OneHolder'
    BY <1>1 DEF NoteInv, OneHolder
<1>4. j \notin overlapped =>
          /\ phase'[w] # "load" /\ phase'[w] \notin {"transcript", "ack"} => status'[j] \notin Finished
          /\ phase'[w] = "transcript" => status'[j] = "succeeded" /\ author'[j] = w
          /\ transcript'[j] # None => status'[j] = "succeeded" /\ transcript'[j] = author'[j]
          /\ status[j] \in Finished => status'[j] = status[j] /\ author'[j] = author[j]
  <2> SUFFICES ASSUME j \notin overlapped
               PROVE  /\ phase'[w] # "load" /\ phase'[w] \notin {"transcript", "ack"} => status'[j] \notin Finished
                      /\ phase'[w] = "transcript" => status'[j] = "succeeded" /\ author'[j] = w
                      /\ transcript'[j] # None => status'[j] = "succeeded" /\ transcript'[j] = author'[j]
                      /\ status[j] \in Finished => status'[j] = status[j] /\ author'[j] = author[j]
    OBVIOUS
  <2>1. /\ phase[w] \in {"mark", "meter", "call", "save", "fail"} => status[j] \notin Finished
        /\ phase[w] = "transcript" => status[j] = "succeeded" /\ author[j] = w
        /\ transcript[j] # None => status[j] = "succeeded" /\ transcript[j] = author[j]
        /\ TypeOK
    BY <1>2 DEF NoteInv, AtWork, Transcribed, RunInv
  <2>2. CASE WorkerLoad(w)
    <3>1. /\ UNCHANGED <<status, author, transcript>>
          /\ \/ phase'[w] = "ack"
             \/ phase'[w] \in {"fail", "mark"} /\ status[j] \notin Finished
      BY <2>1, <2>2 DEF WorkerLoad, GoOn, TypeOK
    <3> QED
      BY <2>1, <3>1
  <2>3. CASE WorkerMark(w)
    <3>1. /\ phase[w] = "mark" /\ phase'[w] \in {"meter", "fail"} /\ status'[j] = "running"
          /\ UNCHANGED <<author, transcript>>
      BY <1>2, <2>1, <2>3 DEF WorkerMark, At, GatherInputs, GoOn, TypeOK
    <3> QED
      BY <2>1, <3>1 DEF Finished
  <2>4. CASE MeterCheck(w) \/ MeterRecord(w) \/ MeterFails(w)
    <3>1. /\ phase[w] \in {"meter", "call"} /\ UNCHANGED <<status, author, transcript>>
          /\ phase'[w] \in {"meter", "call", "save", "fail"}
      BY <2>1, <2>4 DEF MeterCheck, MeterRecord, MeterFails, NextCall, At, GoOn, TypeOK
    <3> QED
      BY <2>1, <3>1
  <2>5. CASE WorkerSave(w)
    <3>1. /\ phase[w] = "save" /\ phase'[w] = "transcript"
          /\ status'[j] = "succeeded" /\ author'[j] = w /\ transcript' = transcript
      BY <1>2, <2>1, <2>5 DEF WorkerSave, At, GoOn, TypeOK
    <3> QED
      BY <2>1, <3>1 DEF Finished
  <2>6. CASE WorkerTranscript(w)
    <3>1. /\ phase[w] = "transcript" /\ phase'[w] = "ack" /\ UNCHANGED <<status, author>>
          /\ transcript'[j] \in {transcript[j], w}
      BY <1>2, <2>1, <2>6 DEF WorkerTranscript, At, GoOn, TypeOK
    <3> QED
      BY <2>1, <3>1
  <2>7. CASE WorkerFail(w)
    <3>1. /\ phase[w] = "fail" /\ phase'[w] = "ack" /\ UNCHANGED <<author, transcript>>
      BY <2>1, <2>7 DEF WorkerFail, At, GoOn, TypeOK
    <3> QED
      BY <2>1, <3>1 DEF Finished
  <2>8. CASE WorkerSaveFails(w)
    <3>1. phase'[w] = "ack" /\ UNCHANGED <<status, author, transcript>>
      BY <2>1, <2>8 DEF WorkerSaveFails, GoOn, TypeOK
    <3> QED
      BY <2>1, <3>1
  <2> QED
    BY <2>2, <2>3, <2>4, <2>5, <2>6, <2>7, <2>8 DEF WorksOn
<1> HIDE DEF j
<1>5. AtWork'
  <2> SUFFICES ASSUME NEW v \in Workers, phase'[v] # "load", Job(v) \notin overlapped
               PROVE  /\ phase'[v] \notin {"transcript", "ack"} => status'[Job(v)] \notin Finished
                      /\ phase'[v] = "transcript" =>
                             status'[Job(v)] = "succeeded" /\ author'[Job(v)] = v
    BY <1>1, <1>2 DEF AtWork
  <2>1. CASE v = w
    BY <1>4, <2>1 DEF j
  <2>2. CASE v # w
    <3>1. phase'[v] = phase[v] /\ batch[v] # <<>>
      BY <1>1, <2>2 DEF RunInv, PhasesOK
    <3>2. Job(v) \in Requests \ {j}
      BY <1>1, <2>2, <3>1, Alone, JobInHand DEF j
    <3> QED
      BY <1>1, <3>1, <3>2 DEF NoteInv, AtWork
  <2> QED
    BY <2>1, <2>2
<1>6. Transcribed'
    BY <1>1, <1>4 DEF NoteInv, Transcribed
<1>7. Stay
    BY <1>1, <1>4 DEF Stay
<1> QED
    BY <1>3, <1>5, <1>6, <1>7 DEF NoteInv

\* A worker that takes jobs is the only one that has them, or the history says so.
LEMMA TakeNoteInv ==
    ASSUME RunInv, NoteInv, NEW w \in Workers,
           WorkerStart(w) \/ WorkerConsume(w) \/ WorkerCrash(w)
    PROVE  NoteInv' /\ Stay
<1>1. /\ UNCHANGED <<status, author, transcript>> /\ phase'[w] = "load"
      /\ \A v \in Workers \ {w} : phase'[v] = phase[v] /\ batch'[v] = batch[v]
    BY TakeChanges DEF noteVars
<1>2. overlapped \subseteq overlapped'
    BY DEF WorkerStart, WorkerConsume, WorkerCrash
<1>3. ASSUME NEW v \in Workers \ {w}, NEW r \in Requests \ overlapped', r \in ToSet(batch[v])
      PROVE  r \notin ToSet(batch'[w])
  <2>1. v \in up
    BY <1>3 DEF RunInv, PhasesOK, ToSet
  <2>2. CASE WorkerStart(w)
    BY <1>3, <2>1, <2>2 DEF WorkerStart
  <2>3. CASE WorkerConsume(w)
    BY <1>3, <2>3, ConsumeStream DEF WorkerConsume, RunInv, StreamInv
  <2>4. CASE WorkerCrash(w)
    BY <2>4, StopStream DEF WorkerCrash, RunInv, ToSet
  <2> QED
    BY <2>2, <2>3, <2>4
<1>4. OneHolder'
    BY <1>1, <1>2, <1>3 DEF NoteInv, OneHolder
<1>5. AtWork'
    BY <1>1, <1>2 DEF NoteInv, AtWork, Job
<1>6. Transcribed'
    BY <1>1, <1>2 DEF NoteInv, Transcribed
<1> QED
    BY <1>1, <1>4, <1>5, <1>6 DEF NoteInv, Stay

LEMMA AckNoteInv ==
    ASSUME RunInv, NoteInv, NEW w \in Workers, WorkerAck(w)
    PROVE  NoteInv' /\ Stay
<1>1. /\ UNCHANGED <<status, author, transcript, overlapped>> /\ phase'[w] = "load"
      /\ \A v \in Workers \ {w} : phase'[v] = phase[v] /\ batch'[v] = batch[v]
      /\ ToSet(batch'[w]) \subseteq ToSet(batch[w])
    BY AckStream DEF RunInv, TypeOK, WorkerAck, At, GoOn, noteVars
<1> QED
    BY <1>1 DEF NoteInv, OneHolder, AtWork, Transcribed, Stay, Job

LEMMA ApiNoteInv ==
    ASSUME RunInv, NoteInv, NEW r \in Requests, Api(r)
    PROVE  NoteInv' /\ Stay
<1>1. /\ UNCHANGED <<author, transcript, overlapped, batch, phase>>
      /\ \A q \in Requests \ {r} : status'[q] = status[q]
      /\ status'[r] # status[r] => api[r] = "create"
    BY DEF RunInv, TypeOK, noteVars, workVars, streamVars, Api, ApiCached, ApiGate, ApiCreate,
        ApiEnqueue, ApiEnqueueFails, Enqueue
<1>2. status'[r] # status[r] => status[r] = None /\ status[r] \notin Finished
    BY <1>1 DEF RunInv, SentLast, Finished, None
<1>3. OneHolder' /\ Transcribed' /\ Stay
    BY <1>1, <1>2 DEF NoteInv, OneHolder, Transcribed, Stay, Finished
<1>4. AtWork'
  <2> SUFFICES ASSUME NEW w \in Workers, phase[w] # "load" PROVE status'[Job(w)] = status[Job(w)]
    BY <1>1 DEF NoteInv, AtWork, Job
  <2>1. batch[w] # <<>>
    BY DEF RunInv, PhasesOK
  <2> QED
    BY <1>1, <2>1, JobInHand
<1> QED
    BY <1>3, <1>4 DEF NoteInv

LEMMA StepNoteInv == RunInv /\ NoteInv /\ [Next]_vars => NoteInv' /\ Stay
<1> SUFFICES ASSUME RunInv, NoteInv, [Next]_vars PROVE NoteInv' /\ Stay
    OBVIOUS
<1>1. ASSUME NEW r \in Requests, Api(r) PROVE NoteInv' /\ Stay
    BY <1>1, ApiNoteInv
<1>2. ASSUME NEW w \in Workers, Worker(w) PROVE NoteInv' /\ Stay
    BY <1>2, TakeNoteInv, WorkNoteInv, AckNoteInv DEF Worker, WorksOn
<1>3. CASE ClockMoves \/ UNCHANGED vars
    BY <1>3 DEF ClockMoves, vars, streamVars, noteVars, workVars, NoteInv, OneHolder, AtWork,
        Transcribed, Stay, Job
<1> QED
    BY <1>1, <1>2, <1>3 DEF Next

-----------------------------------------------------------------------------
(* Theorems                                                                *)

\* The budget is read before every call and nothing locks it, so a month ends less
\* than one call of each worker above it: for any number of runs, workers, providers,
\* redeliveries and crashes.
THEOREM OverspendIsBounded ==
    ASSUME Fleet
    PROVE  Spec => []OverspendBounded
<1>1. IInv => OverspendBounded
  <2> SUFFICES ASSUME IInv, spent # 0
               PROVE  spent < Cap + Cardinality(Workers) * MaxCost
    BY DEF OverspendBounded
  <2>1. /\ Cardinality(InCall) * MaxCost \in Nat /\ Cardinality(Workers) * MaxCost \in Nat
    BY InCallFinite, MaxCostBounds, TimesMonotone
  <2> QED
    BY <2>1, ResearchConstantsOK DEF IInv, MoneyTypeOK, Bounded, Committed
<1>2. IInv /\ [Next]_vars => IInv'
    BY StepIInv
<1> QED
    BY <1>1, <1>2, InitIInv, PTL DEF Spec

\* A run that was accepted and has not started has its job in the stream or pending
\* there, whichever request its client made: the row is written before the job, the
\* note is marked before the ack, and only a failed enqueue or an outcome that could not
\* be written leaves a note with no job.
THEOREM PromisesHeld == Spec => []PromisedRunsAreHeld
<1>1. RunInv => PromisedRunsAreHeld
    BY DEF RunInv, QueuedAreHeld, PromisedRunsAreHeld
<1> QED
    BY <1>1, InitRunInv, StepRunInv, PTL DEF Spec

\* A finished note keeps its status, its author and the transcript of its author's run,
\* through redeliveries, crashes and the rows of other requests, as long as no two
\* running workers had its job at once.
THEOREM FinishedStay == Spec => FinishedRunsStay
<1>1. NoteInv => TranscriptMatchesNote
    BY DEF NoteInv, Transcribed, TranscriptMatchesNote
<1>2. RunInv /\ NoteInv /\ [Next]_vars => [Stay]_vars
    BY StepNoteInv
<1>3. Init => RunInv /\ NoteInv
    BY InitRunInv, InitNoteInv
<1>4. RunInv /\ NoteInv /\ [Next]_vars => RunInv' /\ NoteInv'
    BY StepRunInv, StepNoteInv
<1>5. Spec => [][Stay]_vars /\ []TranscriptMatchesNote
    BY <1>1, <1>2, <1>3, <1>4, PTL DEF Spec
<1> QED
    BY <1>5 DEF FinishedRunsStay, Stay

\* The values of the notes, the stream, the workers and the money stay in range.
THEOREM TypesOK == Spec => []TypeOK
<1>1. RunInv => TypeOK
    BY DEF RunInv
<1> QED
    BY <1>1, InitRunInv, StepRunInv, PTL DEF Spec

\* Stream, consumer group and workers implement JobDelivery: a job leaves the queue
\* once a worker that holds it has been through it, whatever crashes, is reclaimed or
\* is acked twice.
THEOREM DeliveryRefinement == Spec => DeliveredAtLeastOnce
<1>1. RunInv /\ [Next]_vars => [Delivery!Next]_(Delivery!vars)
    BY StepDelivers
<1> QED
    BY <1>1, InitRunInv, StepRunInv, InitDelivers, PTL DEF Spec, DeliveredAtLeastOnce, Delivery!Spec

=============================================================================
