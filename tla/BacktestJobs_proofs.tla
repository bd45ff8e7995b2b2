------------------------- MODULE BacktestJobs_proofs -------------------------
(***************************************************************************)
(* What the idempotency key in Redis gives the clients of POST backtest as *)
(* long as they retry only after an answer, and, however they retry, that  *)
(* no promised run loses its job: for every number of calls, retries,      *)
(* keys, workers and faults.                                               *)
(***************************************************************************)
EXTENDS BacktestJobs, CollectionLemmas, TLAPS

\* The part of the type invariant that concerns the API.
ApiTypeOK ==
    /\ idem \in [Keys -> Requests \cup {None}]
    /\ api \in [Requests -> ApiPC]
    /\ reply \in [Requests -> Requests \cup {None, "error"}]

\* A request under way is past its lookup and not answered.
UnderWay(r) == api[r] \notin {"start", "done"}

\* It has its key to itself: none of its retries is under way, and no client has
\* been told of a run yet.
KeyToItself ==
    \A r, q \in Requests : UnderWay(r) /\ SameKey(r, q) =>
        /\ UnderWay(q) => q = r
        /\ reply[q] \notin Requests

\* What it still knows of the key it looked up.
KeyAsRead ==
    \A r \in Requests :
        /\ api[r] \in {"missed", "created"} => idem[KeyOf[r]] = None
        /\ api[r] \in {"bound", "unbind"} => idem[KeyOf[r]] = r

\* A run a client was told of stays bound to the key.
AnswerBound ==
    \A r \in Requests : reply[r] \in Requests => idem[KeyOf[r]] = reply[r]

IInv ==
    /\ ApiTypeOK
    /\ KeyToItself
    /\ KeyAsRead
    /\ AnswerBound

-----------------------------------------------------------------------------
(* Lemmas                                                                  *)

\* A step of r that neither answers it nor changes a key: KeyAsRead is what is left
\* to show.
LEMMA Continues ==
    ASSUME IInv, NEW r \in Requests, NEW pc \in ApiPC, UnderWay(r), Goto(r, pc),
           UNCHANGED reply, idem' \in [Keys -> Requests \cup {None}], KeyAsRead',
           \A k \in Keys : k # KeyOf[r] => idem'[k] = idem[k]
    PROVE  IInv'
<1>1. ApiTypeOK'
    BY DEF IInv, ApiTypeOK, Goto
<1>2. \A q \in Requests : UnderWay(q)' => UnderWay(q)
    BY DEF IInv, ApiTypeOK, Goto, UnderWay
<1>3. KeyToItself'
    BY <1>2 DEF IInv, KeyToItself, SameKey
<1>4. AnswerBound'
    BY BacktestConstantsOK DEF IInv, AnswerBound, KeyToItself, SameKey, Requests
<1> QED
    BY <1>1, <1>3, <1>4 DEF IInv

\* r is answered with an error, whether it was under way or not.
LEMMA Fails ==
    ASSUME IInv, NEW r \in Requests, Answer(r, "error"),
           idem' \in [Keys -> Requests \cup {None}],
           \A k \in Keys : idem'[k] # idem[k] => k = KeyOf[r] /\ UnderWay(r)
    PROVE  IInv'
<1>1. ApiTypeOK'
    BY DEF IInv, ApiTypeOK, Answer, Goto, ApiPC
<1>2. /\ api'[r] = "done" /\ reply'[r] = "error" /\ "error" \notin Requests
      /\ \A q \in Requests \ {r} : api'[q] = api[q] /\ reply'[q] = reply[q]
    BY BacktestConstantsOK DEF IInv, ApiTypeOK, Answer, Goto, Requests
<1>3. KeyToItself'
    BY <1>2 DEF IInv, KeyToItself, UnderWay, SameKey
<1>4. \A q \in Requests : KeyOf[q] \in Keys
    BY BacktestConstantsOK DEF Requests
<1>5. KeyAsRead'
  <2> SUFFICES ASSUME NEW q \in Requests, UnderWay(q)'
               PROVE  api'[q] = api[q] /\ idem'[KeyOf[q]] = idem[KeyOf[q]]
    BY DEF IInv, KeyAsRead, UnderWay
  <2>1. q # r /\ UnderWay(q)
    BY <1>2 DEF UnderWay
  <2> QED
    BY <1>2, <1>4, <2>1 DEF IInv, KeyToItself, SameKey
<1>6. AnswerBound'
    BY <1>2, <1>4 DEF IInv, AnswerBound, KeyToItself, SameKey
<1> QED
    BY <1>1, <1>3, <1>5, <1>6 DEF IInv

\* r is answered with the run its key is bound to.
LEMMA Answers ==
    ASSUME IInv, NEW r \in Requests, NEW q \in Requests, Answer(r, q), UNCHANGED idem,
           idem[KeyOf[r]] = q,
           \A p \in Requests \ {r} : SameKey(p, r) => ~UnderWay(p)
    PROVE  IInv'
<1>1. ApiTypeOK'
    BY DEF IInv, ApiTypeOK, Answer, Goto, ApiPC
<1>2. /\ api'[r] = "done" /\ reply'[r] = q
      /\ \A p \in Requests \ {r} : api'[p] = api[p] /\ reply'[p] = reply[p]
    BY DEF IInv, ApiTypeOK, Answer, Goto
<1>3. KeyToItself'
    BY <1>2 DEF IInv, KeyToItself, UnderWay, SameKey
<1>4. KeyAsRead' /\ AnswerBound'
    BY <1>2 DEF IInv, KeyAsRead, AnswerBound
<1> QED
    BY <1>1, <1>3, <1>4 DEF IInv

\* A step of a worker.
LEMMA OutsideIInv == IInv /\ UNCHANGED apiVars => IInv'
BY DEF apiVars, IInv, ApiTypeOK, KeyToItself, KeyAsRead, AnswerBound, UnderWay, SameKey

-----------------------------------------------------------------------------
(* The invariant                                                           *)

LEMMA InitIInv == Init => IInv
BY BacktestConstantsOK DEF Init, IInv, ApiTypeOK, ApiPC, KeyToItself, KeyAsRead,
    AnswerBound, UnderWay, Requests

\* A lookup waits for the client's earlier request of the key.
LEMMA LookupIInv ==
    ASSUME ~Racing, IInv, NEW r \in Requests, ApiLookup(r)
    PROVE  IInv'
<1>1. /\ api[r] = "start"
      /\ \A q \in Requests \ {r} : SameKey(q, r) => ~UnderWay(q)
      /\ UNCHANGED idem
    BY DEF ApiLookup, Sent, UnderWay, SameKey
<1>2. KeyOf[r] \in Keys /\ idem[KeyOf[r]] \in Requests \cup {None}
    BY BacktestConstantsOK DEF IInv, ApiTypeOK, Requests
<1>3. CASE Answer(r, "error")
    BY <1>1, <1>3, Fails DEF IInv, ApiTypeOK
<1>4. CASE idem[KeyOf[r]] # None /\ Answer(r, idem[KeyOf[r]])
    BY <1>1, <1>2, <1>4, Answers
<1>5. CASE idem[KeyOf[r]] = None /\ Goto(r, "missed") /\ UNCHANGED reply
  <2>1. ApiTypeOK'
    BY <1>1, <1>5 DEF IInv, ApiTypeOK, Goto, ApiPC
  <2>2. /\ api'[r] = "missed"
        /\ \A q \in Requests \ {r} : api'[q] = api[q]
    BY <1>5 DEF IInv, ApiTypeOK, Goto
  <2>3. \A q \in Requests : SameKey(r, q) => reply[q] \notin Requests
    BY <1>5, BacktestConstantsOK DEF IInv, AnswerBound, SameKey, Requests
  <2>4. KeyToItself'
    BY <1>1, <1>5, <2>2, <2>3 DEF IInv, KeyToItself, UnderWay, SameKey
  <2>5. KeyAsRead' /\ AnswerBound'
    BY <1>1, <1>5, <2>2 DEF IInv, KeyAsRead, AnswerBound
  <2> QED
    BY <2>1, <2>4, <2>5 DEF IInv
<1> QED
    BY <1>3, <1>4, <1>5 DEF ApiLookup

\* SET NX finds the key as the lookup found it: unbound.
LEMMA BindIInv ==
    ASSUME IInv, NEW r \in Requests, ApiBind(r)
    PROVE  IInv'
<1>1. /\ UnderWay(r) /\ idem[KeyOf[r]] = None /\ KeyOf[r] \in Keys
      /\ Goto(r, "bound") /\ UNCHANGED reply
    BY BacktestConstantsOK DEF ApiBind, UnderWay, IInv, KeyAsRead, Requests
<1>2. /\ idem' = [idem EXCEPT ![KeyOf[r]] = r]
      /\ idem' \in [Keys -> Requests \cup {None}]
    BY <1>1 DEF ApiBind, IInv, ApiTypeOK
<1>3. KeyAsRead'
  <2>1. /\ api'[r] = "bound" /\ idem'[KeyOf[r]] = r
        /\ \A q \in Requests \ {r} : api'[q] = api[q]
        /\ \A k \in Keys \ {KeyOf[r]} : idem'[k] = idem[k]
    BY <1>1, <1>2 DEF Goto, IInv, ApiTypeOK
  <2>2. \A q \in Requests \ {r} : UnderWay(q) => KeyOf[q] # KeyOf[r] /\ KeyOf[q] \in Keys
    BY <1>1, BacktestConstantsOK DEF IInv, KeyToItself, SameKey, Requests
  <2> QED
    BY <2>1, <2>2 DEF IInv, KeyAsRead, UnderWay
<1> QED
    BY <1>1, <1>2, <1>3, Continues DEF ApiPC, IInv, ApiTypeOK

\* A step of r under way that changes no key and keeps what r knows of it.
LEMMA AdvanceIInv ==
    ASSUME IInv, NEW r \in Requests, NEW pc \in ApiPC, UnderWay(r), Goto(r, pc),
           UNCHANGED <<idem, reply>>,
           \/ api[r] = "missed" /\ pc = "created"
           \/ api[r] = "bound" /\ pc = "unbind"
    PROVE  IInv'
<1>1. KeyAsRead'
    BY DEF IInv, ApiTypeOK, KeyAsRead, Goto
<1> QED
    BY <1>1, Continues DEF IInv, ApiTypeOK

LEMMA StepIInv == ~Racing /\ IInv /\ [Next]_vars => IInv'
<1> SUFFICES ASSUME ~Racing, IInv, [Next]_vars PROVE IInv'
    OBVIOUS
<1>1. ASSUME NEW r \in Requests, ApiLookup(r) PROVE IInv'
    BY <1>1, LookupIInv
<1>2. ASSUME NEW r \in Requests, ApiCreate(r) PROVE IInv'
    BY <1>2, AdvanceIInv DEF ApiCreate, UnderWay, ApiPC
<1>3. ASSUME NEW r \in Requests, ApiBind(r) PROVE IInv'
    BY <1>3, BindIInv
<1>4. ASSUME NEW r \in Requests, ApiEnqueue(r) PROVE IInv'
  <2>1. /\ idem[KeyOf[r]] = r
        /\ \A q \in Requests \ {r} : SameKey(q, r) => ~UnderWay(q)
    BY <1>4 DEF ApiEnqueue, IInv, KeyAsRead, KeyToItself, UnderWay, SameKey
  <2> QED
    BY <1>4, <2>1, Answers DEF ApiEnqueue
<1>5. ASSUME NEW r \in Requests, ApiEnqueueFails(r) PROVE IInv'
    BY <1>5, AdvanceIInv DEF ApiEnqueueFails, UnderWay, ApiPC
<1>6. ASSUME NEW r \in Requests, ApiUnbind(r) PROVE IInv'
  <2>1. UnderWay(r) /\ Answer(r, "error") /\ KeyOf[r] \in Keys
    BY <1>6, BacktestConstantsOK DEF ApiUnbind, UnderWay, Requests
  <2>2. /\ idem' \in [Keys -> Requests \cup {None}]
        /\ \A k \in Keys : idem'[k] # idem[k] => k = KeyOf[r]
    BY <1>6, <2>1 DEF ApiUnbind, IInv, ApiTypeOK
  <2> QED
    BY <2>1, <2>2, Fails
<1>7. ASSUME NEW r \in Requests, ApiCrash(r) PROVE IInv'
    BY <1>7, Fails DEF ApiCrash, IInv, ApiTypeOK
<1>8. ASSUME NEW w \in Workers, Worker(w) PROVE IInv'
    BY <1>8, OutsideIInv DEF Worker, WorkerStart, WorkerConsume, WorkerLoad, WorkerSave,
        WorkerSaveFails, WorkerAck, WorkerCrash
<1>9. CASE UNCHANGED vars
    BY <1>9, OutsideIInv DEF vars
<1> QED
    BY <1>1, <1>2, <1>3, <1>4, <1>5, <1>6, <1>7, <1>8, <1>9 DEF Next, Api

-----------------------------------------------------------------------------
(* The stream                                                              *)

\* Entries some consumer has been given.
Delivered == ToSet(SubSeq(stream, 1, delivered))

\* A job is sent once, and what is pending or in a worker's hands was delivered.
StreamInv ==
    /\ StreamTypeOK
    /\ IsInjective(stream)
    /\ pending \subseteq Delivered
    /\ \A w \in Workers : ToSet(batch[w]) \subseteq Delivered /\ IsInjective(batch[w])

LEMMA StreamSets ==
    ASSUME StreamInv
    PROVE  Delivered \subseteq ToSet(stream) /\ ToSet(stream) \subseteq Jobs
BY FirstSet, InToSet DEF StreamInv, StreamTypeOK, Delivered

LEMMA EnqueueStream ==
    ASSUME StreamInv, NEW j \in Jobs \ ToSet(stream), Enqueue(j)
    PROVE  /\ StreamInv'
           /\ ToSet(stream') = ToSet(stream) \cup {j}
           /\ Undelivered' = Undelivered \cup {j}
<1>1. /\ stream \in Seq(Jobs) /\ delivered \in 0..Len(stream) /\ Len(stream) \in Nat
      /\ stream' = Append(stream, j) /\ UNCHANGED <<delivered, pending, up, batch>>
    BY DEF StreamInv, StreamTypeOK, Enqueue
<1>2. /\ stream' \in Seq(Jobs) /\ Len(stream') = Len(stream) + 1
      /\ ToSet(stream') = ToSet(stream) \cup {j}
      /\ Undelivered' = Undelivered \cup {j}
      /\ Delivered' = Delivered
      /\ IsInjective(stream')
    BY <1>1, AppendTo, AppendSet, AppendKeepsFirst, InjectiveAppend
    DEF Undelivered, Delivered, StreamInv
<1>3. delivered' \in 0..Len(stream')
    BY <1>1, <1>2
<1> QED
    BY <1>1, <1>2, <1>3 DEF StreamInv, StreamTypeOK

LEMMA StartStream ==
    ASSUME StreamInv, NEW w \in Workers, StartConsumer(w)
    PROVE  /\ StreamInv' /\ \A v \in Workers \ {w} : batch'[v] = batch[v]
           /\ ToSet(batch'[w]) \subseteq pending
<1>1. PICK idle \in SUBSET pending : batch' = [batch EXCEPT ![w] = Among(stream, idle)]
    BY DEF StartConsumer
<1>2. /\ Among(stream, idle) \in Seq(Jobs)
      /\ ToSet(Among(stream, idle)) \subseteq idle
      /\ IsInjective(Among(stream, idle))
    BY AmongType, InjectiveAmong DEF StreamInv, StreamTypeOK
<1> QED
    BY <1>1, <1>2 DEF StreamInv, StreamTypeOK, StartConsumer, Delivered

LEMMA ConsumeStream ==
    ASSUME StreamInv, NEW w \in Workers, ConsumeBatch(w)
    PROVE  /\ StreamInv'
           /\ Owed' = Owed /\ ToSet(batch'[w]) \subseteq Owed
           /\ \A v \in Workers \ {w} : batch'[v] = batch[v]
           /\ ToSet(batch'[w]) \cap Delivered = {}
<1> DEFINE last == IF delivered + Count < Len(stream) THEN delivered + Count ELSE Len(stream)
           taken == SubSeq(stream, delivered + 1, last)
<1>1. /\ stream \in Seq(Jobs) /\ delivered \in 0..Len(stream) /\ Len(stream) \in Nat
      /\ IsInjective(stream) /\ UNCHANGED <<stream, up>>
      /\ batch' = [batch EXCEPT ![w] = taken] /\ delivered' = last
      /\ pending' = pending \cup ToSet(taken)
    BY DEF StreamInv, StreamTypeOK, ConsumeBatch
<1>2. last \in 0..Len(stream) /\ delivered \in 0..last
    BY <1>1, BacktestConstantsOK
<1> HIDE DEF last
<1>3. /\ taken \in Seq(Jobs) /\ ToSet(taken) \subseteq ToSet(stream)
      /\ Undelivered = ToSet(taken) \cup Undelivered'
    BY <1>1, <1>2, SplitSet DEF Undelivered
<1>4. /\ IsInjective(taken) /\ Delivered \cap ToSet(taken) = {}
      /\ Delivered' = Delivered \cup ToSet(taken)
    BY <1>1, <1>2, InjectiveSubSeq DEF Delivered
<1> HIDE DEF taken
<1>5. batch'[w] = taken /\ \A v \in Workers \ {w} : batch'[v] = batch[v]
    BY <1>1 DEF StreamInv, StreamTypeOK
<1>6. StreamTypeOK'
    BY <1>1, <1>2, <1>3, StreamSets DEF StreamInv, StreamTypeOK
<1>7. StreamInv'
    BY <1>1, <1>4, <1>5, <1>6 DEF StreamInv
<1>8. Owed' = Owed /\ ToSet(taken) \subseteq Owed
    BY <1>1, <1>3 DEF Owed
<1> QED
    BY <1>4, <1>5, <1>7, <1>8

LEMMA AckStream ==
    ASSUME StreamInv, NEW w \in Workers, batch[w] # <<>>, AckHead(w)
    PROVE  /\ StreamInv' /\ Undelivered' = Undelivered
           /\ pending' = pending \ {Job(w)}
           /\ \A v \in Workers \ {w} : batch'[v] = batch[v]
           /\ ToSet(batch'[w]) = ToSet(batch[w]) \ {Job(w)}
<1>1. batch[w] \in Seq(Jobs) /\ ToSet(batch[w]) \subseteq Delivered /\ IsInjective(batch[w])
    BY DEF StreamInv, StreamTypeOK
<1>2. /\ Tail(batch[w]) \in Seq(Jobs) /\ IsInjective(Tail(batch[w]))
      /\ ToSet(Tail(batch[w])) = ToSet(batch[w]) \ {Job(w)}
    BY <1>1, TailSet, InjectiveTail DEF Job
<1>3. /\ UNCHANGED <<stream, delivered, up>> /\ pending' = pending \ {Job(w)}
      /\ batch' = [batch EXCEPT ![w] = Tail(batch[w])]
    BY DEF AckHead, Job
<1> QED
    BY <1>1, <1>2, <1>3 DEF StreamInv, StreamTypeOK, Undelivered, Delivered

LEMMA StopStream ==
    ASSUME StreamInv, NEW w \in Workers, StopConsumer(w)
    PROVE  /\ StreamInv' /\ \A v \in Workers \ {w} : batch'[v] = batch[v]
           /\ batch'[w] = <<>>
<1>1. <<>> \in Seq(Jobs) /\ ToSet(<<>>) = {} /\ IsInjective(<<>>)
    BY DEF ToSet, IsInjective
<1> QED
    BY <1>1 DEF StreamInv, StreamTypeOK, StopConsumer, Delivered

-----------------------------------------------------------------------------
(* No promised run is dropped                                              *)

\* A worker that has nothing in hand starts with the next job from its beginning.
PhasesOK ==
    \A w \in Workers :
        /\ w \notin up => batch[w] = <<>>
        /\ batch[w] = <<>> => phase[w] = "load"

\* A run gets its row before its job is sent, and its key before that.
SentLast ==
    \A r \in Requests :
        api[r] \in {"start", "missed", "created", "bound"} => r \notin ToSet(stream)

KeyBoundLate ==
    \A r \in Requests :
        api[r] \in {"start", "missed", "created"} => \A k \in Keys : idem[k] # r

\* Only the job that was sent promises its client a run of its own.
PromisedLast == \A r \in Requests : reply[r] = r => api[r] = "done"

\* A worker acks what it has started, or could not write.
AckedAreOver ==
    \A w \in Workers : phase[w] = "ack" => run[Job(w)] # "queued" \/ Job(w) \in unsaved

HeldInv ==
    /\ TypeOK /\ StreamInv /\ PhasesOK
    /\ SentLast /\ KeyBoundLate /\ PromisedLast
    /\ AckedAreOver /\ PromisedRunsAreHeld

LEMMA InitHeldInv == Init => HeldInv
<1> SUFFICES ASSUME Init PROVE HeldInv
    OBVIOUS
<1>1. /\ <<>> \in Seq(Jobs) /\ Len(<<>>) = 0 /\ 0 \in 0..0
      /\ ToSet(<<>>) = {} /\ IsInjective(<<>>)
    BY DEF ToSet, IsInjective
<1>2. StreamInv
    BY <1>1 DEF Init, StreamInit, StreamInv, StreamTypeOK
<1>3. TypeOK
    BY <1>2, BacktestConstantsOK DEF Init, TypeOK, ApiPC, StreamInv, Requests
<1>4. None \notin Requests
    BY BacktestConstantsOK DEF Requests
<1> QED
    BY <1>1, <1>2, <1>3, <1>4 DEF Init, StreamInit, HeldInv, PhasesOK, SentLast, KeyBoundLate,
        PromisedLast, AckedAreOver, PromisedRunsAreHeld

\* The job a worker has in hand is one of the stream's.
LEMMA JobInStream ==
    ASSUME HeldInv, NEW w \in Workers, batch[w] # <<>>
    PROVE  /\ Job(w) \in ToSet(batch[w]) /\ Job(w) \in ToSet(stream)
           /\ Job(w) \in Requests
<1>1. batch[w] \in Seq(Jobs) /\ ToSet(batch[w]) \subseteq ToSet(stream)
    BY StreamSets DEF HeldInv, StreamInv, StreamTypeOK
<1> QED
    BY <1>1, TailSet DEF Job, Requests

\* A step of the API that leaves the stream as it is.
LEMMA ApiHeld ==
    ASSUME HeldInv, NEW r \in Requests, TypeOK', UNCHANGED <<streamVars, phase, unsaved>>,
           \A q \in Requests \ {r} : run'[q] = run[q] /\ api'[q] = api[q] /\ reply'[q] = reply[q],
           run'[r] # run[r] => api[r] = "missed",
           api'[r] \in {"start", "missed", "created", "bound"} =>
               api[r] \in {"start", "missed", "created", "bound"},
           KeyBoundLate',
           reply'[r] = r => reply[r] = r /\ api'[r] = "done"
    PROVE  HeldInv'
<1>1. StreamInv' /\ PhasesOK' /\ Undelivered' = Undelivered
    BY DEF HeldInv, streamVars, StreamInv, StreamTypeOK, PhasesOK, Undelivered, Delivered
<1>2. SentLast' /\ PromisedLast'
    BY DEF HeldInv, streamVars, SentLast, PromisedLast
<1>3. \A q \in Requests : q \in ToSet(stream) => run'[q] = run[q]
    BY DEF HeldInv, SentLast
<1>4. AckedAreOver'
  <2> SUFFICES ASSUME NEW w \in Workers, phase'[w] = "ack"
               PROVE  run'[Job(w)] # "queued" \/ Job(w) \in unsaved
    BY DEF AckedAreOver, streamVars, Job
  <2>1. phase[w] = "ack" /\ batch[w] # <<>>
    BY DEF HeldInv, PhasesOK
  <2> QED
    BY <1>3, <2>1, JobInStream DEF HeldInv, AckedAreOver
<1>5. PromisedRunsAreHeld'
  <2> SUFFICES ASSUME NEW q \in Requests, reply'[q] = q, run'[q] = "queued"
               PROVE  q \in Undelivered \cup pending \cup unsaved
    BY <1>1 DEF PromisedRunsAreHeld, streamVars
  <2>1. reply[q] = q /\ run[q] = "queued"
    BY DEF HeldInv, PromisedLast
  <2> QED
    BY <2>1 DEF HeldInv, PromisedRunsAreHeld
<1> QED
    BY <1>1, <1>2, <1>4, <1>5 DEF HeldInv

\* A step of the API that puts its job into the stream.
LEMMA SendHeld ==
    ASSUME HeldInv, NEW r \in Requests, NEW pc \in {"unbind", "done"}, api[r] = "bound", TypeOK',
           Enqueue(r), Goto(r, pc), UNCHANGED <<run, idem, phase, unsaved>>,
           \A q \in Requests \ {r} : reply'[q] = reply[q],
           reply'[r] = r => pc = "done"
    PROVE  HeldInv'
<1>1. /\ StreamInv' /\ ToSet(stream') = ToSet(stream) \cup {r}
      /\ Undelivered' = Undelivered \cup {r} /\ UNCHANGED <<pending, up, batch>>
    BY EnqueueStream DEF HeldInv, SentLast, Requests, Enqueue
<1>2. api'[r] = pc /\ \A q \in Requests \ {r} : api'[q] = api[q]
    BY DEF Goto, HeldInv, TypeOK
<1>3. PhasesOK' /\ AckedAreOver'
    BY <1>1 DEF HeldInv, PhasesOK, AckedAreOver, Job
<1>4. SentLast' /\ KeyBoundLate' /\ PromisedLast'
    BY <1>1, <1>2 DEF HeldInv, SentLast, KeyBoundLate, PromisedLast
<1>5. PromisedRunsAreHeld'
    BY <1>1 DEF HeldInv, PromisedRunsAreHeld
<1> QED
    BY <1>1, <1>3, <1>4, <1>5 DEF HeldInv

\* Every step of the API and of a worker keeps the type invariant.
LEMMA ApiTypes ==
    ASSUME HeldInv, NEW r \in Requests, Api(r)
    PROVE  TypeOK'
<1>1. KeyOf[r] \in Keys /\ r \in Jobs /\ TypeOK /\ StreamInv
    BY BacktestConstantsOK DEF HeldInv, Requests
<1>2. StreamTypeOK'
  <2>1. CASE Enqueue(r) /\ api[r] = "bound"
    <3>1. r \notin ToSet(stream)
      BY <2>1 DEF HeldInv, SentLast
    <3> QED
      BY <1>1, <2>1, <3>1, EnqueueStream DEF StreamInv
  <2>2. CASE UNCHANGED streamVars
    BY <1>1, <2>2 DEF StreamInv, StreamTypeOK, streamVars
  <2> QED
    BY <2>1, <2>2 DEF Api, ApiLookup, ApiCreate, ApiBind, ApiEnqueue, ApiEnqueueFails,
        ApiUnbind, ApiCrash
<1>3. /\ run' \in [Requests -> RunStatus \cup {None}]
      /\ idem' \in [Keys -> Requests \cup {None}]
      /\ phase' \in [Workers -> {"load", "compute", "fail", "ack"}]
      /\ unsaved' \subseteq Requests
    BY <1>1 DEF TypeOK, RunStatus, Api, ApiLookup, ApiCreate, ApiBind, ApiEnqueue,
        ApiEnqueueFails, ApiUnbind, ApiCrash
<1>4. /\ api' \in [Requests -> ApiPC]
      /\ reply' \in [Requests -> Requests \cup {None, "error"}]
    BY <1>1 DEF TypeOK, ApiPC, Api, ApiLookup, ApiCreate, ApiBind, ApiEnqueue,
        ApiEnqueueFails, ApiUnbind, ApiCrash, Goto, Answer
<1>5. faults' \in 0..MaxFaults
    BY <1>1, BacktestConstantsOK DEF TypeOK, Fault, Api, ApiLookup, ApiCreate, ApiBind, ApiEnqueue,
        ApiEnqueueFails, ApiUnbind, ApiCrash
<1> QED
    BY <1>2, <1>3, <1>4, <1>5 DEF TypeOK

LEMMA WorkerTypes ==
    ASSUME HeldInv, NEW w \in Workers, Worker(w)
    PROVE  TypeOK' /\ StreamInv'
<1>1. ASSUME batch[w] # <<>> PROVE Job(w) \in Requests
    BY <1>1, JobInStream
<1>2. StreamInv'
  <2>1. CASE StartConsumer(w) \/ ConsumeBatch(w) \/ StopConsumer(w)
    BY <2>1, StartStream, ConsumeStream, StopStream DEF HeldInv
  <2>2. CASE batch[w] # <<>> /\ AckHead(w)
    BY <2>2, AckStream DEF HeldInv
  <2>3. CASE UNCHANGED streamVars
    BY <2>3 DEF HeldInv, StreamInv, StreamTypeOK, Delivered, streamVars
  <2> QED
    BY <2>1, <2>2, <2>3 DEF Worker, WorkerStart, WorkerConsume, WorkerLoad, WorkerSave,
        WorkerSaveFails, WorkerAck, WorkerCrash, Working
<1>3. /\ run' \in [Requests -> RunStatus \cup {None}]
      /\ unsaved' \subseteq Requests
      /\ UNCHANGED apiVars
    BY <1>1 DEF HeldInv, TypeOK, RunStatus, Finished, Worker, WorkerStart, WorkerConsume,
        WorkerLoad, WorkerSave, WorkerSaveFails, WorkerAck, WorkerCrash, Working
<1>4. phase' \in [Workers -> {"load", "compute", "fail", "ack"}]
    BY DEF HeldInv, TypeOK, Worker, WorkerStart, WorkerConsume, WorkerLoad, WorkerSave,
        WorkerSaveFails, WorkerAck, WorkerCrash
<1>5. faults' \in 0..MaxFaults
    BY BacktestConstantsOK DEF HeldInv, TypeOK, Fault, Worker, WorkerStart, WorkerConsume,
        WorkerLoad, WorkerSave, WorkerSaveFails, WorkerAck, WorkerCrash
<1> QED
    BY <1>2, <1>3, <1>4, <1>5 DEF HeldInv, TypeOK, StreamInv, apiVars

LEMMA ApiStepHeld ==
    ASSUME HeldInv, NEW r \in Requests, Api(r)
    PROVE  HeldInv'
<1>0. TypeOK' /\ TypeOK /\ None \notin Requests /\ "error" \notin Requests /\ KeyOf[r] \in Keys
    BY ApiTypes, BacktestConstantsOK DEF HeldInv, Requests
<1>1. CASE ApiLookup(r)
  <2>1. idem[KeyOf[r]] # r
    BY <1>0, <1>1 DEF ApiLookup, HeldInv, KeyBoundLate
  <2>2. /\ \A q \in Requests \ {r} : api'[q] = api[q] /\ reply'[q] = reply[q]
        /\ reply'[r] = r => reply[r] = r /\ api'[r] = "done"
        /\ api[r] = "start" /\ UNCHANGED <<streamVars, run, idem, phase, unsaved>>
    BY <1>0, <1>1, <2>1 DEF ApiLookup, Answer, Goto, TypeOK, HeldInv, PromisedLast
  <2>3. KeyBoundLate'
    BY <2>2 DEF HeldInv, KeyBoundLate
  <2> QED
    BY <1>0, <2>2, <2>3, ApiHeld
<1>2. CASE ApiCreate(r)
  <2>1. /\ \A q \in Requests \ {r} : api'[q] = api[q] /\ run'[q] = run[q]
        /\ api[r] = "missed" /\ UNCHANGED <<streamVars, reply, idem, phase, unsaved>>
        /\ reply[r] # r
    BY <1>0, <1>2 DEF ApiCreate, Goto, TypeOK, HeldInv, PromisedLast
  <2>2. KeyBoundLate'
    BY <2>1 DEF HeldInv, KeyBoundLate
  <2> QED
    BY <1>0, <2>1, <2>2, ApiHeld
<1>3. CASE ApiBind(r)
  <2>1. /\ api'[r] = "bound" /\ \A q \in Requests \ {r} : api'[q] = api[q]
        /\ \A k \in Keys : idem'[k] = idem[k] \/ idem'[k] = r
        /\ api[r] = "created" /\ UNCHANGED <<streamVars, run, reply, phase, unsaved>>
        /\ reply[r] # r
    BY <1>0, <1>3 DEF ApiBind, Goto, TypeOK, HeldInv, PromisedLast
  <2>2. KeyBoundLate'
    BY <2>1 DEF HeldInv, KeyBoundLate
  <2> QED
    BY <1>0, <2>1, <2>2, ApiHeld
<1>4. CASE ApiEnqueue(r)
  <2>1. \A q \in Requests \ {r} : reply'[q] = reply[q]
    BY <1>0, <1>4 DEF ApiEnqueue, Answer, TypeOK
  <2> QED
    BY <1>0, <1>4, <2>1, SendHeld DEF ApiEnqueue, Answer
<1>5. CASE ApiEnqueueFails(r)
  <2>1. /\ api[r] = "bound" /\ Goto(r, "unbind") /\ reply[r] # r
        /\ UNCHANGED <<run, idem, reply, phase, unsaved>>
    BY <1>5 DEF ApiEnqueueFails, HeldInv, PromisedLast
  <2>2. CASE Enqueue(r)
    BY <1>0, <2>1, <2>2, SendHeld
  <2>3. CASE UNCHANGED streamVars
    <3>1. api'[r] = "unbind" /\ \A q \in Requests \ {r} : api'[q] = api[q]
      BY <1>0, <2>1 DEF Goto, TypeOK
    <3>2. KeyBoundLate'
      BY <2>1, <3>1 DEF HeldInv, KeyBoundLate
    <3> QED
      BY <1>0, <2>1, <2>3, <3>1, <3>2, ApiHeld
  <2> QED
    BY <1>5, <2>2, <2>3 DEF ApiEnqueueFails
<1>6. CASE ApiUnbind(r) \/ ApiCrash(r)
  <2>1. /\ api'[r] = "done" /\ reply'[r] = "error"
        /\ \A q \in Requests \ {r} : api'[q] = api[q] /\ reply'[q] = reply[q]
        /\ \A k \in Keys : idem'[k] = idem[k] \/ idem'[k] = None
        /\ UNCHANGED <<streamVars, run, phase, unsaved>>
    BY <1>0, <1>6 DEF ApiUnbind, ApiCrash, Answer, Goto, TypeOK
  <2>2. KeyBoundLate'
    BY <1>0, <2>1 DEF HeldInv, KeyBoundLate
  <2> QED
    BY <1>0, <2>1, <2>2, ApiHeld
<1> QED
    BY <1>1, <1>2, <1>3, <1>4, <1>5, <1>6 DEF Api

\* A worker takes, reclaims or loses jobs; it has nothing in hand yet, or any more.
LEMMA TakeChanges ==
    ASSUME HeldInv, NEW w \in Workers, WorkerStart(w) \/ WorkerConsume(w) \/ WorkerCrash(w)
    PROVE  /\ UNCHANGED stream /\ phase'[w] = "load"
           /\ \A v \in Workers \ {w} : phase'[v] = phase[v] /\ batch'[v] = batch[v]
           /\ w \notin up' => batch'[w] = <<>>
           /\ \A v \in Workers \ {w} : v \in up' <=> v \in up
<1>1. CASE WorkerStart(w)
    BY <1>1, StartStream DEF HeldInv, PhasesOK, WorkerStart, StartConsumer
<1>2. CASE WorkerConsume(w)
    BY <1>2, ConsumeStream DEF HeldInv, PhasesOK, WorkerConsume, ConsumeBatch
<1>3. CASE WorkerCrash(w)
    BY <1>3, StopStream DEF HeldInv, PhasesOK, TypeOK, StreamTypeOK, WorkerCrash, StopConsumer
<1> QED
    BY <1>1, <1>2, <1>3

\* The job it loses stays pending.
LEMMA TakeHeld ==
    ASSUME HeldInv, NEW w \in Workers, WorkerStart(w) \/ WorkerConsume(w) \/ WorkerCrash(w)
    PROVE  HeldInv'
<1>1. TypeOK' /\ StreamInv' /\ UNCHANGED <<stream, run, apiVars, unsaved>>
    BY WorkerTypes DEF Worker, WorkerStart, WorkerConsume, WorkerCrash, StartConsumer,
        ConsumeBatch, StopConsumer
<1>2. /\ phase'[w] = "load"
      /\ \A v \in Workers \ {w} : phase'[v] = phase[v] /\ batch'[v] = batch[v]
      /\ w \notin up' => batch'[w] = <<>>
      /\ \A v \in Workers \ {w} : v \in up' <=> v \in up
    BY TakeChanges
<1>3. Undelivered \cup pending \subseteq Undelivered' \cup pending'
    BY ConsumeStream DEF HeldInv, WorkerStart, WorkerConsume, WorkerCrash, StartConsumer,
        StopConsumer, Undelivered, Owed
<1>4. PhasesOK'
    BY <1>2 DEF HeldInv, PhasesOK
<1>5. AckedAreOver'
    BY <1>1, <1>2 DEF HeldInv, AckedAreOver, Job
<1>6. SentLast' /\ KeyBoundLate' /\ PromisedLast'
    BY <1>1 DEF HeldInv, SentLast, KeyBoundLate, PromisedLast, apiVars
<1>7. PromisedRunsAreHeld'
    BY <1>1, <1>3 DEF HeldInv, PromisedRunsAreHeld, apiVars
<1> QED
    BY <1>1, <1>4, <1>5, <1>6, <1>7 DEF HeldInv

\* A worker works on the job it has in hand: the job is over before it is acked.
LEMMA WorkHeld ==
    ASSUME HeldInv, NEW w \in Workers, WorkerLoad(w) \/ WorkerSave(w) \/ WorkerSaveFails(w)
    PROVE  HeldInv'
<1>1. TypeOK' /\ StreamInv' /\ UNCHANGED <<streamVars, apiVars>>
    BY WorkerTypes DEF Worker, WorkerLoad, WorkerSave, WorkerSaveFails
<1>2. /\ batch[w] # <<>> /\ w \in up /\ \A v \in Workers \ {w} : phase'[v] = phase[v]
      /\ unsaved \subseteq unsaved'
      /\ \A q \in Requests : run'[q] = "queued" => run[q] = "queued"
      /\ phase'[w] = "ack" => run'[Job(w)] # "queued" \/ Job(w) \in unsaved'
    BY JobInStream DEF HeldInv, TypeOK, Finished, WorkerLoad, WorkerSave, WorkerSaveFails, Working
<1>3. Undelivered' = Undelivered /\ pending' = pending /\ \A v \in Workers : Job(v)' = Job(v)
    BY <1>1 DEF streamVars, Undelivered, Job
<1>4. PhasesOK'
    BY <1>1, <1>2 DEF HeldInv, PhasesOK, streamVars
<1>5. AckedAreOver'
  <2> SUFFICES ASSUME NEW v \in Workers \ {w}, phase[v] = "ack"
               PROVE  run'[Job(v)] # "queued" \/ Job(v) \in unsaved'
    BY <1>2, <1>3 DEF AckedAreOver
  <2>1. batch[v] # <<>> /\ (run[Job(v)] # "queued" \/ Job(v) \in unsaved)
    BY DEF HeldInv, PhasesOK, AckedAreOver
  <2> QED
    BY <1>2, <2>1, JobInStream
<1>6. SentLast' /\ KeyBoundLate' /\ PromisedLast'
    BY <1>1 DEF HeldInv, SentLast, KeyBoundLate, PromisedLast, apiVars, streamVars
<1>7. PromisedRunsAreHeld'
    BY <1>1, <1>2, <1>3 DEF HeldInv, PromisedRunsAreHeld, apiVars
<1> QED
    BY <1>1, <1>4, <1>5, <1>6, <1>7 DEF HeldInv

\* The ack drops a job that is over.
LEMMA AckHeld ==
    ASSUME HeldInv, NEW w \in Workers, WorkerAck(w)
    PROVE  HeldInv'
<1>1. TypeOK' /\ StreamInv' /\ UNCHANGED <<stream, up, run, apiVars, unsaved>>
    BY WorkerTypes DEF Worker, WorkerAck, AckHead
<1>2. /\ phase[w] = "ack" /\ phase'[w] = "load"
      /\ \A v \in Workers \ {w} : phase'[v] = phase[v] /\ batch'[v] = batch[v]
      /\ w \in up /\ pending' = pending \ {Job(w)} /\ Undelivered' = Undelivered
    BY AckStream DEF HeldInv, TypeOK, WorkerAck, Working
<1>3. PhasesOK' /\ AckedAreOver'
    BY <1>1, <1>2 DEF HeldInv, PhasesOK, AckedAreOver, Job
<1>4. SentLast' /\ KeyBoundLate' /\ PromisedLast'
    BY <1>1 DEF HeldInv, SentLast, KeyBoundLate, PromisedLast, apiVars
<1>5. PromisedRunsAreHeld'
    BY <1>1, <1>2 DEF HeldInv, PromisedRunsAreHeld, AckedAreOver, apiVars
<1> QED
    BY <1>1, <1>3, <1>4, <1>5 DEF HeldInv

LEMMA StepHeldInv == HeldInv /\ [Next]_vars => HeldInv'
<1> SUFFICES ASSUME HeldInv, [Next]_vars PROVE HeldInv'
    OBVIOUS
<1>1. ASSUME NEW r \in Requests, Api(r) PROVE HeldInv'
    BY <1>1, ApiStepHeld
<1>2. ASSUME NEW w \in Workers, Worker(w) PROVE HeldInv'
    BY <1>2, TakeHeld, WorkHeld, AckHeld DEF Worker
<1>3. CASE UNCHANGED vars
    BY <1>3 DEF vars, streamVars, apiVars, HeldInv, TypeOK, StreamInv, StreamTypeOK, Delivered, PhasesOK,
        SentLast, KeyBoundLate, PromisedLast, AckedAreOver, PromisedRunsAreHeld, Job, Undelivered
<1> QED
    BY <1>1, <1>2, <1>3 DEF Next

-----------------------------------------------------------------------------
(* The workers deliver at least once                                       *)

\* A job that was delivered is not delivered again by the group: only a reclaim
\* hands it out once more.
LEMMA DeliveredOnce ==
    ASSUME StreamInv
    PROVE  Delivered \cap Undelivered = {} /\ Undelivered \subseteq ToSet(stream)
<1>1. /\ stream \in Seq(Jobs) /\ IsInjective(stream) /\ delivered \in 0..Len(stream)
      /\ Len(stream) \in 0..Len(stream)
    BY DEF StreamInv, StreamTypeOK
<1> QED
    BY <1>1, InjectiveSubSeq, SplitSet DEF Delivered, Undelivered

\* The mapped state after a step of one worker.
LEMMA OneMoves ==
    ASSUME NEW w \in Workers,
           \A v \in Workers \ {w} : batch'[v] = batch[v] /\ phase'[v] = phase[v]
    PROVE  /\ Hands' = [Hands EXCEPT ![w] = ToSet(batch'[w])]
           /\ SeenThrough' =
                  [SeenThrough EXCEPT ![w] = {j \in ToSet(batch'[w]) :
                                                 phase'[w] = "ack" /\ j = Head(batch'[w])}]
<1>1. Hands' = [Hands EXCEPT ![w] = ToSet(batch'[w])]
    BY DEF Hands
<1>2. \A v \in Workers \ {w} : SeenThrough'[v] = SeenThrough[v]
    BY DEF SeenThrough, Job
<1>3. SeenThrough'[w] = {j \in ToSet(batch'[w]) : phase'[w] = "ack" /\ j = Head(batch'[w])}
    BY DEF SeenThrough, Job
<1>4. DOMAIN SeenThrough = Workers /\ DOMAIN SeenThrough' = Workers
    BY DEF SeenThrough
<1> QED
    BY <1>1, <1>2, <1>3, <1>4 DEF SeenThrough

\* A step that leaves the stream and the workers alone is a stutter of the queue.
LEMMA Stutters ==
    UNCHANGED <<streamVars, phase>> => UNCHANGED Delivery!vars
BY DEF streamVars, Delivery!vars, Owed, Hands, SeenThrough, Undelivered, Job

\* Putting a job into the stream, whatever the API does besides.
LEMMA SendDelivers ==
    ASSUME StreamInv, NEW r \in Requests, r \notin ToSet(stream), Enqueue(r), UNCHANGED phase
    PROVE  Delivery!Next
<1>1. r \in Jobs /\ UNCHANGED <<pending, batch>>
    BY DEF Requests, Enqueue
<1>2. ToSet(stream)' = ToSet(stream) \cup {r} /\ Owed' = Owed \cup {r}
    BY <1>1, EnqueueStream DEF Owed
<1>3. UNCHANGED <<Hands, SeenThrough>>
    BY <1>1 DEF Hands, SeenThrough, Job
<1> QED
    BY <1>1, <1>2, <1>3 DEF Delivery!Next, Delivery!Send

\* Every step of the API is a send or a stutter of the queue.
LEMMA ApiDelivers ==
    ASSUME HeldInv, NEW r \in Requests, Api(r)
    PROVE  [Delivery!Next]_(Delivery!vars)
<1>1. UNCHANGED phase
    BY DEF Api, ApiLookup, ApiCreate, ApiBind, ApiEnqueue, ApiEnqueueFails, ApiUnbind, ApiCrash
<1>2. \/ UNCHANGED streamVars
      \/ Enqueue(r) /\ r \notin ToSet(stream)
    BY DEF Api, ApiLookup, ApiCreate, ApiBind, ApiEnqueue, ApiEnqueueFails, ApiUnbind, ApiCrash,
        HeldInv, SentLast
<1> QED
    BY <1>1, <1>2, Stutters, SendDelivers DEF HeldInv

\* Taking, reclaiming and losing jobs.
LEMMA TakeDelivers ==
    ASSUME HeldInv, NEW w \in Workers, WorkerStart(w) \/ WorkerConsume(w) \/ WorkerCrash(w)
    PROVE  Delivery!Next
<1>1. /\ phase'[w] = "load" /\ UNCHANGED stream
      /\ \A v \in Workers \ {w} : batch'[v] = batch[v] /\ phase'[v] = phase[v]
    BY TakeChanges
<1>2. /\ Hands' = [Hands EXCEPT ![w] = ToSet(batch'[w])]
      /\ SeenThrough' = [SeenThrough EXCEPT ![w] = {}]
    BY <1>1, OneMoves
<1>3. CASE WorkerStart(w) \/ WorkerConsume(w)
  <2>1. Owed' = Owed /\ ToSet(batch'[w]) \subseteq Owed
    BY <1>3, StartStream, ConsumeStream DEF HeldInv, WorkerStart, WorkerConsume, StartConsumer,
        Owed, Undelivered
  <2>2. batch[w] = <<>> /\ ToSet(<<>>) = {}
    BY <1>3 DEF HeldInv, PhasesOK, WorkerStart, WorkerConsume, StartConsumer, ConsumeBatch, ToSet
  <2>3. Hands[w] = {} /\ SeenThrough[w] = {}
    BY <2>2 DEF Hands, SeenThrough
  <2>4. SeenThrough' = SeenThrough
    BY <1>2, <2>3 DEF SeenThrough
  <2>5. Delivery!Take(w)
    BY <1>1, <1>2, <2>1, <2>3, <2>4 DEF Delivery!Take
  <2> QED
    BY <2>5 DEF Delivery!Next
<1>4. CASE WorkerCrash(w)
  <2>1. batch'[w] = <<>> /\ ToSet(<<>>) = {}
    BY <1>4, StopStream DEF HeldInv, WorkerCrash, ToSet
  <2>2. UNCHANGED Owed
    BY <1>4 DEF WorkerCrash, StopConsumer, Owed, Undelivered
  <2>3. Delivery!Drop(w)
    BY <1>1, <1>2, <2>1, <2>2 DEF Delivery!Drop
  <2> QED
    BY <2>3 DEF Delivery!Next
<1> QED
    BY <1>3, <1>4

\* Work on a job: the step that leaves only the ack to do has seen it through.
LEMMA WorkDelivers ==
    ASSUME HeldInv, NEW w \in Workers, WorkerLoad(w) \/ WorkerSave(w) \/ WorkerSaveFails(w)
    PROVE  [Delivery!Next]_(Delivery!vars)
<1>1. /\ batch[w] # <<>> /\ UNCHANGED streamVars /\ phase[w] # "ack"
      /\ \A v \in Workers \ {w} : phase'[v] = phase[v]
    BY DEF WorkerLoad, WorkerSave, WorkerSaveFails, Working, HeldInv, TypeOK
<1>2. UNCHANGED <<stream, batch, Owed, Hands>>
    BY <1>1 DEF streamVars, Owed, Hands, Undelivered
<1>3. /\ SeenThrough[w] = {} /\ Job(w) \in ToSet(batch[w]) /\ Hands[w] = ToSet(batch[w])
    BY <1>1, JobInStream DEF SeenThrough, Hands
<1>4. SeenThrough' = [SeenThrough EXCEPT ![w] = {j \in ToSet(batch[w]) :
                                                    phase'[w] = "ack" /\ j = Head(batch[w])}]
    BY <1>1, <1>2, OneMoves
<1>5. CASE phase'[w] = "ack"
  <2>1. SeenThrough' = [SeenThrough EXCEPT ![w] = SeenThrough[w] \cup {Job(w)}]
    BY <1>3, <1>4, <1>5 DEF Job
  <2>2. Delivery!Work(w)
    BY <1>2, <1>3, <2>1 DEF Delivery!Work
  <2> QED
    BY <2>2 DEF Delivery!Next
<1>6. CASE phase'[w] # "ack"
  <2>1. SeenThrough' = [SeenThrough EXCEPT ![w] = {}]
    BY <1>4, <1>6
  <2>2. UNCHANGED SeenThrough
    BY <1>3, <2>1 DEF SeenThrough
  <2> QED
    BY <1>2, <2>2 DEF Delivery!vars
<1> QED
    BY <1>5, <1>6

\* The ack settles the job that was seen through, and no other.
LEMMA AckDelivers ==
    ASSUME HeldInv, NEW w \in Workers, WorkerAck(w)
    PROVE  Delivery!Next
<1>1. /\ batch[w] # <<>> /\ phase[w] = "ack" /\ AckHead(w) /\ phase'[w] = "load"
      /\ \A v \in Workers \ {w} : phase'[v] = phase[v]
    BY DEF WorkerAck, Working, HeldInv, TypeOK
<1>2. /\ Undelivered' = Undelivered /\ pending' = pending \ {Job(w)} /\ UNCHANGED stream
      /\ \A v \in Workers \ {w} : batch'[v] = batch[v]
      /\ ToSet(batch'[w]) = ToSet(batch[w]) \ {Job(w)}
    BY <1>1, AckStream DEF HeldInv, AckHead
<1>3. Job(w) \in ToSet(batch[w]) /\ Job(w) \notin Undelivered
    BY <1>1, JobInStream, DeliveredOnce DEF HeldInv, StreamInv
<1>4. Owed' = Owed \ {Job(w)}
    BY <1>2, <1>3 DEF Owed
<1>5. SeenThrough[w] = {Job(w)} /\ Hands[w] = ToSet(batch[w])
    BY <1>1, <1>3 DEF SeenThrough, Hands
<1>6. /\ Hands' = [Hands EXCEPT ![w] = Hands[w] \ {Job(w)}]
      /\ SeenThrough' = [SeenThrough EXCEPT ![w] = SeenThrough[w] \ {Job(w)}]
    BY <1>1, <1>2, <1>5, OneMoves
<1>7. Delivery!Settle(w)
    BY <1>2, <1>3, <1>4, <1>5, <1>6 DEF Delivery!Settle
<1> QED
    BY <1>7 DEF Delivery!Next

\* An empty stream is an empty queue.
LEMMA InitDelivers == Init => Delivery!Init
<1> SUFFICES ASSUME Init PROVE Delivery!Init
    OBVIOUS
<1>1. stream = <<>> /\ delivered = 0 /\ pending = {} /\ \A w \in Workers : batch[w] = <<>>
    BY DEF Init, StreamInit
<1>2. ToSet(<<>>) = {}
    BY DEF ToSet
<1>3. Owed = {}
  <2>1. Undelivered = ToSet(SubSeq(<<>>, 1, 0))
    BY <1>1 DEF Undelivered
  <2>2. SubSeq(<<>>, 1, 0) = <<>>
    OBVIOUS
  <2> QED
    BY <1>1, <1>2, <2>1, <2>2 DEF Owed
<1>4. /\ Hands = [w \in Workers |-> {}]
      /\ SeenThrough = [w \in Workers |-> {}]
    BY <1>1, <1>2 DEF Hands, SeenThrough
<1> QED
    BY <1>1, <1>2, <1>3, <1>4 DEF Delivery!Init

LEMMA StepDelivers == HeldInv /\ [Next]_vars => [Delivery!Next]_(Delivery!vars)
<1> SUFFICES ASSUME HeldInv, [Next]_vars PROVE [Delivery!Next]_(Delivery!vars)
    OBVIOUS
<1>1. ASSUME NEW r \in Requests, Api(r) PROVE [Delivery!Next]_(Delivery!vars)
    BY <1>1, ApiDelivers
<1>2. ASSUME NEW w \in Workers, Worker(w) PROVE [Delivery!Next]_(Delivery!vars)
    BY <1>2, TakeDelivers, WorkDelivers, AckDelivers DEF Worker
<1>3. CASE UNCHANGED vars
    BY <1>3, Stutters DEF vars
<1> QED
    BY <1>1, <1>2, <1>3 DEF Next

-----------------------------------------------------------------------------
(* Theorems                                                                *)

\* Clients that retry only after an answer are told of one run per key, though the
\* key, the row and the stream are written one after the other and any of the three
\* may fail; the mark a failed call leaves behind in Redis answers its retries.
THEOREM OneRunEach ==
    ASSUME ~Racing
    PROVE  Spec => []OneRunPerKey
<1>1. IInv => OneRunPerKey
    BY DEF IInv, AnswerBound, OneRunPerKey, SameKey
<1>2. IInv /\ [Next]_vars => IInv'
    BY StepIInv
<1> QED
    BY <1>1, <1>2, InitIInv, PTL DEF Spec

\* A run whose client was told of it and that has not started is in the stream or
\* pending there, or a worker could not write its outcome: no crash, no second worker,
\* no retry of the client and no key that is bound late drops it.
THEOREM PromisesHeld == Spec => []PromisedRunsAreHeld
<1>1. HeldInv => PromisedRunsAreHeld
    BY DEF HeldInv
<1> QED
    BY <1>1, InitHeldInv, StepHeldInv, PTL DEF Spec

\* The values of the rows, the keys, the stream and the workers stay in range.
THEOREM TypesOK == Spec => []TypeOK
<1>1. HeldInv => TypeOK
    BY DEF HeldInv
<1> QED
    BY <1>1, InitHeldInv, StepHeldInv, PTL DEF Spec

\* Stream, consumer group and workers implement JobDelivery: a job leaves the queue
\* once a worker that holds it has been through it, whatever crashes, is reclaimed or
\* is acked twice.
THEOREM DeliveryRefinement == Spec => DeliveredAtLeastOnce
<1>1. HeldInv /\ [Next]_vars => [Delivery!Next]_(Delivery!vars)
    BY StepDelivers
<1> QED
    BY <1>1, InitHeldInv, StepHeldInv, InitDelivers, PTL DEF Spec, DeliveredAtLeastOnce, Delivery!Spec

=============================================================================
