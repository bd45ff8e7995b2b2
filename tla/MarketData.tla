----------------------------- MODULE MarketData -----------------------------
(***************************************************************************)
(* Daily bars of one symbol: the ingest worker and the dev seed write them *)
(* (ingest_worker/service.py, repo.py, cli.py, saalr_api/dev/router.py),   *)
(* and the volatility forecast, the Monte Carlo and the regime read them   *)
(* through a cache in Redis (saalr_api/forecast/service.py, montecarlo/    *)
(* router.py, regime/service.py).                                          *)
(*                                                                         *)
(* A bar is "partial" while its session runs and "final" after it. What is *)
(* computed from the bars is the closes it was computed from.              *)
(***************************************************************************)
EXTENDS Integers

CONSTANTS
    Jobs,           \* ingest commands and seeds
    Readers,        \* requests that read
    None,
    DefaultDays,    \* bars_backfill_default_days
    MaxDay          \* bound on the calendar

VARIABLES
    day,        \* today
    closed,     \* today's session is over
    bars,       \* bars, by day: None, "partial" or "final"
    job,        \* the commands
    cache,      \* Redis, by key: a payload or None
    reader      \* the requests

vars == <<day, closed, bars, job, cache, reader>>

Day == 0 .. MaxDay
Keys == {"forecast", "regime:base", "regime:premium"}
Written(b) == \E d \in Day : b[d] # None

NotStarted == [at |-> "new", rows |-> [d \in Day |-> None]]
NotRead == [at |-> "new", op |-> None, premium |-> FALSE, spot |-> None, closes |-> None,
            hit |-> FALSE, payload |-> None]

TypeOK ==
    /\ day \in Day
    /\ closed \in BOOLEAN
    /\ bars \in [Day -> {None, "partial", "final"}]
    /\ \A j \in Jobs : job[j].at \in {"new", "fetch", "write", "ended"}
    /\ \A k \in Keys : cache[k] = None \/ cache[k].premium \in BOOLEAN
    /\ \A r \in Readers :
          reader[r].at \in {"new", "spot", "get", "load", "set", "done", "failed"}

\* Earlier days have been ingested from some day on.
Init ==
    /\ day \in Day
    /\ closed = FALSE
    /\ bars \in {[d \in Day |-> IF first <= d /\ d < day THEN "final" ELSE None] : first \in Day}
    /\ job = [j \in Jobs |-> NotStarted]
    /\ cache = [k \in Keys |-> None]
    /\ reader = [r \in Readers |-> NotRead]

SessionEnds ==
    /\ ~closed
    /\ closed' = TRUE
    /\ UNCHANGED <<day, bars, job, cache, reader>>

NextDay ==
    /\ closed /\ day < MaxDay
    /\ day' = day + 1
    /\ closed' = FALSE
    /\ UNCHANGED <<bars, job, cache, reader>>

-----------------------------------------------------------------------------
(* Writing bars: one transaction per symbol, fetched inside it.            *)

\* What the provider has for a day.
Published(d) ==
    IF d < day \/ (d = day /\ closed) THEN "final" ELSE IF d = day THEN "partial" ELSE None

Fetching(j, start, end) ==
    /\ job[j].at = "new"
    /\ job' = [job EXCEPT ![j] = [at |-> "fetch", start |-> start, end |-> end,
                                  rows |-> NotStarted.rows]]
    /\ UNCHANGED <<day, closed, bars, cache, reader>>

IncrementalStart(last) == IF last = None THEN day - DefaultDays ELSE last + 1

LatestBar ==
    IF Written(bars) THEN CHOOSE d \in Day : /\ bars[d] # None
                                             /\ \A e \in Day : e > d => bars[e] = None
    ELSE None

\* incremental_symbol looks the latest bar up and fetches from the next day.
StartRun(j) == IncrementalStart(LatestBar) <= day /\ Fetching(j, IncrementalStart(LatestBar), day)

\* backfill, and the dev seed, fetch the range they are given.
StartBackfill(j) == \E start, end \in Day : start <= end /\ end <= day /\ Fetching(j, start, end)

\* get_daily_bars, all its pages; or a ProviderError, which ends this symbol only.
Fetch(j) ==
    /\ job[j].at = "fetch"
    /\ \/ job' = [job EXCEPT ![j].at = "write", ![j].rows = [d \in Day |->
                     IF d \in job[j].start .. job[j].end THEN Published(d) ELSE None]]
       \/ job' = [job EXCEPT ![j] = [NotStarted EXCEPT !.at = "ended"]]
    /\ UNCHANGED <<day, closed, bars, cache, reader>>

\* upsert_bars and the commit.
Write(j) ==
    /\ job[j].at = "write"
    /\ bars' = [d \in Day |-> IF job[j].rows[d] # None THEN job[j].rows[d] ELSE bars[d]]
    /\ job' = [job EXCEPT ![j] = [NotStarted EXCEPT !.at = "ended"]]
    /\ UNCHANGED <<day, closed, cache, reader>>

\* The process dies and nothing is written.
JobDies(j) ==
    /\ job[j].at \in {"fetch", "write"}
    /\ job' = [job EXCEPT ![j] = [NotStarted EXCEPT !.at = "ended"]]
    /\ UNCHANGED <<day, closed, bars, cache, reader>>

-----------------------------------------------------------------------------
(* Reading them through the cache. Forecasts are for entitled tiers, the   *)
(* regime has premium fields for them and none for the others.             *)

Begin(r, op, premium) ==
    /\ reader[r].at = "new"
    /\ op # "regime" => premium
    /\ reader' = [reader EXCEPT ![r] = [NotRead EXCEPT !.op = op, !.premium = premium,
                     !.at = IF op = "montecarlo" THEN "spot" ELSE "get"]]
    /\ UNCHANGED <<day, closed, bars, job, cache>>

\* The regime's key has the tier in it; a Monte Carlo uses the forecast's.
Key(r) ==
    IF reader[r].op # "regime" THEN "forecast"
    ELSE IF reader[r].premium THEN "regime:premium" ELSE "regime:base"

\* Mutant of AfterMiss: the forecast always loads the closes itself.
AfterMissLoad(r) == "load"

\* The Monte Carlo hands over the closes it took its spot from.
AfterMiss(r) == IF reader[r].op = "montecarlo" THEN "set" ELSE "load"

\* load_closes; too few of them are a 422.
LoadCloses(r) ==
    /\ reader[r].at \in {"spot", "load"}
    /\ reader' = [reader EXCEPT ![r].at =
                     IF ~Written(bars) THEN "failed"
                     ELSE IF reader[r].at = "spot" THEN "get" ELSE "set",
                  ![r].spot = IF reader[r].at = "spot" THEN bars ELSE @,
                  ![r].closes = bars]
    /\ UNCHANGED <<day, closed, bars, job, cache>>

Get(r) ==
    /\ reader[r].at = "get"
    /\ reader' =
          IF cache[Key(r)] # None
          THEN [reader EXCEPT ![r].at = "done", ![r].hit = TRUE, ![r].closes = None,
                              ![r].payload = cache[Key(r)]]
          ELSE [reader EXCEPT ![r].at = AfterMiss(r)]
    /\ UNCHANGED <<day, closed, bars, job, cache>>

Payload(r) == [closes |-> reader[r].closes, premium |-> reader[r].premium]

\* Compute, record, and cache; nothing orders two that missed together.
Set(r) ==
    /\ reader[r].at = "set"
    /\ cache' = [cache EXCEPT ![Key(r)] = Payload(r)]
    /\ reader' = [reader EXCEPT ![r].at = "done", ![r].closes = None, ![r].payload = Payload(r)]
    /\ UNCHANGED <<day, closed, bars, job>>

Expire(k) ==
    /\ cache[k] # None
    /\ cache' = [cache EXCEPT ![k] = None]
    /\ UNCHANGED <<day, closed, bars, job, reader>>

Next ==
    \/ SessionEnds
    \/ NextDay
    \/ \E j \in Jobs :
          \/ StartRun(j)
          \/ StartBackfill(j)
          \/ Fetch(j)
          \/ Write(j)
          \/ JobDies(j)
    \/ \E r \in Readers :
          \/ \E op \in {"forecast", "montecarlo", "regime"}, premium \in BOOLEAN :
                Begin(r, op, premium)
          \/ LoadCloses(r)
          \/ Get(r)
          \/ Set(r)
    \/ \E k \in Keys : Expire(k)

Spec == Init /\ [][Next]_vars

-----------------------------------------------------------------------------
(* Properties                                                              *)

Answered(r) == reader[r].at = "done"

\* get_or_compute_regime's promise: whoever filled the cache, a free reader is never
\* served premium fields, nor a premium one the bare regime.
TierKept ==
    \A r \in Readers :
        Answered(r) /\ reader[r].op = "regime" => reader[r].payload.premium = reader[r].premium

\* A Monte Carlo that computes its volatility takes it from the bars it took its spot
\* from, whatever the ingest worker commits in between.
OneSnapshot ==
    \A r \in Readers :
        Answered(r) /\ reader[r].op = "montecarlo" /\ ~reader[r].hit
            => reader[r].payload.closes = reader[r].spot

AnswersFit == TierKept /\ OneSnapshot

=============================================================================
