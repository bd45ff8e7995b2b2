----------------------------- MODULE OptionChain -----------------------------
(***************************************************************************)
(* The option chain of one underlying (saalr_api/market/service.py,        *)
(* snapshots.py, oi_repo.py, oi_change.py): fetched from the provider,     *)
(* stored as a snapshot, cached, and shown with the change of open interest*)
(* against earlier snapshots. The dev seed takes snapshots past the cache. *)
(* Contracts are priced on the yield curve of saalr_core/marketdata/rates. *)
(*                                                                         *)
(* A snapshot is its as_of, in hours, and a payload its as_of, its curve   *)
(* and the source it names; prices and greeks follow from these.           *)
(***************************************************************************)
EXTENDS Integers

CONSTANTS
    Requests,
    None,
    DayHours,       \* length of a day
    MaxHour         \* bound on the clock

VARIABLES
    keyed,      \* whether a FRED key is configured
    hour,       \* the clock
    snapshots,  \* as_of of the snapshots in options_chain_snapshots
    cache,      \* the payload in Redis, or None
    request

vars == <<keyed, hour, snapshots, cache, request>>

Hour == 0 .. MaxHour
Windows == {"day", "1h", "3h", "4h"}
Delta == [w \in {"1h", "3h", "4h"} |-> IF w = "1h" THEN 1 ELSE IF w = "3h" THEN 3 ELSE 4]

Payload(as_of, curve, source) == [as_of |-> as_of, curve |-> curve, source |-> source]

Fresh == [at |-> "new", op |-> None, payload |-> None, built |-> FALSE,
          baseline |-> [w \in Windows |-> None]]

TypeOK ==
    /\ hour \in Hour
    /\ snapshots \subseteq Hour
    /\ cache # None => cache.as_of \in Hour
    /\ \A r \in Requests :
          /\ request[r].at \in {"new", "get", "fetch", "set", "show", "commit",
                                "done", "failed"}
          /\ \A w \in Windows : request[r].baseline[w] \in Hour \cup {None}

Init ==
    /\ keyed \in BOOLEAN
    /\ hour \in Hour
    /\ snapshots \in SUBSET (0 .. hour - 1)
    /\ cache = None
    /\ request = [r \in Requests |-> Fresh]

Tick ==
    /\ hour < MaxHour
    /\ hour' = hour + 1
    /\ UNCHANGED <<keyed, snapshots, cache, request>>

\* A chain is asked for in a session with the rate limit and the gate behind it.
BeginChain(r) ==
    /\ request[r].at = "new"
    /\ request' = [request EXCEPT ![r].op = "chain", ![r].at = "get"]
    /\ UNCHANGED <<keyed, hour, snapshots, cache>>

\* The seed captures a snapshot whatever is cached.
BeginCapture(r) ==
    /\ request[r].at = "new"
    /\ request' = [request EXCEPT ![r].op = "capture", ![r].at = "fetch"]
    /\ UNCHANGED <<keyed, hour, snapshots, cache>>

Get(r) ==
    /\ request[r].at = "get"
    /\ request' = IF cache # None
                  THEN [request EXCEPT ![r].at = "show", ![r].payload = cache]
                  ELSE [request EXCEPT ![r].at = "fetch"]
    /\ UNCHANGED <<keyed, hour, snapshots, cache>>

\* get_curve: without a key, or when any series cannot be fetched, or none has an
\* observation, it is flat; the source a chain names is by the key alone.
Curves == IF keyed THEN {"fred", "flat"} ELSE {"flat"}

source_name == IF keyed THEN "fred" ELSE "fallback"

\* _compute: whether any contract is left once those that expire today are dropped.
Computed == BOOLEAN

\* The answer is dated when its last page arrives, and without a contract that can
\* be priced there is no snapshot to store; or a ProviderError.
Fetch(r) ==
    /\ request[r].at = "fetch"
    /\ \/ \E curve \in Curves, priced \in Computed :
             request' = [request EXCEPT ![r].at = "set", ![r].built = priced,
                                        ![r].payload = Payload(hour, curve, source_name)]
       \/ request' = [request EXCEPT ![r].at = "failed"]
    /\ UNCHANGED <<keyed, hour, snapshots, cache>>

\* persist_chain, in the transaction, and the payload to Redis, outside it.
Set(r) ==
    /\ request[r].at = "set"
    /\ cache' = request[r].payload
    /\ request' = [request EXCEPT ![r].at = IF request[r].op = "chain" THEN "show" ELSE "commit"]
    /\ UNCHANGED <<keyed, hour, snapshots>>

\* Mutant of Before: every other snapshot may be compared with.
OtherSnapshots(hist, as_of) == hist \ {as_of}

Before(hist, as_of) == {t \in hist : t < as_of}

Distance(t, target) == IF t < target THEN target - t ELSE t - target

\* pick_baseline_ts: the first of the day, or the nearest to so many hours ago.
Baseline(hist, as_of, w) ==
    LET earlier == Before(hist, as_of)
        today == {t \in earlier : t >= (as_of \div DayHours) * DayHours}
        IsBest(t, ts, target) ==
            \A u \in ts : \/ Distance(t, target) < Distance(u, target)
                          \/ Distance(t, target) = Distance(u, target) /\ t <= u
        Nearest(ts, target) ==
            IF ts = {} THEN None ELSE CHOOSE t \in ts : IsBest(t, ts, target)
    IN  IF w = "day" THEN Nearest(today, 0) ELSE Nearest(earlier, as_of - Delta[w])

\* load_oi_history sees what is committed, and what its own transaction persisted;
\* the baselines are picked for the payload's time.
Show(r) ==
    LET hist == snapshots \cup (IF request[r].built THEN {request[r].payload.as_of} ELSE {})
    IN  /\ request[r].at = "show"
        /\ request' = [request EXCEPT ![r].at = "commit",
              ![r].baseline = [w \in Windows |-> Baseline(hist, request[r].payload.as_of, w)]]
        /\ UNCHANGED <<keyed, hour, snapshots, cache>>

Commit(r) ==
    /\ request[r].at = "commit"
    /\ snapshots' = IF request[r].built THEN snapshots \cup {request[r].payload.as_of} ELSE snapshots
    /\ request' = [request EXCEPT ![r].at = "done"]
    /\ UNCHANGED <<keyed, hour, cache>>

\* The process dies: the snapshot is lost, the cached payload is not.
Dies(r) ==
    /\ request[r].at \in {"get", "fetch", "set", "show", "commit"}
    /\ request' = [request EXCEPT ![r] = [Fresh EXCEPT !.at = "failed"]]
    /\ UNCHANGED <<keyed, hour, snapshots, cache>>

Expire ==
    /\ cache # None
    /\ cache' = None
    /\ UNCHANGED <<keyed, hour, snapshots, request>>

Next ==
    \/ Tick
    \/ Expire
    \/ \E r \in Requests :
          \/ BeginChain(r)
          \/ BeginCapture(r)
          \/ Get(r)
          \/ Fetch(r)
          \/ Set(r)
          \/ Show(r)
          \/ Commit(r)
          \/ Dies(r)

Spec == Init /\ [][Next]_vars

-----------------------------------------------------------------------------
(* Properties                                                              *)

\* Open interest is compared with the past only, though the payload may be an old
\* cached one beside newer snapshots, or the request's own: never with itself, with
\* a later hour, or, for the day's change, with yesterday.
ChainFits ==
    \A r \in Requests : \A w \in Windows :
        LET b == request[r].baseline[w]
        IN  b # None => /\ b < request[r].payload.as_of
                        /\ w = "day" => b \div DayHours = request[r].payload.as_of \div DayHours

=============================================================================
