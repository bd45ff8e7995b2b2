----------------------------- MODULE Strategies -----------------------------
(***************************************************************************)
(* The life of one strategy (saalr_api/strategies/router.py, repo.py,      *)
(* stepup.py and saalr_core/strategies/state.py, promotion.py): edits,     *)
(* transitions, promotion to live behind its gates, archiving, and the     *)
(* orders that are placed in its name (oms/service.py).                    *)
(*                                                                         *)
(* Every request is a transaction that reads the row first and writes it   *)
(* last, and nothing locks the row in between: two requests may both have  *)
(* read it. A request that is refused writes nothing and has no action,    *)
(* except a promotion, which spends its token before it is judged.         *)
(***************************************************************************)
EXTENDS Integers, Sequences

CONSTANTS
    Handlers,       \* requests in progress at one time
    Tokens,         \* step-up tokens that may be issued
    NoToken,        \* a request without one
    MinPaperDays,   \* days since the first paper order (14 in the code)
    MaxDay          \* bound on the clock

ASSUME StrategyAssumption ==
    /\ NoToken \notin Tokens
    /\ MinPaperDays \in Nat
    /\ MaxDay \in Nat

VARIABLES
    state,          \* strategies.state
    config,         \* strategies.config_json: "first" or "edited"
    first_paper,    \* day of the earliest paper order, or Never
    token,          \* step-up keys in Redis
    brokers,        \* whether the tenant's tier allows live trading
    day,            \* the clock
    handler,        \* the requests in progress
    promotions      \* history: the promotions committed, with what they were judged on

vars == <<state, config, first_paper, token, brokers, day, handler, promotions>>

Never == -1
StrategyState == {"draft", "backtested", "paper", "live", "paused", "archived"}

VALID_TRANSITIONS ==
    [draft      |-> {"backtested", "archived"},
     backtested |-> {"draft", "paper", "archived"},
     paper      |-> {"live", "draft", "archived"},
     live       |-> {"paused", "archived"},
     paused     |-> {"live", "archived"},
     archived   |-> {}]

Executable == {"paper", "live"}

Idle == [op |-> "none"]

\* What is remembered of a request between its read and its write.
Requests ==
    [op : {"none", "patch"}]
    \cup [op : {"move"}, target : StrategyState]
    \cup [op : {"verify", "promote"}, seen : StrategyState, brokers : BOOLEAN,
          token : Tokens \cup {NoToken}, step_up : BOOLEAN]
    \cup [op : {"order"}, account : {"paper", "live"}, created : Nat]

TypeOK ==
    /\ state \in StrategyState
    /\ config \in {"first", "edited"}
    /\ first_paper \in Nat \cup {Never}
    /\ token \in [Tokens -> {"unissued", "valid", "gone"}]
    /\ brokers \in BOOLEAN
    /\ day \in Nat
    /\ handler \in [Handlers -> Requests]
    /\ promotions \in Seq([token : Tokens \cup {NoToken}, days : Int])

\* create_strategy has just committed the row.
Init ==
    /\ state = "draft"
    /\ config = "first"
    /\ first_paper = Never
    /\ token = [t \in Tokens |-> "unissued"]
    /\ brokers \in BOOLEAN
    /\ day = 0
    /\ handler = [h \in Handlers |-> Idle]
    /\ promotions = << >>

-----------------------------------------------------------------------------
(* The requests read the row...                                            *)

Begin(h, request) ==
    /\ handler[h] = Idle
    /\ handler' = [handler EXCEPT ![h] = request]
    /\ UNCHANGED <<state, config, first_paper, brokers, day, promotions>>

\* PATCH: only a draft can be edited.
StartPatch(h) ==
    /\ state = "draft"
    /\ Begin(h, [op |-> "patch"])
    /\ UNCHANGED token

\* Mutant of StartTransition: paper -> live is a transition like any other.
StartTransitionToLive(h, target) ==
    /\ target \in VALID_TRANSITIONS[state]
    /\ Begin(h, [op |-> "move", target |-> target])
    /\ UNCHANGED token

StartTransition(h, target) ==
    /\ target \in VALID_TRANSITIONS[state]
    /\ <<state, target>> # <<"paper", "live">>
    /\ Begin(h, [op |-> "move", target |-> target])
    /\ UNCHANGED token

\* DELETE does not ask the state machine.
StartArchive(h) ==
    /\ Begin(h, [op |-> "move", target |-> "archived"])
    /\ UNCHANGED token

\* The challenge issues a token and changes nothing else.
PromoteChallenge(h, t) ==
    /\ handler[h] = Idle
    /\ token[t] = "unissued"
    /\ token' = [token EXCEPT ![t] = "valid"]
    /\ UNCHANGED <<state, config, first_paper, brokers, day, handler, promotions>>

StartPromote(h, t) ==
    /\ Begin(h, [op |-> "verify", seen |-> state, brokers |-> brokers, token |-> t,
                 step_up |-> FALSE])
    /\ UNCHANGED token

\* An order with the strategy's id passes the risk gate in an executable state,
\* whichever account it is for.
StartOrder(h, account) ==
    /\ state \in Executable
    /\ Begin(h, [op |-> "order", account |-> account, created |-> day])
    /\ UNCHANGED token

-----------------------------------------------------------------------------
(* ... and write it.                                                       *)

Patch(h) ==
    /\ handler[h].op = "patch"
    /\ config' = "edited"
    /\ handler' = [handler EXCEPT ![h] = Idle]
    /\ UNCHANGED <<state, first_paper, token, brokers, day, promotions>>

Move(h) ==
    /\ handler[h].op = "move"
    /\ state' = handler[h].target
    /\ handler' = [handler EXCEPT ![h] = Idle]
    /\ UNCHANGED <<config, first_paper, token, brokers, day, promotions>>

Valid(t) == t \in Tokens /\ token[t] = "valid"

\* Mutant of VerifyStepUp: the token is read, and left to its time limit.
VerifyStepUpByGet(h) ==
    /\ handler[h].op = "verify"
    /\ handler' = [handler EXCEPT ![h].op = "promote", ![h].step_up = Valid(handler[h].token)]
    /\ UNCHANGED <<state, config, first_paper, token, brokers, day, promotions>>

\* GETDEL takes the token, whatever becomes of the request.
VerifyStepUp(h) ==
    LET t == handler[h].token
    IN  /\ handler[h].op = "verify"
        /\ handler' = [handler EXCEPT ![h].op = "promote", ![h].step_up = Valid(t)]
        /\ token' = IF Valid(t) THEN [token EXCEPT ![t] = "gone"] ELSE token
        /\ UNCHANGED <<state, config, first_paper, brokers, day, promotions>>

evaluate_promotion(request) ==
    /\ request.seen = "paper"
    /\ request.brokers
    /\ first_paper # Never
    /\ day - first_paper >= MinPaperDays
    /\ request.step_up

\* The gates are judged on the row read at the beginning; state and audit entry
\* commit together.
Promote(h) ==
    /\ handler[h].op = "promote"
    /\ handler' = [handler EXCEPT ![h] = Idle]
    /\ IF evaluate_promotion(handler[h])
       THEN /\ state' = "live"
            /\ promotions' = Append(promotions,
                  [token |-> handler[h].token, days |-> day - first_paper])
       ELSE UNCHANGED <<state, promotions>>
    /\ UNCHANGED <<config, first_paper, token, brokers, day>>

\* created_at is the time the request's transaction began.
Order(h) ==
    /\ handler[h].op = "order"
    /\ handler' = [handler EXCEPT ![h] = Idle]
    /\ first_paper' =
           IF handler[h].account = "paper"
              /\ (first_paper = Never \/ handler[h].created < first_paper)
           THEN handler[h].created
           ELSE first_paper
    /\ UNCHANGED <<state, config, token, brokers, day, promotions>>

\* A request fails, or its process dies, before it commits.
Abort(h) ==
    /\ handler[h] # Idle
    /\ handler' = [handler EXCEPT ![h] = Idle]
    /\ UNCHANGED <<state, config, first_paper, token, brokers, day, promotions>>

-----------------------------------------------------------------------------
(* Time, tokens that run out, and the subscription (see Billing).          *)

Tick ==
    /\ day < MaxDay
    /\ day' = day + 1
    /\ UNCHANGED <<state, config, first_paper, token, brokers, handler, promotions>>

TokenExpires(t) ==
    /\ token[t] = "valid"
    /\ token' = [token EXCEPT ![t] = "gone"]
    /\ UNCHANGED <<state, config, first_paper, brokers, day, handler, promotions>>

TierChanges ==
    /\ brokers' = ~brokers
    /\ UNCHANGED <<state, config, first_paper, token, day, handler, promotions>>

Request(h) ==
    \/ StartPatch(h)
    \/ \E target \in StrategyState : StartTransition(h, target)
    \/ StartArchive(h)
    \/ \E t \in Tokens : PromoteChallenge(h, t)
    \/ \E t \in Tokens \cup {NoToken} : StartPromote(h, t)
    \/ \E account \in {"paper", "live"} : StartOrder(h, account)
    \/ Patch(h)
    \/ Move(h)
    \/ VerifyStepUp(h)
    \/ Promote(h)
    \/ Order(h)
    \/ Abort(h)

Next ==
    \/ \E h \in Handlers : Request(h)
    \/ Tick
    \/ \E t \in Tokens : TokenExpires(t)
    \/ TierChanges

Spec == Init /\ [][Next]_vars

-----------------------------------------------------------------------------
(* Properties                                                              *)

\* However requests race, a strategy trades live, or is paused from it, only after
\* a promotion that passed its gates with a paper record of MinPaperDays: no stale
\* transition or archive gets round /promote.
LiveWasEarned ==
    state \in {"live", "paused"} =>
        \E i \in DOMAIN promotions : promotions[i].days >= MinPaperDays

\* A step-up token promotes once, even when two requests present it at the same
\* time, and a request without one never does.
TokensOnce ==
    /\ \A i \in DOMAIN promotions : promotions[i].token \in Tokens
    /\ \A i, j \in DOMAIN promotions : promotions[i].token = promotions[j].token => i = j

=============================================================================
