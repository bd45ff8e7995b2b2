------------------------------ MODULE Services ------------------------------
(***************************************************************************)
(* The parts around the trading core: the strategy builder and the backtest*)
(* engine, logins and tenant transactions (these EXTENDed), bars and the   *)
(* caches over them, the option chain, news, and the academy. They share   *)
(* no state, so a behaviour of one says nothing of the others: "part" names*)
(* the one that runs, and the others keep their initial states.            *)
(***************************************************************************)
EXTENDS BacktestEngine, Accounts

CONSTANTS
    Jobs, Readers, DefaultDays, MaxDay,                 \* of MarketData
    DayHours, MaxHour,                                  \* of OptionChain
    Runs, Lookback, MaxAge, MaxTime, Limit, Wire,       \* of NewsSentiment
    Editions, Reindexes, Limits                         \* of Academy

\* Periods and clocks are numbers, the news are finitely many headlines, editions are
\* sequences, one result at least is asked for, and the names of reindex runs are apart
\* from the one for an index from before.
ASSUME ServicesAssumption ==
    /\ {MaxDay, MaxHour, MaxTime, Lookback, MaxAge} \subseteq Nat
    /\ DayHours \in Nat \ {0}
    /\ IsFiniteSet(Wire)
    /\ Wire \subseteq [at : 0 .. MaxTime + 1, score : {-1, 1}, confidence : 1 .. 40]
    /\ \A e \in Editions : e \in Seq(ToSet(e))
    /\ Limits \subseteq Nat \ {0}
    /\ None \notin Reindexes

VARIABLES
    part,
    day, closed, bars, job, store, reader,
    keyed, hour, snapshots, shown, viewer,
    now, feeds, latest, run,
    index, worker, answer

Bars == INSTANCE MarketData WITH cache <- store
Chain == INSTANCE OptionChain WITH cache <- shown, request <- viewer
News == INSTANCE NewsSentiment
Academy == INSTANCE Academy

barVars == <<day, closed, bars, job, store, reader>>
chainVars == <<keyed, hour, snapshots, shown, viewer>>
newsVars == <<now, feeds, latest, run>>
academyVars == <<index, worker, answer>>

ServicesInit ==
    /\ part \in {"rules", "accounts", "bars", "chain", "news", "academy"}
    /\ EngineInit
    /\ AccountsInit /\ (part # "accounts" => users = {})
    /\ Bars!Init /\ (part # "bars" => day = 0)
    /\ Chain!Init /\ (part # "chain" => hour = 0 /\ ~keyed)
    /\ News!Init /\ (part # "news" => feeds = <<"massive">>)
    /\ Academy!Init /\ (part # "academy" => index = {})

ServicesNext ==
    \/ /\ part = "rules" /\ EngineNext
       /\ UNCHANGED <<part, accountVars, barVars, chainVars, newsVars,
                     academyVars>>
    \/ /\ part = "accounts" /\ AccountsNext
       /\ UNCHANGED <<part, engineVars, barVars, chainVars, newsVars,
                     academyVars>>
    \/ /\ part = "bars" /\ Bars!Next
       /\ UNCHANGED <<part, engineVars, accountVars, chainVars, newsVars,
                     academyVars>>
    \/ /\ part = "chain" /\ Chain!Next
       /\ UNCHANGED <<part, engineVars, accountVars, barVars, newsVars,
                     academyVars>>
    \/ /\ part = "news" /\ News!Next
       /\ UNCHANGED <<part, engineVars, accountVars, barVars, chainVars,
                     academyVars>>
    \/ /\ part = "academy" /\ Academy!Next
       /\ UNCHANGED <<part, engineVars, accountVars, barVars, chainVars, newsVars>>

ServicesSpec ==
    /\ ServicesInit
    /\ [][ServicesNext]_<<part, engineVars, accountVars, barVars, chainVars, newsVars,
                      academyVars>>
    /\ Fairness

AnswersFit == Bars!AnswersFit
ChainFits == Chain!ChainFits
SentimentIsNews == News!SentimentIsNews
AcademyFits == Academy!AcademyFits

TypeOK == AccountsTypeOK /\ Bars!TypeOK /\ Chain!TypeOK /\ News!TypeOK
          /\ Academy!TypeOK

=============================================================================
