---------------------------- MODULE NewsSentiment ----------------------------
(***************************************************************************)
(* News sentiment of one symbol. The ML worker (ml_worker/cli.py) asks the *)
(* configured feeds for recent headlines (saalr_core/marketdata/news*.py), *)
(* scores and aggregates them (ml_worker/finbert.py, saalr_core/sentiment/)*)
(* and adds a row; GET /v1/market/sentiment shows the latest row, and a    *)
(* Monte Carlo (montecarlo/router.py) tilts its drift by it.               *)
(*                                                                         *)
(* Time is counted in half-lives of a headline's weight (72 hours), and    *)
(* weights in fortieths of a headline the scorer is sure of.               *)
(***************************************************************************)
EXTENDS Collections, FiniteSets, Integers, Sequences

CONSTANTS
    Runs,           \* runs of `ml_worker sentiment`
    None,
    Lookback,       \* --lookback-hours
    MaxAge,         \* SENTIMENT_MAX_AGE_HOURS
    MaxTime,        \* bound on the clock
    Limit,          \* headlines a keyed or RSS feed is asked for (50)
    Wire            \* the headlines there are, a set of Headlines

VARIABLES
    now,
    feeds,          \* settings.news_provider: the feeds, in the order they are tried
    latest,         \* the row of news_sentiment with the last computed_at, or None
    run             \* the worker's runs

vars == <<now, feeds, latest, run>>

Providers ==
    {<<"massive">>, <<"finnhub">>, <<"yahoo", "google">>, <<"finnhub", "yahoo", "google">>}

\* When a headline is dated, and what FinBERT makes of it: which way it pulls, and how
\* sure it is.
Headline == [at : 0 .. MaxTime + 1, score : {-1, 1}, confidence : 1 .. 40]

NotStarted == [at |-> "new", as_of |-> None, left |-> << >>, answered |-> FALSE, news |-> {}]

TypeOK ==
    /\ Wire \subseteq Headline
    /\ now \in 0 .. MaxTime
    /\ feeds \in Providers
    /\ latest = None \/ latest.news \subseteq Wire
    /\ \A w \in Runs : run[w].at \in {"new", "ask", "save", "ended"}

Init ==
    /\ now = 0
    /\ feeds \in Providers
    /\ latest = None
    /\ run = [w \in Runs |-> NotStarted]

Tick ==
    /\ now < MaxTime
    /\ now' = now + 1
    /\ UNCHANGED <<feeds, latest, run>>

-----------------------------------------------------------------------------
(* aggregate_sentiment                                                     *)

MinWeight == 4

\* Halved with every half-life; a headline from the future counts as new.
Weight(h, as_of) == h.confidence \div 2 ^ (IF h.at < as_of THEN as_of - h.at ELSE 0)

aggregate_sentiment(news, as_of) ==
    LET total == SumOver([h \in news |-> Weight(h, as_of)], news)
        pull == SumOver([h \in news |-> h.score * Weight(h, as_of)], news)
        sure == total >= MinWeight
    IN  [score |-> IF sure THEN pull ELSE 0, confident |-> sure,
         label |-> CASE sure /\ 100 * pull > 15 * total -> "bullish"
                     [] sure /\ 100 * pull < -15 * total -> "bearish"
                     [] OTHER -> "neutral"]

-----------------------------------------------------------------------------
(* The worker: refresh_symbol                                              *)

\* Every symbol of a run is judged as of the run's start.
StartRun(w) ==
    /\ run[w].at \in {"new", "ended"}
    /\ run' = [run EXCEPT ![w] = [NotStarted EXCEPT !.at = "ask", !.as_of = now, !.left = feeds]]
    /\ UNCHANGED <<now, feeds, latest>>

\* Headlines appear by their date, or a little before it.
Published == {h \in Wire : h.at <= now + 1}

Recent(as_of) == {h \in Published : h.at >= as_of - Lookback}

\* What a feed may answer. Massive is asked for recent headlines with the first page
\* only, is read to the last page its links lead to, and nothing is filtered here: a
\* later page may hold anything. Finnhub and the RSS feeds are filtered, and cut, by the
\* caller. A body that is no list, or no XML, is an answer without headlines.
MassiveNews(as_of) == SUBSET Published
FinnhubNews(as_of) == {items \in SUBSET Recent(as_of) : Cardinality(items) <= Limit}
RssNews(as_of)     == {items \in SUBSET Recent(as_of) : Cardinality(items) <= Limit}

News(feed, as_of) ==
    CASE feed = "massive"             -> MassiveNews(as_of)
      [] feed = "finnhub"             -> FinnhubNews(as_of)
      [] feed \in {"yahoo", "google"} -> RssNews(as_of)

\* Mutant of Exhausted: when no feed can be reached there is no news.
ExhaustedQuietly(answered) == "save"

\* After the last feed: an empty answer if any was reached, else a ProviderError.
Exhausted(answered) == IF answered THEN "save" ELSE "ended"

\* The first feed that has a headline is it.
FeedAnswers(w) ==
    /\ run[w].at = "ask"
    /\ \E items \in News(Head(run[w].left), run[w].as_of) :
          LET left == Tail(run[w].left)
          IN  run' = [run EXCEPT ![w].answered = TRUE, ![w].news = items, ![w].left = left,
                 ![w].at = IF items # {} THEN "save"
                           ELSE IF left = << >> THEN Exhausted(TRUE) ELSE "ask"]
    /\ UNCHANGED <<now, feeds, latest>>

\* No key, an error status, or three attempts that failed.
FeedFails(w) ==
    /\ run[w].at = "ask"
    /\ LET left == Tail(run[w].left)
       IN  run' = [run EXCEPT ![w].left = left,
              ![w].at = IF left = << >> THEN Exhausted(run[w].answered) ELSE "ask"]
    /\ UNCHANGED <<now, feeds, latest>>

\* save_sentiment and the commit; computed_at is the database's clock.
Save(w) ==
    /\ run[w].at = "save"
    /\ latest' = [aggregate |-> aggregate_sentiment(run[w].news, run[w].as_of),
                  as_of |-> run[w].as_of, computed_at |-> now,
                  news |-> run[w].news, answered |-> run[w].answered]
    /\ run' = [run EXCEPT ![w] = [NotStarted EXCEPT !.at = "ended"]]
    /\ UNCHANGED <<now, feeds>>

RunDies(w) ==
    /\ run[w].at \in {"ask", "save"}
    /\ run' = [run EXCEPT ![w] = [NotStarted EXCEPT !.at = "ended"]]
    /\ UNCHANGED <<now, feeds, latest>>

Next ==
    \/ Tick
    \/ \E w \in Runs :
          \/ StartRun(w)
          \/ FeedAnswers(w)
          \/ FeedFails(w)
          \/ Save(w)
          \/ RunDies(w)

Spec == Init /\ [][Next]_vars

-----------------------------------------------------------------------------
(* Readers of latest_sentiment, which change nothing.                      *)

\* GET /v1/market/sentiment: the row, however old.
Shown == IF latest = None THEN [score |-> 0, confident |-> FALSE, label |-> "neutral"]
         ELSE latest.aggregate

\* What a Monte Carlo with use_sentiment makes of it.
Verdict ==
    CASE latest = None -> "no_data"
      [] latest # None /\ ~Shown.confident -> "low_confidence"
      [] Shown.confident -> IF now - latest.computed_at > MaxAge THEN "stale" ELSE "applied"

-----------------------------------------------------------------------------
(* Properties                                                              *)

\* The headlines of the row that pull its way.
Backing == {h \in latest.news : h.score * Shown.score > 0}

\* Whenever a Monte Carlo would tilt its drift, the headlines that pull this way still
\* weighed, by their age, half the floor that is set against "thin or stale data"; and
\* none is older than the look-back, the age a row may have and the time the worker took
\* from its start to the row, unless Massive was read past its first page.
DriftHasNews ==
    Verdict = "applied" /\ Shown.score # 0 =>
        /\ 2 * SumOver([h \in latest.news |-> Weight(h, latest.as_of)], Backing) >= MinWeight
        /\ feeds # <<"massive">> =>
              \A h \in latest.news :
                  now - h.at <= Lookback + MaxAge + (latest.computed_at - latest.as_of)

\* An outage of the feeds is not taken for a quiet week: it leaves the row there was.
OutageIsNoNews == latest # None => latest.answered

SentimentIsNews == DriftHasNews /\ OutageIsNoNews

=============================================================================
