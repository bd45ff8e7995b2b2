# A TLA+ model of saalr-platform

saalr-platform is a trading-research service: a FastAPI application, a set of
workers, PostgreSQL with row-level security per tenant, Redis (caches,
idempotency keys and job streams) and external services (brokers, Stripe,
language models, market data).  This directory models the parts where several of
these act on the same facts with no transaction around them: placing, cancelling
and reconciling live orders, filling paper orders, placing the legs of a strategy,
running backtest and research jobs, promoting strategies, following subscriptions
at the payment provider, logging in, and serving what is cached over changing data.
Beside them stand the pure algorithms whose answers users act on: the strategy
builder's payoff analysis and ranking, and the backtest engine.

## 1. Inventory

Each request of the API runs in one READ COMMITTED transaction that
`get_principal` opens before the handler and commits when the request is over
(`auth/dependency.py:126-132`); an `HTTPException` rolls everything back.  With the
FastAPI that `uv.lock` pins, the exit of such a dependency runs after the response has
been sent: a client knows its answer before it is committed, and the commit may still fail.  Calls to
brokers, Stripe and Redis are awaited inside that transaction.  Workers open a
transaction per unit of work (`tenant_session`).

| Component | State | Operations | Talks to | Hard parts | What makes it correct |
|---|---|---|---|---|---|
| Live orders (`apps/api/saalr_api/oms`) | `orders`, `audit_log` | place, cancel | broker inside the transaction | lost answers, retries of a key, crash after the broker call | one order per key here and at the broker, replays agree |
| Reconciliation (`core/oms/reconcile.py`, `apps/oms-worker`) | `executions`, `positions`, `orders.status` | a polling pass per account | broker, database | polls that are old when booked, passes cut short, cancels in between | every traded share is booked once, statuses follow the state machine, or it is known why not |
| Paper orders (`oms/service.py`, `brokers/paper.py`) | `orders`, `executions`, `positions` | place, cancel | database only | read-modify-write of positions, balance read early | position = sum of fills, balance covers buys |
| Order state machine (`core/oms/fsm.py`), broker statuses (`alpaca.py`) | none | `transition`, `map_status` | used by the two above | statuses that do not fit | every order can close |
| Strategy orders (`place_strategy`), Tradier (`tradier.py`) | `orders` | several legs, one transaction | broker | one leg of several failing, a broker without unique ids | a leg is exposed once, what is reported is what is stored |
| Backtest API and worker | `backtests`, Redis key, Redis stream | POST, claim, run, ack | Redis, database | three stores written in sequence, at-least-once delivery | one run per key, a promised run starts |
| Research runs, LLM metering (`research`, `research-agent`, `core/llm`) | `research_notes`, stream, `llm_usage`, transcripts | run, agents' calls, save | language models | redelivery, in-flight check, budget read before spending | overspend bounded, finished notes stay, runs end |
| Billing (`billing`) | `subscriptions`, `billing_events` | checkout, portal, webhooks | Stripe | duplicated and reordered events, concurrent webhooks and upgrades | each event counts once, the row ends as Stripe has it |
| Strategies (`strategies`, `core/strategies/promotion.py`) | `strategies.state`, step-up keys | edit, transition, promote, archive, step-up | paper orders, tiers | gates checked before the write | live only through the gates, a token once |
| Templates, payoff, recommendation (`core/strategies`), regime (`saalr_ml/regime.py`) | none | build, analyse, classify, rank | each other | a curve sampled on a grid | the analysis is true of the payoff, tags and ranks of its risk |
| Backtest engine (`core/backtest`) | none | one run | templates, pricing | rolls, gaps, costs | no money from nowhere, no look-ahead |
| Authentication, sessions (`auth`, `core/db/session.py`) | users, tenants, pool, `app.current_tenant` | resolve, bootstrap, request transactions | Clerk | two first log-ins, a pooled setting, nested connections | one tenant per identity, tenants isolated, requests end |
| Bars and caches (`ingest-worker`, forecast, Monte Carlo, regime) | `bars`, Redis | runs, backfills, read-through | Massive | commits between the reads of a request | an answer fits what it was asked for |
| Option chain (`market`) | snapshots, Redis | chain, capture | Massive, FRED | old payloads beside new snapshots | changes are against the past |
| News sentiment (`ml-worker`, `core/sentiment`) | `news_sentiment` | a run, the card, the drift | feeds | outages that look like silence | a drift has recent news behind it |
| Academy (`content`, `core/rag`, `content-worker`) | `content_embeddings`, `user_progress` | reindex, search, ask, progress | embedding and chat models | two reindex runs, editions side by side | the index is one edition |
| Pricing, forecasting models, account pages, MCP edge, web, infrastructure | - | - | - | numerical, or single reads and writes | - |

`PROJECT.json` lists every component with its status, and under `hazards` what is
hard to test, at the line where it bites.

## 2. The modules

| Module | Models | Lines of thought |
|---|---|---|
| `OrderRules` | `fsm.py`, `map_status`, the status sets of `repo.py` and `cancel_order` | constants and pure operators, shared by the live order modules |
| `OrderLifecycle` | abstract: what the desk promises of an order | status, executed quantity, and whether the last report named no price; statuses follow the table, quantities only grow and fit the status unless that report could not be booked, closed orders stay |
| `IdempotentDesk` | abstract: what a desk with idempotency keys promises the account and its clients | no transactions: each key is executed once, in one step with the cash; a call is told of its key's order, of an error, or beforehand of the order it is placing, a promise that is kept unless the desk dies |
| `JobDelivery` | abstract: what a job queue with workers promises | delivery at least once: a job is owed until a worker that holds it has seen it to its end |
| `LiveOms` | `place_order` (live path), `cancel_order`, `reconcile_account`, `reconcile_once`, the broker | one action per await or commit of each handler; the broker is an environment |
| `PaperOms` | `place_order` (paper path), `upsert_position`, `account_balance`, the buying-power gate | one action per SQL statement whose result another request can change |
| `StrategyOrders` | `place_strategy` over Alpaca or Tradier | the legs of one call in one transaction; refusals caught, with the row they leave or without one |
| `JobStream` | `backtest_queue.py`, `research_queue.py` and the part of the consumers that touches the stream | Redis stream and consumer group, actions without the rest of the system |
| `BacktestJobs` | the POST handler, `run_backtest`, `_process` | extends `JobStream`; one action per store written |
| `ResearchJobs` | `run_research`, `run_research_job`, `metered_complete` | extends `JobStream`; one action per transaction or call |
| `Billing` | `start_upgrade`, `handle_webhook`, `apply_subscription_event`, `record_billing_event`, `upsert_subscription`, the provider | one action per database call whose result another handler can change |
| `Strategies` | the strategies router, its repo, step-up tokens, promotion | every request is a read and a later write of one row |
| `Regime` | `saalr_ml/regime.py` | pure operators in exact fractions |
| `OptionStrategies` | templates, `payoff.py`, `pop.py`, `recommend.py`, `analyze_live` | extends `Regime`; pure operators, one action per endpoint |
| `BacktestEngine` | `engine.py`, `template.py`, `vol.py`, `metrics.py` | extends `OptionStrategies`; a run is a recursive function of the day |
| `Accounts` | `get_principal`, `auth_bootstrap_tenant`, `tenant_session`, the pool, progress, a nested session | one action per statement or connection |
| `MarketData` | the ingest worker, `bars`, the read-through caches | one action per read, commit or cache call |
| `OptionChain` | `market/service.py`, `snapshots.py`, `oi_change.py`, `rates.py` | one action per provider, Redis or commit |
| `NewsSentiment` | `ml_worker`, `news_factory.py` and its feeds, `core/sentiment` | one action per feed and per row |
| `Academy` | `reindex_catalog`, `/content/search`, `/content/ask` | reindex transactions in four steps, reads in one |
| `Services` | the parts around the core side by side | extends `BacktestEngine` and `Accounts`, instantiates the last four |
| `Collections` | - | sums over finite sets, the entries of a sequence that are in a set |
| `CollectionLemmas` | - | what is proved of those, of sequences and of rankings, for all the proofs |
| `*_proofs` | - | theorems about `LiveOms`, `PaperOms`, `BacktestJobs`, `ResearchJobs`, `Billing`, `Strategies` with `StrategyOrders`, and `Services` |
| `MC*` | - | small instances; `MCRules` holds the price scales, for `MCServices` |

Composition: `OrderRules` is used by `LiveOms` and `OrderLifecycle`, and `LiveOms`
implements the latter through a refinement mapping per order.  `PaperOms` implements
`IdempotentDesk`: a key's order is the committed row of that key, the cash is the balance
that `account_balance` would compute, a promise is an answer whose commit is outstanding,
and everything before the answer is a stutter.
`JobStream` is the base of both kinds of job; with their workers both implement
`JobDelivery`: owed are the entries not yet delivered or not acked (`Owed`), in hand is the
rest of a batch (`Hands`), and a job has been seen to its end when its worker's next step is
the ack (`SeenThrough`), also where the outcome could not be written.  `Regime`, `OptionStrategies` and `BacktestEngine` build on each
other as the code's packages do.  `Services` puts these three beside five modules they
share no state with, and `MCStrategies` a strategy beside the orders for its legs: the
variable `part` names the one that runs.

### Live orders

*State.*  `row`, `recorded`, `position`, `audit` are the committed tables.  A
request lends its name to the row it inserts, so `row[r]` is the status of the row
that request `r` inserted and `book[r]` is the broker's order for it.
`recorded[r]` is the sum of the executions of that row.
`place[r]` is where the request is: `missed` (look-up found nothing), `inserted`
(row written, not committed), `accepted` (broker took it, answer formed, commit
outstanding), `done`.  The reconciliation pass has its own uncommitted copies:
`seen` (the ORM objects of the listing), `snap` (what the broker answered), `unpriced`
(the orders it named no average price of), `fills`, `moves`, `netQty` (what it has
flushed).  Two variables are history of the committed passes: `unbooked`, the orders whose
last poll showed shares that were not booked for want of a price, and `early`, the orders
closed here on a status with which the broker still trades.

*Actions.*  `PlaceLookup` is `service.py:67-69`; `PlaceRefuse` every early exit of
71-135, whose "rejected" row is rolled back by the exception raised after it;
`PlaceInsert` the insert with the unique index, which waits for an uncommitted row
with the key and fails on a committed one; `PlaceSubmit`, `PlaceRejected`,
`PlaceUnavailable`, `PlaceTimeout` the outcomes of `submit_order` with what
`_submit_live` does next; `PlaceCommit` the commit in `get_principal`; `PlaceCrash`
the loss of everything uncommitted at any point.  `CancelRead`, `CancelCall`,
`CancelCommit` split `cancel_order` at its await, since the status it checks is
the one it read before.  `ReconcileList`, `ReconcileFetch`, `ReconcileOrder`,
`ReconcileCommit` split a pass at its awaits; `ReconcileAbort` is the exception that
`reconcile_once` isolates.  `ReconcileFetchUnpriced` is a poll in which Alpaca names no
`filled_avg_price` of some orders that have traded: `Delta` then books nothing, and
`NewStatus` moves the status all the same (`reconcile.py:55` and 74-84).

*The broker* (not in the repository) is modelled from how the adapter uses it:
client order ids are unique for good, a working order may fill share by share or
end, a cancel only asks.  Every raw status of `_ALPACA_STATUS` is there, except that "new"
stands for those of an untraded order that read "submitted".  `BrokerPause` sets an order
aside, traded or not (`pending_cancel`, `pending_replace`, `done_for_day`, `suspended`,
`stopped`, `calculated`: three of these read "cancelled" here, two "rejected"),
`BrokerResume` lets it trade again, and `BrokerClose` ends it as cancelled, expired,
replaced or rejected, whether or not it has traded.

*What can go wrong.*  A fill is lost in three ways: around a cancel (`lostfill`), when the
poll that closes the order names no price, and when an order closes here on a status with
which the broker trades on.  `NoLostFill`, `FillsReachTheLedger` and the refinement of
`OrderLifecycle` except `unbooked` and `early` orders and nothing else, which says that
there is no fourth.  An order that traded and is then rejected stays open here for ever,
since `VALID_TRANSITIONS` has no step from "partial" to "rejected" (`Stuck`);
`OpenOrdersClose` says that it is the only one.

### Paper orders

`tx[r]` holds the locals of `place_order`: the row and quantity the first
`get_position` found, and what `upsert_position` decided after the second one.
READ COMMITTED semantics are in the guards: `PaperInsert` waits for the unique
index, `PaperWrite` waits for the row lock of a transaction that wrote the same row
and then fails if the row is gone (SQLAlchemy's `StaleDataError`).  A row that the
session has loaded keeps its old value on a second read (identity map), and an
update leaves out a column whose value it believes unchanged (`touch`).

`PaperAnswer` is the answer the client reads, `PaperCommit` the commit after it, and
`PaperCrash` may come between the two: a client then holds an order that is not there, and
its retry is told of another (`Break` in `IdempotentDesk`).  `OneOrderPerKey` bounds what
such a client may have been told.

The history variables `stale` and `blind` record whether a fill was committed on a
position or a balance that somebody else had changed after it was read.  The
properties say that this is the *only* way the books go wrong.  Nothing in the
code prevents it: both properties fail without the premise, and the hazards say so.

### Strategy orders

`row[l]` is the committed status of leg `l`'s order, `book[l]` the broker's orders for
it; a request carries the results it will answer with and the rows in its session.
`Replay`, `Lookup`, `Insert` are `place_order` for one leg; `RefuseEarly` is every exit
before a row is written (404 and 409, no adapter, credentials or balance unavailable),
`Refuse` that of a gate, whose rejected row stays in the transaction; `Submit` is the broker's
answer read through the adapter's `map_status`, `SubmitFails` the exception that
`place_strategy` turns into "rejected".  The broker is chosen by `LegsInit`, and is `None` when the account is missing, inactive
or of no supported broker.  Alpaca knows a
client order id again and raises when a call fails; Tradier's tag is a label, and its
adapter answers "rejected" for any failure (`AfterFailure`).  `LegsExposedOnce` says what
follows for each of them; `ResultsHonest` is the docstring's promise, which neither keeps.

### Backtest jobs

The handler writes a row (own transaction), a Redis key and a stream entry, in this
order.  `run` is `backtests.status`, `idem` the key, `stream`/`delivered`/`pending`/
`batch` the consumer group.  Time is abstract: a consumer that starts may reclaim any of
the pending entries, the ones idle for 60 s.  `unsaved` is history: runs whose outcome
could not be written.

### Research jobs

`rows` are the notes in the order they were made, `status` theirs, `spent` the month's
`llm_usage`.  A request passes `ApiCached` (a note of the day, or a run in flight, is the
answer), `ApiGate` (daily limit, budget), `ApiCreate` (own transaction) and
`ApiEnqueue`.  A worker's `phase` walks through `run_research_job`: `WorkerLoad` with the
check for a finished note and the budget, `WorkerMark`, then per agent `MeterCheck`, the
call, `MeterRecord`, and at last `WorkerSave` and `WorkerTranscript`, or `WorkerFail`.
`ClockMoves` starts a new day.  `lost` and `overlapped` are history: runs without a job,
or whose outcome was not written, and jobs two running workers had at once.  The
properties except these and nothing else, which says they are the only way.

### Strategies

`handler` holds what each request in progress has read.  A `Start...` action is the read
and every check made on it; the write is an action of its own, since nothing locks the
row between them.  Requests that are refused write nothing and have no action, except
that a promotion spends its token (`VerifyStepUp`, GETDEL) before its gates are judged.
`promotions` is history: what each promotion that committed was judged on.

### Builder and engine

`Registry` is the table of templates, `expiration_curve`, `breakevens`, `max_pl`,
`profit_intervals` and `recommend` the functions of the same names on integers: strikes
and premiums are chosen so that grid points are integers and break-evens on the grid too,
and scores are kept as fractions.  `Entries` are the premiums and `SharePrices` the costs
of shares that a request may carry, which the API does not bound.  `Analyze`, `Build` and `Recommend` put one answer in a variable, and
the properties compare it with the payoff taken at every price.  `run_backtest_engine` is
the day loop as a recursive function of the day, with the same order of roll, cost, cash and
mark; the pricer is
the constant `TimeValue`.  `Regime` computes its labels from integer closes; volatility is
the length of a window's path, where the code takes a standard deviation, and only its
rank among the windows counts.

### Accounts, bars, chain, news, academy

`Accounts`: a request resolves its tenant (`Resolve`), or bootstraps it in a savepoint-free
transaction that the unique indexes may fail, and resolves again; it then draws a connection,
sets `app.current_tenant` for its transaction (`guc`), runs its handler and gives the
connection back.  `saw` collects the tenants its sessions were set to.  A handler that
opens a second session waits in the pool while it holds the first; `PoolTimeout` is the
pool's.  A lesson's progress is flushed (`WriteProgress`, which waits for the row lock or
the index entry of another request), answered (`AnswerProgress`) and only then committed
(`CommitProgress`); the request may die between any two of these.  `MarketData`: a bar is "partial" or "final", a payload is the closes it was
computed from, and every await of a reader is a step.  `OptionChain`: a snapshot is its
time, a payload its time, curve and source; the source is named by the key alone
(`rates.py:74-75`), also when FRED was down and the curve is flat.  `NewsSentiment`:
headlines have a time, a sign and a confidence, and weights halve by the step.  Finnhub and
the RSS feeds are filtered by date here; of Massive only the first page is asked for by
date and nothing is filtered, so `MassiveNews` may answer with headlines of any age.  `Academy`: a row is a slug and the run
that wrote it; `seen` is the snapshot of a DELETE, `gone` what it removed, and the guards
are PostgreSQL's waits on row locks and on the unique index.

### Billing

`customer` is `tenants.stripe_customer_id`, `row` the tenant's row of
`subscriptions`, `recorded` the committed `billing_events`.  `sub` and `sent` are
the provider's side: the subscription each checkout led to and the events reported
so far.  An upgrade request lends its name to the customer and the subscription it
creates.  `UpgradeEnsure`, `UpgradeOffer` and `UpgradeFails` are `start_upgrade` split
at its calls to the provider, with the commit of `get_principal`.

A webhook handler `h` works on event `event[h]`: `Receive` resolves the tenant and
retrieves the subscription of a checkout, `Insert` is `record_billing_event` with its
unique index, `Read` the SELECT of the row and the reducer, `Finish` the UPDATE of the
whole row and the commit.  The tests' invoice events carry a customer and no
metadata, so `Resolves` needs the stored customer for them.  `Applied` is the reducer
on tier and status; a deletion does not look at which subscription is deleted.
`Accepts` is the CHECK on the status: the provider says "canceled", the table
"cancelled".

`orderly` is history: no row was read while an earlier event was uncommitted, and no
checkout was paid while another subscription lived.  `OrderlyMirrors` says that this is
all that correctness of the row depends on.

## 3. The runs

| Run | Instance | Shows |
|---|---|---|
| `orders` | r1 and its retry r2, 2 shares, no cancels, every broker status, 2 faults | a key trades once, replies agree, no fill lost but for want of a price or to an early closing; refines `OrderLifecycle`; fills reach the ledger; orders close unless stuck |
| `cancel` | a buy r1, a sell r3 and one cancel, 1 fault | what survives a cancel that races fills, polls and commits, the net position included |
| `lostfill` | r1, r2 and one cancel, every broker status, 1 fault | violated: fills around a cancel are never booked |
| `paper` | two buys (one with its limit above the mark), a retry, a sell, 1 crash or failed commit, cash for one buy | implements `IdempotentDesk`; books right unless a read was stale or a limit overran the mark |
| `jobs` | a call and its retry, two workers, 2 faults | one run per key, a promised run is held until started, and is started unless a crash strands it; implements `JobDelivery` |
| `jobs_stuck` | one worker, 1 fault | violated: a worker restarted within the minute never reclaims its job |
| `research` | two requests, two workers, two calls a run, a cap of two calls, 1 fault | overspend, redelivery, the end of runs |
| `strategies` | two requests at a time, two tokens, two days of paper trading asked; beside it three calls of a strategy order, two legs, 2 faults, either broker or no account | live was earned, tokens promote once; a leg is exposed once |
| `services` | see below | eight modules around the core |
| `honest` | three calls of one key, two legs, 2 faults | violated: a leg reported rejected works at the broker |
| `webhooks` | two upgrades (pro, premium), two handlers, 3 events, 1 fault | each event applied once; the row follows the provider if nothing overtakes; every event that is not refused is recorded |
| `mirror` | one upgrade, two handlers, 3 events | violated: an older event written last stays |

`services` runs one part at a time: *rules* (every template, grid of nine points,
four premiums and three costs of shares, one of each past the grid, tapes with gaps and rolls, histories that rise, fall and wander);
*accounts* (two requests of three identities, two of which claim one address and two
one subject; two connections); *bars* (one job, two readers, three days); *chain* (two
requests, days of two hours); *news* (one worker that runs again and again, four
headlines); *academy* (two reindex runs, two editions that share a module, one
answer).

*Bounds.*  Two requests of one key let a retry meet every point of the first call, and
two of different keys share the position; the proofs remove the bound for the safety
properties of `LiveOms`.  `Pauses` and `Ends` bound the statuses the broker sets orders
aside and ends them with: all of them in `orders` and `lostfill`; in `cancel`, with two
orders, those that read "rejected" (a suspension and a rejection) and a cancellation, beside
the "pending_cancel" of the cancel call.  `MaxFaults`
counts crashes, failed calls and commits, and polls without prices.  Two shares per order distinguish no, partial and full
fill.  Two faults let a crash follow a lost answer.  `Count` is 2 for backtests so that a
batch can hold both jobs (10 in the code).  Two workers and a cap of two calls let both
read a budget that is not spent yet; with one call a run, only the first read would
matter.  Two handlers suffice for a stale read of a strategy, and the proofs remove that
bound.  Two connections and two requests that need two each are the smallest pool that
locks up.  Runs with liveness have no symmetry.  Three billing events are a checkout, a
failed payment and the payment made good, or a checkout, its deletion and another
checkout.  That `research` implements `JobDelivery` is proved, and not run again: the stream
is the one that `jobs` checks.  The price grid has strikes eight apart and nine points, so that break-evens
fall on and between points and at the end of the grid.  Deadlock is not checked: all
requests may be over and nothing working.

*Fairness.*  `LiveOms`: weak fairness of each step of a pass, because
`run_reconcile` loops and the schedule starts it again; nothing is assumed of
clients or of the broker.  An aborted pass is a fault and faults are bounded, so
"the worker polls successfully from some point on" is what is assumed.
`BacktestJobs`, `ResearchJobs`: weak fairness of a worker's steps and of its restart (the
container platform keeps the task count); nothing is assumed of the API, of a client, or
of which entries a start finds idle.
`Billing`: weak fairness of a handler's steps, and strong fairness of the delivery of
each event that is not recorded, because the provider repeats an event answered
with an error and handlers are only free now and then.
`Accounts`: weak fairness of each request's next step, the pool's time-out included;
clients may stop asking.

*Mutants.*  Every property of a passing run is broken by one named mutant of a
modelled definition (`PaperInsertUnchecked`, `MeterCheckOnce`, ...), defined
just before the definition it stands for.

## 4. What the violations say

1. `lostfill`: `cancel_order` moves an order out of the set reconciliation polls,
   before reconciliation has "confirmed the terminal state" as the comment says.
   The shares traded are in no execution and no position.
2. `jobs_stuck`: `claim_stale` runs at start only.
3. `mirror`: the row is folded from events in the order their handlers write, with
   neither a lock nor the age of an event; a plan change or a deletion can be undone
   by an older event.
4. `honest`: `place_strategy` calls every failed leg rejected, also when the broker took
   the order and only the answer was lost.

Met while modelling and kept as premises or notes of hazards: `profit_intervals` knows the
break-evens of the price grid only, which ends at twice the largest of spot and strikes, so
that of a straddle that costs more than the spot it lists no gaining range and the
probability of profit is zero, while the same analysis calls the profit unbounded
(`ChancesMatchPayoff` holds for all other entry prices; `HiddenByGrid` names these, with the
payoff that leaves zero at the last but one grid point, where the middle of the stretch to
the next lies as near to a point without gain); a poll without an average
price closes an order and books nothing; orders the broker pauses close here, and orders
rejected after a partial fill never do; the state machine is consulted on a stale copy, so
a terminal status can be overwritten; a client is answered before its order or its
completed lesson is committed; Massive's later pages of news are not bounded by date; the audit entry is
written after the broker call, in a transaction a lost answer rolls back; the
buying-power gate prices a limit order at the mark; the look-up of a backtest's key and
its SET NX are separate; Tradier's orders are not reconciled; a promotion that loses to an
archive revives the strategy; the volatility of a Monte Carlo may come from the cache and
other closes than its spot, and a cached answer outlives the bars it was computed from
(`AnswersFit` states neither freshness nor anything else of a cache hit but its tier).

## 5. Proofs

Each theorem is of the form `Spec => []P` (or `Spec => [][A]_vars`, or that the
specification implements an abstract one) and holds for every value of the constants its
module's assumptions allow.  The assumptions say that names differ, that bounds are numbers, that the requests of a behaviour are finitely many
where a sum is taken over them (`RequestsFinite`), and otherwise only what the code
guarantees: `PricesOK` (`_marketable` fills a buy at the mark or at a limit the mark has
not passed) and `OneProvider` (the settings choose one identity provider: every token
proves a subject, or none does).  Of the engine's inputs they say that a tape has finitely
many closes, all of them above zero (`TapesAssumption`), and that the pricer answers with
numbers of the scale (`PricerAssumption`); nothing is said of its shape.  Of the builder's,
that every strike a template asks for is above zero, as are spots and closes, and that a
curve has two points at least (`BuilderAssumption`: the request models refuse other
strikes, spots and closes are prices of the market, the grid has 161 points); of the
regime's windows, that the short average is over fewer days than the long one
(`RegimeAssumption`: 20 and 50).

*Sums and sequences.*  Positions, cash and sentiment are sums over sets, and the
streams are sequences that are cut and filtered.  What a recursive definition computes is an
induction over data; `CollectionLemmas` does those inductions by a least counterexample:
`LeastNumber` and `SmallestSubset` (well-foundedness of `<` and of strict inclusion) turn
a property that fails somewhere into one that fails at a smallest place.  From there come
`SumAdd`, `SumChange`, `SumPlus`, `SumSign`, the entries of an appended, cut or filtered
sequence, and `RankingIsOneToOne` (the ranks of a strict total order number its set).

`LiveOms_proofs`:

- `TypeOK`, `OneOrderPerKey`, `OneExposurePerKey`, `RepliesAgree`, `RowsAreAtBroker`,
  `LedgerWithinBroker` (together `BooksWithinBroker`), `StatusMatchesLedger`, `StatusAudited`,
  `PositionMatchesLedger`;
- without cancels here, `NoLostFill` and the refinement of `OrderLifecycle`.

None of these is inductive.  A pass commits what it computed from a listing and a
poll that are old by then, so the invariant `IInv` says what the copies are worth:
`PassOK` (a listed order is as listed or cancelled since; the ledger is at most the
poll, the poll at most the broker; what is staged is what `Delta` and `NewStatus`
compute, and a listed partial order has traded), `CallsOK` (a request in flight has no visible row; an accepted request
and a reply name an order the broker holds), `BookOK` (the filled quantity fits the
raw status).  `OneOrderPerKey` then follows from two facts, so no run repeats it: a visible
row has its order at the broker, and the broker holds one order per key.  The argument for a
step is split by what it writes: `ApiStep` (neither database nor broker),
`NewBrokerOrder`, `BrokerOrderMoves`, then one lemma per handler.  For the position
(`NetInv`) a pass in progress holds the committed position plus the signed sum of what it
has staged, so that its commit adds the same to both sides.

Without cancels, `QuietInv` adds that a listed order is still as listed, that an order the
broker had finished with when it was polled has not changed since, and that an order closed
here, unless early, is closed there and booked in full unless its last poll named no price;
`LifecycleStep` shows that each step is a step of `OrderLifecycle`, with `unbooked` for its
third variable, or a stutter.  The premise `Cancels = {}` is needed:
`lostfill` is the counterexample with one cancel.

`PaperOms_proofs`: type correctness, `OneOrderPerKey`, `PositionMatchesExecutions`,
`SpendingCovered`.  The argument for the keys is the unique index: from its insert to its
end a row holds its key (`KeyHeld`), so the look-up that a losing insert is answered from
finds the one committed order.  Type correctness needs to know that a flushed update
holds the lock of a row that is there (`WritesTarget`, `RowsLocked`): without it a
deleted position could be written again.  The books are right as long as no fill was
committed on a stale read: a request whose read is not stale holds the sum of the fills
and has decided for the row there is, if there is one (`Current`); a buy that passed the
gate on a fresh balance still has its mark covered (`Passed`), and what the balance may
be below zero is what limits overran the mark by.  `DeskRefinement`: an answer to a request
whose transaction is open is a promise (`Promised`); while its row holds the key no other
request with it can answer, so the answer is a step `Promise`, the commit `Keep`, a crash
in between `Break`, and every other step before an answer a stutter.  The commit of a fill
must move order and cash at once: the cash is a sum over the rows, which changes by
the one row that becomes visible.

`Strategies_proofs`: for any handlers, tokens, required days and length of time, type
correctness, `LiveWasEarned` and `TokensOnce`; for any number of legs, retries and faults,
`LegsExposedOnce`.  The states alone are not enough for the first: a transition computed
from an old read is written over whatever the row is by then.  So the invariant says of
every handler in progress what it knows: one about to write "paused" or "live" has read a
state that only a promotion explains, one about to promote passed its gates with the days
they ask for, and the token it presented has left Redis and is in no other handler's hands
nor in the history of promotions.  For the legs: a request that was refused a leg
early, by a failed call, passes it without a row (`Skips`) and may commit a later one, so
that another request loses the race for that later leg after it has sent the earlier.  The
order that its rollback forgets is charged to the failed call of the request that skipped
(`Skippers`); a request that no one skipped for loses at its first leg and has sent
nothing.  Every order Tradier holds beyond the
recorded one is so charged to a fault of its own (`Exposure`); Alpaca's are one by the client order id.

`BacktestJobs_proofs`: type correctness, `OneRunPerKey` when clients retry only after an
answer (`~Racing`; with racing retries it fails: the look-up and SET NX are two steps), and
`PromisedRunsAreHeld`.  A request under way has its key to itself (`KeyToItself`) and still
knows what the key holds (`KeyAsRead`), so that a failed enqueue takes back its own binding
and nobody else's.  For the promise (`HeldInv`), a run is sent last (`SentLast`,
`PromisedLast`), what is delivered is in the pending entries, in a batch, or over
(`StreamInv`), and a worker acknowledges only what it has started or could not write
(`AckedAreOver`).  `DeliveryRefinement`: that an acked entry is owed no more, and that no
other entry goes with it, needs the stream to hold each job once, batches to hold each of
their jobs once, and what the group has delivered never to be delivered as new again: a
batch comes out of what is owed, be it new or reclaimed, and a crash drops what the worker
held and nothing else.

`ResearchJobs_proofs`: type correctness, `OverspendBounded`, `PromisedRunsAreHeld` and the
action property `FinishedRunsStay`, and that it too implements `JobDelivery`, for any fleet (`Fleet`: finitely many workers, and a
dearest provider).  For the budget the invariant counts what is spent together with what the
calls in progress may add: the call that is let through last saw less than the cap, and
the other workers have one call in progress each at most.  For the promise, `RunInv` says
of every queued note where its job is, whoever was told of it.  A finished note stays
because the one worker that holds its job (`OneHolder`; two do only in `overlapped`) found
it unfinished when it began (`AtWork`).

`Billing_proofs`: for any number of upgrades, handlers, events and faults, `TypeOK` (the
row never takes a status the CHECK forbids), `AppliedOnce`, that a recorded event stays
recorded and is never applied again, and `OrderlyMirrors`.  `AppliedOnce` needs
`InsertsUnique` (of the handlers past the insert of an event there is one, and the
event is not committed: the unique index) and `WorkKnown` (a handler's event was
reported).  `OrderlyMirrors` needs to say how far the row may be ahead of the events
recorded: a checkout's row is read from the provider when its event is handled, so it may
already tell of a later event, and the tier of it survives an invoice (`Fits`).  What it
can be ahead by ends at the first deletion (`Span`); `Checkouts` and `Retrieved` carry this
through a handler, `Finishing` through its last step.

`Services_proofs`, with `ServicesAssumption`: the parts share no state, so each is proved
under the step of `Services` that is its own, and `ServicesKeepPromises` collects them.

- *Engine*: `NoLookAhead`, `EquityAddsUp`.  A backtest is one step of the model, so the
  induction is over the days of a run.  On a tape cut after a day nothing the engine reads up
  to that day differs: the days before it are the same (`CutDays`), a mark needs no later close
  (`CutMarks`), hence every day of the run is (`CutRun`), and the equity curve only grows
  (`CurveGrows`).  For the money, `BooksFit` says after each day: the trades sum to what is
  realized, the equity is the capital, what is realized and the open cycle, each earlier day was
  financed by its position, and there is one position more than there are trades.  The last
  needs to know that positions opened on different days differ (`OpenedApart`: their
  expirations do) and that a cycle lasts a day at least (`CycleLasts`).  For the report, a
  deepest fall exists and is below every fall (`DrawdownIsDeepest`, cross-multiplied).  The
  invariant of the builder behind both is that unpriced legs are legs of a template
  (`LegsFit`).
- *Builder*: `RankingFits`, `TagsHonest`, `AnalysisMatchesPayoff`.  What is shown is always the ranking of the tape that
  was asked about (`RankingInv`).  On a tape that only rises the last close is above both
  averages, the short average above the long one and above its own past
  (`RisingAverages`), so all parts of the trend score point up and the label is a rise
  (`TrendLabels`); a falling tape is a rising one seen in a mirror.  Such a label gives a
  spread of the tape's side more points than any template against it can get; and each template
  of undefined risk has one of defined risk with the same view and volatility, which is
  penalised less (`SaferTemplate`).  For the tags, an analysis is of a template's legs, all of
  them priced (`BuilderInv`).  The grid of its curve reaches past the highest strike
  (`GridReaches`), so the slope of the last step is that of the position above all its
  strikes (`SlopeIsGain`), where it is a number of shares no entry price changes
  (`PositionGain`), template by template (`TagsOfGains`).  For the extremes, no strike lies
  between two neighbours of the grid, so every leg, and by their sum the position, is
  straight there and worth no more and no less than at one of the two (`LegIsStraight`,
  `WorthBetween`); the grid spans from zero to past the strikes (`GridSpans`), and after its
  end the position goes on as the reported slope says.  So the extremes of the curve are
  those of every price (`GridHasExtremes`), whatever the number of points.
- *Accounts*: `OneTenantPerIdentity`, `TenantsIsolated`, `CompletionsKept`.  A user that is
  about to be committed shares no address and no subject with a committed one nor with
  another about to be (`InsertsApart`), and a principal is the tenant of a user its claims
  match.  A connection carries a setting only while an open transaction of its holder has
  made it (`SInv`).  A request that was told
  "completed" sees it in the table, unless it completed the lesson itself and has yet to
  commit, or died before (`Kept`); no request that might write back less holds or waits for
  the row meanwhile (`Locks`, `KInv`).
- *Bars*: `AnswersFit`.  What a key holds was computed for its tier (`StoreFits`), and a
  Monte Carlo that found no cached volatility keeps the closes of its spot (`ReadingFits`).
- *Chain*: `ChainFits`.  A baseline is older than the payload it is compared with, and of
  its day for the window of a day (`ViewingFits`); hours only grow.
- *News*: `SentimentIsNews`.  A row was saved by a run that some feed answered, and says
  what its headlines say (`RowFits`); what a feed that filters by date gave is within the
  look-back (`Given`).  A drift is applied at a total weight above the floor and a
  confident score, so the headlines that pull its way weigh half the floor at least
  (`PullIsBacked`).
- *Academy*: `AcademyFits`.  For any editions of which each two share a module (`Sharing`),
  two reindex runs cannot both insert: the later one waits on the unique index for the
  shared module, and on the row locks for what the other deletes.  `ReindexInv` says so with
  what a run has seen (`Seen`: the index, or rows that are gone), holds (`Holding`) and
  excludes (`Apart`).  That the best hit of each ranking survives fusion and the cut
  (`BestIsFused`, `BestIsKept`) needs no edition: ranks are one-to-one, and of two ranked
  chunks the better one in both comes first.

Only model-checked: liveness (`PromisedRunsStart`, `PromisedRunsEnd`, `RunsEnd`,
`EventsRecorded`, `RequestsEnd`, `FillsReachTheLedger`, `OpenOrdersClose`), which the provers
do not reach; and of the builder `ChancesMatchPayoff`, the probability of profit, which holds
because break-evens fall on the integers of the instance and not for every grid: the model's
interpolation rounds, and the intervals are folded by a recursive definition.

## 6. What the models leave out

- Prices, average prices, fees, except in `PaperOms` and the builder's and engine's scales,
  and that a poll may name none.
- The risk gates other than buying power and the strategy's state: one refusal.
- Rows without an idempotency key: they behave as rows with a key of their own.
- Several accounts and instruments: nothing is shared between them.
- Overlapping reconciliation passes: the docstring of `reconcile_account` excludes
  them; see the hazard.
- The size of a broker's page of orders, the trimming of a stream, the creation of
  the consumer group after the first entry, and the expiry of keys after a day.
- Floating point: `pricing`, the forecasting models and the simulation are float
  arithmetic without state; a model checker has nothing to say about their accuracy.
- Billing periods, `cancel_at_period_end`, prices that map to no tier; a trial counts
  as active, since both are entitled.  Of the statuses the CHECK refuses the model has
  "canceled" only.
- The wording of notes, prompts and lessons; which documents a query matches is any choice.
- Account, onboarding and marketing pages (single-row writes), the MCP tools (read-only
  wiring), the web client, the equity screener, Terraform.

## 7. Plan

In order of what matters most; done items are above.

1. *Done*: orders, live and paper; strategy orders; jobs; research; billing; strategies;
   accounts, each with proofs; builder and engine; bars, chain, news, academy.
2. *Done*: the sums (positions, spending, sentiment), the streams of both kinds of job,
   the mirror of the provider, every part of `Services` with the day loop of the engine, the
   rules of the builder and the extremes of its analysis; the refinements of `OrderLifecycle`,
   `IdempotentDesk` and `JobDelivery`.
3. A reconciliation over two accounts and brokers, once the worker lists more than one
   kind of account.
