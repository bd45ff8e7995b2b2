--------------------------- MODULE BacktestEngine ---------------------------
(***************************************************************************)
(* The backtest engine (saalr_core/backtest/engine.py, template.py,        *)
(* vol.py): the position of a strategy is made relative to the first day's *)
(* spot, instantiated, marked every day and rolled whenever its nearest    *)
(* leg expires. It is a pure function of the closes, so one action runs it *)
(* and the properties compare its results.                                 *)
(*                                                                         *)
(* A day is a number; a bar's close is a price of OptionStrategies' scale. *)
(* The pricing model is the operator TimeValue, whatever it is; volatility *)
(* is measured by the spread of the window's closes.                       *)
(***************************************************************************)
EXTENDS OptionStrategies

CONSTANTS
    Tapes,              \* series of closes, each a function of some days
    Start, End,         \* the simulated period
    Dtes,               \* days to expiration a leg may have
    VolLookback,
    Capital,
    Costs,              \* commission and slippage per contract (0: not included)
    TimeValue(_, _)     \* what an option is worth above intrinsic, by volatility and days left

\* Days and prices are whole numbers, and a tape has finitely many closes,
\* all of them above zero.
ASSUME TapesAssumption ==
    /\ {Start, End, Capital} \subseteq Int
    /\ Dtes \subseteq Nat /\ Costs \subseteq Nat
    /\ \A closes \in Tapes :
          /\ IsFiniteSet(DOMAIN closes) /\ DOMAIN closes \subseteq Int
          /\ \A d \in DOMAIN closes : closes[d] \in Nat \ {0}

VARIABLE backtest   \* the last backtest: its inputs and result, or NoBacktest

NoBacktest == [status |-> "none"]

SimDays(closes) == {d \in DOMAIN closes : Start <= d /\ d <= End}
VOL_FLOOR == 1

-----------------------------------------------------------------------------
(* Volatility and marks                                                    *)

\* Mutant of VolWindow: the window is the end of the tape, whatever the day.
VolWindowAtEnd(closes, d) ==
    {e \in DOMAIN closes : Cardinality({f \in DOMAIN closes : f > e}) <= VolLookback}

\* The last VolLookback + 1 days with a close, up to and including d.
VolWindow(closes, d) ==
    {e \in DOMAIN closes :
        e <= d /\ Cardinality({f \in DOMAIN closes : e < f /\ f <= d}) <= VolLookback}

vol_at(closes, d) ==
    LET window == {closes[e] : e \in VolWindow(closes, d)}
    IN  IF Cardinality(VolWindow(closes, d)) < 3 THEN VOL_FLOOR
        ELSE Max({Max(window) - Min(window), VOL_FLOOR})

\* Whole numbers, as prices are here.
ASSUME PricerAssumption ==
    \A closes \in Tapes, dte \in Dtes : \A d \in DOMAIN closes, left \in 1 .. dte :
        TimeValue(vol_at(closes, d), left) \in Int

UnitValue(leg, spot, sigma, d) ==
    Intrinsic(leg, spot) + (IF leg.expiry <= d THEN 0 ELSE TimeValue(sigma, leg.expiry - d))

LegValue(leg, spot, sigma, d) ==
    CASE leg.kind = "option" -> leg.sign * leg.qty * OPTION_MULTIPLIER * UnitValue(leg, spot, sigma, d)
      [] leg.kind = "equity" -> leg.sign * leg.qty * spot
      [] leg.kind = "cash"   -> 0

\* What the position is worth on day d.
PositionValue(held, closes, d) ==
    SumOver([i \in DOMAIN held |-> LegValue(held[i], closes[d], vol_at(closes, d), d)],
            DOMAIN held)

CycleCost(held, cost) ==
    SumOver([i \in DOMAIN held |-> IF held[i].kind = "option" THEN held[i].qty * cost ELSE 0],
            DOMAIN held)

-----------------------------------------------------------------------------
(* The relative template                                                   *)

\* Python's round of n / d: halves go to the even neighbour.
RoundHalfEven(n, d) ==
    LET q == n \div d
        r == n % d
    IN  IF 2 * r > d \/ (2 * r = d /\ q % 2 = 1) THEN q + 1 ELSE q

\* from_config refuses a leg that expires on or before the reference day, and a
\* position without options.
Templatable(config) ==
    /\ \E i \in DOMAIN config : config[i].kind = "option"
    /\ \A i \in DOMAIN config : config[i].kind = "option" => config[i].dte > 0

cycle_dte(config) == Min({config[i].dte : i \in {j \in DOMAIN config : config[j].kind = "option"}})

\* The strike keeps its distance from the spot, relative to the first day.
instantiate(config, ref_spot, spot, d) ==
    [i \in DOMAIN config |->
        IF config[i].kind # "option" THEN config[i]
        ELSE With([config[i] EXCEPT !.strike = RoundHalfEven(spot * @, ref_spot)],
                  "expiry", d + config[i].dte)]

-----------------------------------------------------------------------------
(* The engine                                                              *)

\* The cycle opened on day d.
open_cycle(config, closes, cost, d) ==
    LET ref  == closes[Min(SimDays(closes))]
        held == instantiate(config, ref, closes[d], d)
    IN  [legs |-> held, entry |-> PositionValue(held, closes, d),
         cost |-> CycleCost(held, cost), front |-> d + cycle_dte(config)]

\* Profit of a cycle closed on day d, after both its costs.
CyclePnl(cycle, closes, cost, d) ==
    (PositionValue(cycle.legs, closes, d) - cycle.entry) - (cycle.cost + CycleCost(cycle.legs, cost))

\* Mutant of Rolled: the new cycle keeps the entry value of the old one.
RolledKeepingEntry(run, config, closes, cost, d) ==
    LET pnl == CyclePnl(run.cycle, closes, cost, d)
    IN  [run EXCEPT !.realized = @ + pnl, !.trades = Append(@, pnl),
                    !.cycle = [open_cycle(config, closes, cost, d) EXCEPT !.entry = run.cycle.entry]]

\* At the front expiry the whole position is settled and opened again.
Rolled(run, config, closes, cost, d) ==
    LET pnl == CyclePnl(run.cycle, closes, cost, d)
    IN  [run EXCEPT !.realized = @ + pnl, !.trades = Append(@, pnl),
                    !.cycle = open_cycle(config, closes, cost, d)]

EngineDay(run, config, closes, cost, d) ==
    LET now == IF d >= run.cycle.front THEN Rolled(run, config, closes, cost, d) ELSE run
        open == PositionValue(now.cycle.legs, closes, d) - now.cycle.entry - now.cycle.cost
    IN  [now EXCEPT !.equity = Append(@, Capital + now.realized + open),
                    !.held = Append(@, now.cycle.legs)]

\* The equity of every day and the profit of every cycle, the last one included.
\* held, the position of every day, is kept for the properties.
run_backtest_engine(config, closes, cost) ==
    LET days == Ascending(SimDays(closes))
        runTo[i \in 0 .. Len(days)] ==
            IF i = 0 THEN [cycle |-> open_cycle(config, closes, cost, days[1]), realized |-> 0,
                           equity |-> << >>, trades |-> << >>, held |-> << >>]
            ELSE EngineDay(runTo[i - 1], config, closes, cost, days[i])
        run  == runTo[Len(days)]
        last == days[Len(days)]
    IN  IF last < run.cycle.front
        THEN [run EXCEPT !.trades = Append(@, CyclePnl(run.cycle, closes, cost, last))]
        ELSE run

-----------------------------------------------------------------------------
(* What is reported of a run (metrics.py). Fractions are [num, den]; the    *)
(* ratios of annual means to deviations are left out.                      *)

total_return(equity) ==
    IF equity[1] = 0 THEN [num |-> 0, den |-> 1]
    ELSE [num |-> Last(equity) - equity[1], den |-> equity[1]]

\* The deepest fall from the highest equity so far, once that is positive.
max_drawdown(equity) ==
    LET peak(i) == Max({equity[j] : j \in 1 .. i})
        falls == {[num |-> equity[i] - peak(i), den |-> peak(i)] :
                      i \in {j \in DOMAIN equity : peak(j) > 0}} \cup {[num |-> 0, den |-> 1]}
    IN  CHOOSE f \in falls : \A g \in falls : f.num * g.den <= g.num * f.den

metrics(run) ==
    [total_return |-> total_return(run.equity), max_drawdown |-> max_drawdown(run.equity),
     wins |-> Cardinality({i \in DOMAIN run.trades : run.trades[i] > 0}),
     trades |-> Len(run.trades)]

-----------------------------------------------------------------------------
(* A backtest of the position in the builder                               *)

engineVars == <<vars, backtest>>

EngineInit == Init /\ backtest = NoBacktest

\* The legs with their expirations: short legs in near days, the others in far days.
Configured(near, far) ==
    [i \in DOMAIN legs |->
        IF legs[i].kind = "option"
        THEN With(legs[i], "dte", IF legs[i].sign = -1 THEN near ELSE far)
        ELSE legs[i]]

\* The worker's second phase: too few bars or a leg already expired fail the run.
\* (Bound: unpriced positions only; the engine does not look at entry prices.)
Backtest(closes, near, far, cost) ==
    LET config == Configured(near, far)
    IN  /\ template # NoTemplate
        /\ \A i \in DOMAIN legs : "entry" \notin DOMAIN legs[i]
        /\ backtest = NoBacktest
        /\ backtest' =
              IF Cardinality(SimDays(closes)) < 2 \/ ~Templatable(config)
              THEN [status |-> "failed"]
              ELSE [status |-> "succeeded", config |-> config, closes |-> closes, cost |-> cost,
                    run |-> run_backtest_engine(config, closes, cost)]
        /\ UNCHANGED vars

EngineNext ==
    \/ Next /\ backtest = NoBacktest /\ UNCHANGED backtest
    \/ \E closes \in Tapes, near, far \in Dtes, cost \in Costs : Backtest(closes, near, far, cost)

EngineSpec == EngineInit /\ [][EngineNext]_engineVars

-----------------------------------------------------------------------------
(* Properties                                                              *)

Sum(numbers) == SumOver(numbers, DOMAIN numbers)

\* Money comes only from the market: between two days the equity changes by what
\* the held position gained, less the costs of closing and reopening on a roll,
\* and the trades' profits add up to the equity but for the cost of closing the
\* last cycle, which only the trade carries.
SelfFinancing ==
    backtest.status = "succeeded" =>
        LET run    == backtest.run
            closes == backtest.closes
            days   == Ascending(SimDays(closes))
            fee(i) == CycleCost(run.held[i], backtest.cost)
            gain(i) == PositionValue(run.held[i], closes, days[i + 1])
                           - PositionValue(run.held[i], closes, days[i])
            fees(i) == IF run.held[i] = run.held[i + 1] THEN 0 ELSE fee(i) + fee(i + 1)
        IN  /\ run.equity[1] = Capital - fee(1)
            /\ \A i \in 1 .. Len(days) - 1 :
                  run.equity[i + 1] - run.equity[i] = gain(i) - fees(i)
            /\ Last(run.equity) = Capital + Sum(run.trades) + fee(Len(days))

\* The report is of the same run: no loss is deeper than the drawdown while there is
\* equity left, there is a trade for each position held, and a loss without any losing trade, or a gain without
\* any winning one, is no more than the costs of opening the first cycle and closing the
\* last. (The return counts from the equity of the first day, which has paid its opening.)
ReportAgrees ==
    backtest.status = "succeeded" =>
        LET run    == backtest.run
            report == metrics(run)
            fee(i) == CycleCost(run.held[i], backtest.cost)
            gain   == Last(run.equity) - run.equity[1]
            base   == run.equity[1]
        IN  /\ base > 0 /\ gain < 0 /\ Last(run.equity) >= 0 =>
                   report.max_drawdown.num * base <= gain * report.max_drawdown.den
            /\ report.wins = 0 => gain <= fee(1) + fee(Len(run.held))
            /\ report.wins = report.trades => gain >= 0
            /\ Cardinality(ToSet(run.held)) = report.trades

EquityAddsUp == SelfFinancing /\ ReportAgrees

\* No day's equity depends on a later close: cut the tape after any day, and the
\* curve up to that day is the same.
NoLookAhead ==
    backtest.status = "succeeded" =>
        LET closes == backtest.closes
            days   == Ascending(SimDays(closes))
            until(d) == [e \in {f \in DOMAIN closes : f <= d} |-> closes[e]]
        IN  \A i \in 2 .. Len(days) :
               run_backtest_engine(backtest.config, until(days[i]), backtest.cost).equity
                   = SubSeq(backtest.run.equity, 1, i)

=============================================================================
