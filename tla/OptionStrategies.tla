-------------------------- MODULE OptionStrategies --------------------------
(***************************************************************************)
(* The strategy builder's arithmetic: the templates                        *)
(* (saalr_core/strategies/templates.py), the analysis of a position at     *)
(* expiration (payoff.py, pop.py, aggregate.py, and analyze_pure of        *)
(* saalr_api/strategies/service.py), and the ranking of templates for the  *)
(* regime of a market (recommend.py on Regime's labels).                   *)
(*                                                                         *)
(* Prices are integers, chosen by the instance so that the grid and the    *)
(* break-evens fall on integers: every template has slopes of one contract.*)
(* A leg is [kind, call, sign, strike, qty, entry]; cash collateral has no *)
(* payoff and no strike.                                                   *)
(***************************************************************************)
EXTENDS Regime, SequencesExt, Collections

CONSTANTS
    Atm,        \* the at-the-money strike, and the spot
    Width,      \* distance between strikes
    Entries,    \* entry prices an option may have
    SharePrices,\* prices the shares may have been bought at
    Points,     \* points of the spot grid (bound: 161 in the code)
    Spots,      \* spot prices of a live analysis
    Histories,  \* closes a market may have
    Outcomes    \* prices at expiration, equally likely; none of them a break-even

\* Strikes, spots and closes are prices: above zero, those of the widest template too.
ASSUME BuilderAssumption ==
    /\ {Atm, Width, Points} \subseteq Nat /\ Atm > 2 * Width /\ Points > 1
    /\ Entries \cup SharePrices \subseteq Int /\ Spots \subseteq Nat \ {0}
    /\ \A closes \in Histories : closes \in Seq(Nat \ {0})

OPTION_MULTIPLIER == 100

-----------------------------------------------------------------------------
(* Templates                                                               *)

Option(call, sign, steps, qty) ==
    [kind |-> "option", call |-> call, sign |-> sign, strike |-> Atm + steps * Width, qty |-> qty]
BuyCall(steps)   == Option(TRUE, 1, steps, 1)
SellCall(steps)  == Option(TRUE, -1, steps, 1)
BuyPut(steps)    == Option(FALSE, 1, steps, 1)
SellPut(steps)   == Option(FALSE, -1, steps, 1)
Twice(leg)       == [leg EXCEPT !.qty = 2]
Shares           == [kind |-> "equity", call |-> FALSE, sign |-> 1, strike |-> 0, qty |-> 100]
Cash             == [kind |-> "cash", call |-> FALSE, sign |-> 1, strike |-> 0, qty |-> 0]

\* What a template is tagged with, and its legs.
Tagged(view, vol, risk, reward, level, legs) ==
    [view |-> view, vol |-> vol, risk |-> risk, reward |-> reward, level |-> level, legs |-> legs]

\* Mutant of Registry: the ratio spread is tagged by its debit, not by its naked call.
RegistryTrusting ==
    [ call_ratio_spread |-> Tagged("bullish", "short_vol", "defined", "defined", "advanced",
                                  <<BuyCall(0), Twice(SellCall(1))>>) ]

Registry ==
    [ bull_call_spread |-> Tagged("bullish", "neutral", "defined", "defined", "beginner",
                                  <<BuyCall(0), SellCall(1)>>),
      bear_put_spread |-> Tagged("bearish", "neutral", "defined", "defined", "beginner",
                                  <<BuyPut(0), SellPut(-1)>>),
      long_straddle |-> Tagged("volatile", "long_vol", "defined", "undefined", "intermediate",
                                  <<BuyCall(0), BuyPut(0)>>),
      long_strangle |-> Tagged("volatile", "long_vol", "defined", "undefined", "intermediate",
                                  <<BuyCall(1), BuyPut(-1)>>),
      iron_condor |-> Tagged("neutral", "short_vol", "defined", "defined", "intermediate",
                                  <<BuyPut(-2), SellPut(-1), SellCall(1), BuyCall(2)>>),
      iron_butterfly |-> Tagged("neutral", "short_vol", "defined", "defined", "intermediate",
                                  <<BuyPut(-1), SellPut(0), SellCall(0), BuyCall(1)>>),
      covered_call |-> Tagged("bullish", "short_vol", "undefined", "defined", "beginner",
                                  <<Shares, SellCall(1)>>),
      cash_secured_put |-> Tagged("bullish", "short_vol", "undefined", "defined", "beginner",
                                  <<SellPut(0), Cash>>),
      long_calendar |-> Tagged("neutral", "long_vol", "defined", "undefined", "advanced",
                                  <<SellCall(0), BuyCall(0)>>),
      bull_put_spread |-> Tagged("bullish", "short_vol", "defined", "defined", "beginner",
                                  <<SellPut(0), BuyPut(-1)>>),
      bear_call_spread |-> Tagged("bearish", "short_vol", "defined", "defined", "beginner",
                                  <<SellCall(0), BuyCall(1)>>),
      short_straddle |-> Tagged("neutral", "short_vol", "undefined", "defined", "advanced",
                                  <<SellCall(0), SellPut(0)>>),
      short_strangle |-> Tagged("neutral", "short_vol", "undefined", "defined", "advanced",
                                  <<SellCall(1), SellPut(-1)>>),
      protective_put |-> Tagged("bullish", "long_vol", "defined", "undefined", "beginner",
                                  <<Shares, BuyPut(-1)>>),
      collar |-> Tagged("bullish", "neutral", "defined", "defined", "intermediate",
                                  <<Shares, BuyPut(-1), SellCall(1)>>),
      call_ratio_spread |-> Tagged("bullish", "short_vol", "undefined", "defined", "advanced",
                                  <<BuyCall(0), Twice(SellCall(1))>>),
      put_ratio_spread |-> Tagged("bearish", "short_vol", "undefined", "defined", "advanced",
                                  <<BuyPut(0), Twice(SellPut(-1))>>),
      jade_lizard |-> Tagged("neutral", "short_vol", "undefined", "defined", "advanced",
                                  <<SellPut(-1), SellCall(1), BuyCall(2)>>),
      call_butterfly |-> Tagged("neutral", "short_vol", "defined", "defined", "intermediate",
                                  <<BuyCall(-1), Twice(SellCall(0)), BuyCall(1)>>),
      put_butterfly |-> Tagged("neutral", "short_vol", "defined", "defined", "intermediate",
                                  <<BuyPut(1), Twice(SellPut(0)), BuyPut(-1)>>),
      broken_wing_butterfly |-> Tagged("neutral", "short_vol", "defined", "defined", "advanced",
                                  <<BuyCall(-1), Twice(SellCall(0)), BuyCall(2)>>) ]

Templates == DOMAIN Registry

-----------------------------------------------------------------------------
(* Payoff at expiration                                                    *)

Strikes(legs) == {leg.strike : leg \in {l \in ToSet(legs) : l.kind = "option"}}

Intrinsic(leg, s) == IF leg.call THEN Max({s - leg.strike, 0}) ELSE Max({leg.strike - s, 0})

LegPnl(leg, s) ==
    CASE leg.kind = "option" -> leg.sign * (Intrinsic(leg, s) - leg.entry) * OPTION_MULTIPLIER * leg.qty
      [] leg.kind = "equity" -> leg.sign * (s - leg.entry) * leg.qty
      [] leg.kind = "cash"   -> 0

Pnl(legs, s) == SumOver([i \in DOMAIN legs |-> LegPnl(legs[i], s)], DOMAIN legs)

\* A set of prices in ascending order.
Ascending(prices) ==
    [i \in 1 .. Cardinality(prices) |->
        CHOOSE p \in prices : Cardinality({q \in prices : q <= p}) = i]

\* The grid reaches twice as far as the spot and every strike.
GridEnd(legs, spot) == 2 * Max({spot} \cup Strikes(legs))

\* Mutant of expiration_curve: an even grid, which may step over a strike.
expiration_curveEven(legs, spot) ==
    LET hi     == GridEnd(legs, spot)
        sorted == Ascending({(i * hi) \div (Points - 1) : i \in 0 .. Points - 1})
    IN  [i \in DOMAIN sorted |-> [spot |-> sorted[i], pnl |-> Pnl(legs, sorted[i])]]

expiration_curve(legs, spot) ==
    LET hi   == GridEnd(legs, spot)
        grid == {(i * hi) \div (Points - 1) : i \in 0 .. Points - 1} \cup Strikes(legs)
        sorted == Ascending(grid)
    IN  [i \in DOMAIN sorted |-> [spot |-> sorted[i], pnl |-> Pnl(legs, sorted[i])]]

Zeros(curve) == {curve[i].spot : i \in {j \in 1 .. Len(curve) - 1 : curve[j].pnl = 0}}

\* Where the curve changes sign between two points, by linear interpolation.
Crossings(curve) ==
    LET at(a, b) == a.spot + ((a.spot - b.spot) * a.pnl) \div (b.pnl - a.pnl)
    IN  {at(curve[i], curve[i + 1]) :
            i \in {j \in 1 .. Len(curve) - 1 : curve[j].pnl * curve[j + 1].pnl < 0}}

\* Mutant of breakevens: a grid point that is itself a zero is missed.
breakevensCrossed(curve) == Ascending(Crossings(curve))

breakevens(curve) == Ascending(Zeros(curve) \cup Crossings(curve))

max_pl(curve) ==
    LET pnls  == {curve[i].pnl : i \in DOMAIN curve}
        slope == curve[Len(curve)].pnl - curve[Len(curve) - 1].pnl
    IN  [max_profit |-> Max(pnls), max_loss |-> Min(pnls),
         unbounded_profit |-> slope > 0, unbounded_loss |-> slope < 0]

\* hi = NoPrice stands for an interval that never ends.
NoPrice == -1

\* The stretches between break-evens whose middle, at the nearest grid point, gains.
profit_intervals(curve) ==
    LET bes   == breakevens(curve)
        lows  == <<0>> \o bes
        highs == bes \o <<NoPrice>>
        end(k) == IF highs[k] = NoPrice THEN curve[Len(curve)].spot ELSE highs[k]
        off(i, k) == LET d == 2 * curve[i].spot - (lows[k] + end(k)) IN IF d < 0 THEN -d ELSE d
        nearest(k) == CHOOSE i \in DOMAIN curve :
                          /\ \A j \in DOMAIN curve : off(i, k) <= off(j, k)
                          /\ \A j \in 1 .. i - 1 : off(i, k) < off(j, k)
    IN  {[lo |-> lows[k], hi |-> highs[k]] : k \in {n \in DOMAIN lows : curve[nearest(n)].pnl > 0}}

\* The probability that the price ends in an interval; below is the distribution,
\* whatever its shape, as a number of equally likely prices.
probability_of_profit(intervals, below(_)) ==
    FoldSet(LAMBDA i, sum : sum + (IF i.hi = NoPrice THEN Cardinality(Outcomes) ELSE below(i.hi))
                                - below(i.lo), 0, intervals)

Below(price) == Cardinality({o \in Outcomes : o < price})

-----------------------------------------------------------------------------
(* Ranking for a market regime                                             *)

\* The view that contradicts a direction.
Against == [strong_bullish |-> "bearish", bullish |-> "bearish", neutral |-> "none",
            bearish |-> "bullish", strong_bearish |-> "bullish"]
Agrees(view, direction) ==
    \/ view = direction
    \/ direction = "strong_bullish" /\ view = "bullish"
    \/ direction = "strong_bearish" /\ view = "bearish"

DirPoints(view, direction) ==
    CASE Agrees(view, direction)   -> 3
      [] view = Against[direction] -> -2
      [] OTHER                     -> 1

VolPoints(view, vol) ==
    IF vol = "normal" THEN IF view = "neutral" THEN 2 ELSE 1
    ELSE IF view = "neutral" THEN 1
    ELSE IF (vol = "high") = (view = "short_vol") THEN 3 ELSE -1

Bonus(view, momentum) ==
    IF <<momentum, view>> \in {<<"trending", "volatile">>, <<"range_bound", "neutral">>} THEN 1 ELSE 0

\* Mutant of Penalty: only complexity counts.
PenaltyForComplexity(t) == IF t.level = "advanced" THEN 1 ELSE 0

Penalty(t) == (IF t.risk = "undefined" THEN 2 ELSE 0) + (IF t.level = "advanced" THEN 1 ELSE 0)

\* Score of every template; the ranking is by descending score, ties by key.
recommend(regime) ==
    [key \in Templates |->
        LET t == Registry[key]
        IN  DirPoints(t.view, regime.direction) + VolPoints(t.vol, regime.volatility)
                + Bonus(t.view, regime.momentum) - Penalty(t)]

-----------------------------------------------------------------------------
(* The builder: a position is built from a template, priced and analysed.  *)

VARIABLES
    template,   \* the chosen template, or NoTemplate
    legs,       \* its legs, priced or not
    analysis,   \* the analysis of the priced legs, or NoAnalysis
    market,     \* the closes of the market last asked about
    ranking     \* the templates' scores for its regime

vars == <<template, legs, analysis, market, ranking>>

NoTemplate == "none"
NoAnalysis == [spot |-> NoPrice]
Unpriced(leg) == leg.kind # "cash" /\ "entry" \notin DOMAIN leg

Init ==
    /\ template = NoTemplate
    /\ legs = << >>
    /\ analysis = NoAnalysis
    /\ market = << >>
    /\ ranking = << >>

Build(key) ==
    /\ template = NoTemplate
    /\ template' = key
    /\ legs' = Registry[key].legs
    /\ market' = << >> /\ ranking' = << >>
    /\ UNCHANGED analysis

\* The caller, or the chain, gives a leg its entry price; 0 also stands for none.
\* Shares are never priced from the chain.
PriceLeg(i, entry) ==
    /\ Unpriced(legs[i])
    /\ entry \in (IF legs[i].kind = "equity" THEN SharePrices ELSE Entries)
    /\ \A j \in 1 .. i - 1 : ~Unpriced(legs[j])
    /\ legs' = [legs EXCEPT ![i] = With(@, "entry", entry)]
    /\ UNCHANGED <<template, analysis, market, ranking>>

\* analyze_pure anchors the grid at the mean strike, analyze_live at the spot.
AnchorSpot ==
    LET options == {i \in DOMAIN legs : legs[i].kind = "option"}
    IN  SumOver([i \in options |-> legs[i].strike], options) \div Cardinality(options)

Analysis(spot) ==
    LET curve == expiration_curve(legs, spot)
        intervals == profit_intervals(curve)
    IN  [spot |-> spot, result |-> max_pl(curve), intervals |-> intervals,
         pop |-> probability_of_profit(intervals, Below)]

Analyze ==
    /\ template # NoTemplate
    /\ \A i \in DOMAIN legs : ~Unpriced(legs[i])
    /\ analysis = NoAnalysis
    /\ \E spot \in Spots \cup {AnchorSpot} : analysis' = Analysis(spot)
    /\ UNCHANGED <<template, legs, market, ranking>>

\* Fewer than MinCloses closes are refused.
Recommend(closes) ==
    /\ template = NoTemplate
    /\ ranking = << >>
    /\ Len(closes) >= MinCloses
    /\ market' = closes
    /\ ranking' = recommend(classify_regime(closes))
    /\ UNCHANGED <<template, legs, analysis>>

Next ==
    \/ \E key \in Templates : Build(key)
    \/ \E i \in DOMAIN legs, entry \in Entries \cup SharePrices : PriceLeg(i, entry)
    \/ Analyze
    \/ \E closes \in Histories : Recommend(closes)

Spec == Init /\ [][Next]_vars

-----------------------------------------------------------------------------
(* Properties                                                              *)

\* Prices up to well past the grid, for the payoff an analysis must agree with.
Far == GridEnd(legs, analysis.spot) + 2 * Width
Payoff == [s \in 0 .. Far |-> Pnl(legs, s)]

\* An analysis, computed from a sampled curve, tells the truth about the payoff at
\* every price, on the grid or off it: its extremes, and which of them has no bound.
AnalysisMatchesPayoff ==
    analysis # NoAnalysis =>
        LET r == analysis.result
        IN  /\ r.unbounded_profit <=> Payoff[Far] > Payoff[Far - 1]
            /\ r.unbounded_loss <=> Payoff[Far] < Payoff[Far - 1]
            /\ ~r.unbounded_profit => r.max_profit = Max({Payoff[s] : s \in DOMAIN Payoff})
            /\ ~r.unbounded_loss => r.max_loss = Min({Payoff[s] : s \in DOMAIN Payoff})

\* A gain or loss that the grid does not show: the payoff crosses zero at the grid's end
\* or past it, where its last line has no strike left to turn at; or it leaves zero for a
\* gain at the point before the end, which is then the nearest to the middle of the
\* stretch between them.
HiddenByGrid ==
    LET curve == expiration_curve(legs, analysis.spot)
        end   == curve[Len(curve)]
        slope == Pnl(legs, end.spot + 1) - end.pnl
    IN  \/ end.pnl = 0
        \/ end.pnl * slope < 0
        \/ end.pnl > 0 /\ curve[Len(curve) - 1].pnl = 0

\* And of how likely the position gains: the intervals between break-evens hold the
\* outcomes that gain and no others, wherever the price ends; for all entry prices but
\* those that put a break-even out of the grid's sight.
ChancesMatchPayoff ==
    analysis # NoAnalysis /\ ~HiddenByGrid =>
        analysis.pop = Cardinality({o \in Outcomes : Pnl(legs, o) > 0})

\* What a template's tags promise of its risk and reward, its payoff keeps at any
\* entry prices: a loss without bound is tagged "undefined", and so is a gain.
TagsHonest ==
    analysis # NoAnalysis =>
        /\ analysis.result.unbounded_loss => Registry[template].risk = "undefined"
        /\ analysis.result.unbounded_profit => Registry[template].reward = "undefined"

\* recommend's "retail-safety bias": in every regime each template of undefined
\* risk scores below some template of defined risk.
SafeTemplatesLead ==
    \A key \in DOMAIN ranking : Registry[key].risk = "undefined" =>
        \E safe \in Templates : Registry[safe].risk = "defined" /\ ranking[key] < ranking[safe]

\* What leads the ranking goes with the tape: while every close is above the last, no
\* leader is a bet on a fall, and while every close is below it, none on a rise.
TrendLeads ==
    LET leads(key) == \A other \in Templates : ranking[other] <= ranking[key]
        steady(above(_, _)) == \A i \in 2 .. Len(market) : above(market[i], market[i - 1])
    IN  \A key \in DOMAIN ranking : leads(key) =>
            /\ steady(LAMBDA a, b : a > b) => Registry[key].view # "bearish"
            /\ steady(LAMBDA a, b : a < b) => Registry[key].view # "bullish"

RankingFits == SafeTemplatesLead /\ TrendLeads

=============================================================================
