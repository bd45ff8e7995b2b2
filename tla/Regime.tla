------------------------------- MODULE Regime -------------------------------
(***************************************************************************)
(* The market regime of a series of daily closes (saalr_ml/regime.py):     *)
(* which way it goes, how volatile it is for its year, and whether it      *)
(* moves or wanders. Thresholds are the code's; they are written without   *)
(* the divisions, so integer closes lose nothing. Volatility is measured   *)
(* by the sum of a window's daily changes.                                 *)
(***************************************************************************)
EXTENDS Integers, FiniteSets, FiniteSetsExt, Sequences

CONSTANTS
    Short, Long,    \* the windows of 20 and 50 closes
    Year,           \* windows a volatility is compared with (252)
    MinCloses       \* closes there must be (60)

ASSUME RegimeAssumption ==
    /\ {Short, Long, Year, MinCloses} \subseteq Nat \ {0}
    /\ Short < Long /\ MinCloses >= 2 * Short /\ MinCloses >= Long

Abs(n) == IF n < 0 THEN -n ELSE n
Sign(n) == IF n > 0 THEN 1 ELSE IF n < 0 THEN -1 ELSE 0

Total(closes, first, last) == MapThenSumSet(LAMBDA i : closes[i], first .. last)

-----------------------------------------------------------------------------
(* Direction                                                               *)

\* Two fifths: on which sides of each other the close and its averages are; three
\* fifths: how the short average moved, a tenth or more counting fully.
trend_score(closes) ==
    LET n     == Len(closes)
        now   == Total(closes, n - Short + 1, n)
        past  == Total(closes, n - 2 * Short + 1, n - Short)
        long  == Total(closes, n - Long + 1, n)
        sides == Sign(closes[n] * Short - now) + Sign(closes[n] * Long - long)
                     + Sign(now * Long - long * Short)
        slope == Max({-past, Min({10 * (now - past), past})})
    IN  [num |-> 2 * sides * past + 9 * slope, den |-> 15 * past]

direction_label(t) ==
    CASE 5 * t.num >= 3 * t.den                           -> "strong_bullish"
      [] 5 * t.num < 3 * t.den /\ 5 * t.num >= t.den      -> "bullish"
      [] 5 * t.num < t.den /\ 5 * t.num > -t.den          -> "neutral"
      [] 5 * t.num <= -t.den /\ 5 * t.num > -3 * t.den    -> "bearish"
      [] 5 * t.num <= -3 * t.den                          -> "strong_bearish"

-----------------------------------------------------------------------------
(* Volatility                                                              *)

\* The volatility of the Short changes that end with close i.
Path(closes, i) ==
    MapThenSumSet(LAMBDA j : Abs(closes[j] - closes[j - 1]), i - Short + 1 .. i)

\* How many of the year's windows are no more volatile than the last, of how many.
realized_vol_percentile(closes) ==
    LET n    == Len(closes)
        tail == {i \in Short + 1 .. n : i > n - Year}
    IN  [num |-> Cardinality({i \in tail : Path(closes, i) <= Path(closes, n)}),
         den |-> Cardinality(tail)]

vol_label(pct) ==
    CASE 100 * pct.num > 66 * pct.den -> "high"
      [] 100 * pct.num < 33 * pct.den -> "low"
      [] OTHER                        -> "normal"

-----------------------------------------------------------------------------
(* Momentum                                                                *)

\* The way made over the way gone; nothing gone counts as nothing made.
efficiency_ratio(closes) ==
    LET n == Len(closes)
    IN  [num |-> Abs(closes[n] - closes[n - Short]), den |-> Max({Path(closes, n), 1})]

momentum_label(er) == IF 10 * er.num >= 3 * er.den THEN "trending" ELSE "range_bound"

classify_regime(closes) ==
    [direction |-> direction_label(trend_score(closes)),
     volatility |-> vol_label(realized_vol_percentile(closes)),
     momentum |-> momentum_label(efficiency_ratio(closes))]

=============================================================================
