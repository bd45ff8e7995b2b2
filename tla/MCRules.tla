------------------------------- MODULE MCRules -------------------------------
(* The strategy builder and the backtest engine on a small price scale. *)
EXTENDS BacktestEngine

\* Series that wander around ten in steps around a tenth, every series that only
\* rises or only falls in some range, and one too short.
MCHistories ==
    LET rising == {Ascending(prices) : prices \in kSubset(6, 8 .. 15)}
    IN  [1 .. 6 -> {10, 12, 13}] \cup rising \cup {Reverse(tape) : tape \in rising} \cup {<<10, 11, 12>>}

\* Premiums and costs of shares near the spot, and so large that a break-even lies past
\* the grid; outcomes on the grid and far past it.
MCEntries == {0, 2, 6, 80}
MCSharePrices == {0, 32, 80}
MCSpots == {32, 64}
MCOutcomes == {2 * i + 1 : i \in 0 .. 39} \cup {101, 201, 401}

\* Closes before the period, a gap around an expiration, a last day that rolls,
\* and a tape with a single bar in the period.
MCTapes == {
    (0 :> 30) @@ (1 :> 36) @@ (2 :> 32) @@ (3 :> 32) @@ (4 :> 40) @@ (5 :> 25) @@ (6 :> 33),
    (2 :> 32) @@ (3 :> 28) @@ (6 :> 44),
    (0 :> 32) @@ (2 :> 40) @@ (4 :> 36) @@ (5 :> 21) @@ (7 :> 60),
    (0 :> 30) @@ (3 :> 32) }
MCTimeValue(sigma, days) == sigma * days

=============================================================================
