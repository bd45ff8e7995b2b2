--------------------------- MODULE MCBacktestJobs ---------------------------
(***************************************************************************)
(* Small instances of BacktestJobs for TLC.                                *)
(***************************************************************************)
EXTENDS BacktestJobs

CONSTANTS r1, r2, r3, k1, k2, w1, w2

\* A call and its retry.
RetryJobs == {r1, r2}
RetryKeyOf == [r \in RetryJobs |-> k1]
=============================================================================
