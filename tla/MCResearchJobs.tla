--------------------------- MODULE MCResearchJobs ---------------------------
(***************************************************************************)
(* Small instances of ResearchJobs for TLC.                                *)
(***************************************************************************)
EXTENDS ResearchJobs

CONSTANTS r1, r2, t1, t2, w1, w2, p1

TwoTickers == [r \in {r1, r2} |-> IF r = r1 THEN t1 ELSE t2]

Rates == [p \in Providers |-> 1]
=============================================================================
