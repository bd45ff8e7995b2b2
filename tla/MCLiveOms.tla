------------------------------ MODULE MCLiveOms ------------------------------
(***************************************************************************)
(* Small instances of LiveOms for TLC.                                     *)
(***************************************************************************)
EXTENDS LiveOms

CONSTANTS r1, r2, r3, k1, k2, c1

\* An order and its retry.
RetryRequests == {r1, r2}
RetryKeyOf == [r \in RetryRequests |-> k1]

\* A buy and a sell that share nothing but the account.
PairRequests == {r1, r3}
PairKeyOf == [r \in PairRequests |-> IF r = r3 THEN k2 ELSE k1]
=============================================================================
