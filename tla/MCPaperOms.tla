----------------------------- MODULE MCPaperOms -----------------------------
(***************************************************************************)
(* Small instances of PaperOms for TLC.                                    *)
(***************************************************************************)
EXTENDS PaperOms

CONSTANTS r1, r2, r3, r4, k1, k2, k3

\* A buy and its retry, a second buy, and a sell.
DeskRequests == {r1, r2, r3, r4}
DeskKeyOf == [r \in DeskRequests |->
                 CASE r \in {r1, r2} -> k1 [] r = r3 -> k2 [] OTHER -> k3]

\* The second buy has its limit above the mark: marketable, it fills at it.
DeskPriceOf == [k \in {k1, k2, k3} |-> IF k = k2 THEN Mark + 2 ELSE Mark]
=============================================================================
