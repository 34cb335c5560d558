------------------------- MODULE MCMultiWorkerRound -------------------------
EXTENDS MultiWorkerRound, TLC

CONSTANTS r1, r2, a1, a2, a3

\* Each round has assignment ids of its own.
MCHome == (a1 :> {r1}) @@ (a2 :> {r1}) @@ (a3 :> {r2})
MCShared == (a1 :> {r1, r2}) @@ (a2 :> {r1})
Symmetry == Permutations(Cids)
=============================================================================
