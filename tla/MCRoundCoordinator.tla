------------------------- MODULE MCRoundCoordinator -------------------------
\* Small instances of RoundCoordinator for TLC.
EXTENDS RoundCoordinator, TLC

Symmetry == UNION {Permutations(S) : S \in {Asgs, Cids, Models, Adapters, PreHashes}}
=============================================================================
