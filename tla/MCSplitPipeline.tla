--------------------------- MODULE MCSplitPipeline ---------------------------
\* Small instances of SplitPipeline for TLC.
EXTENDS SplitPipeline, TLC

\* Nothing tells apart two micro units, or two launches of the same kind.
Symmetry == Permutations(Micro) \cup Permutations(Launches \ Journaled)
=============================================================================
