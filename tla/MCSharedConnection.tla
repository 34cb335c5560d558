-------------------------- MODULE MCSharedConnection --------------------------
\* Small instances of SharedConnection for TLC.
EXTENDS SharedConnection, TLC

Symmetry == Permutations(Gated) \cup Permutations(Plain)
=============================================================================
