------------------------------ MODULE MCLeases ------------------------------
\* Small instances of Leases for TLC.
EXTENDS Leases, TLC

Symmetry == Permutations(LeaseIds) \cup Permutations(Holders) \cup Permutations(Units)
=============================================================================
