-------------------------- MODULE MCTrainingServer --------------------------
\* Small instances of TrainingServer for TLC.
EXTENDS TrainingServer, TLC

Symmetry == Permutations(LeaseIds)
=============================================================================
