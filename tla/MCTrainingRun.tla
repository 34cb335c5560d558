---------------------------- MODULE MCTrainingRun ----------------------------
\* Small instances of TrainingRun for TLC.
EXTENDS TrainingRun, TLC
=============================================================================
