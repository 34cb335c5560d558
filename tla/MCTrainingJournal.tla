--------------------------- MODULE MCTrainingJournal ---------------------------
\* Small instances of TrainingJournal for TLC.
EXTENDS TrainingJournal

\* Any sum may be off, and as generic_recovery_tests.py:152-154 found for Qwen:
\* two steps are put together exactly, and the third is not reached.
MCAnyRounding  == [e \in Examples |-> Offs]
MCQwenRounding == [e \in Examples |-> IF e = 1 THEN {"exact"} ELSE {"exact", "ulp"}]
=============================================================================
