---------------------------- MODULE MCQueueReset ----------------------------
EXTENDS QueueReset, TLC
Symmetry == Permutations(Values) \cup Permutations(Readers)
=============================================================================
