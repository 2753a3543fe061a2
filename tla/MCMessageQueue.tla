---------------------------- MODULE MCMessageQueue ----------------------------
EXTENDS MessageQueue, TLC
Symmetry == Permutations(Values) \cup Permutations(Readers)
=============================================================================
