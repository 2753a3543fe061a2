---------------------------- MODULE MCNamedQueues ----------------------------
EXTENDS NamedQueues, TLC
Symmetry == Permutations(Procs) \cup Permutations(Objects)
=============================================================================
