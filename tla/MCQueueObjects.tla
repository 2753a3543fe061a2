---------------------------- MODULE MCQueueObjects ----------------------------
EXTENDS QueueObjects, TLC

CONSTANTS o1, o2, p1

\* As in the tests (NegativeAidlDescriptor).
EditedQuanta == {-1}

\* Objects are never ordered and are alike.
Symmetry == Permutations(Objects)
=============================================================================
