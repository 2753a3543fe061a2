----------------------------- MODULE MCEventFlag -----------------------------
EXTENDS EventFlag, TLC

CONSTANTS t1, t2, t3, a, b

OneMask == {{a}, {a, b}}
AllMasks == SUBSET {a, b}

\* Threads are never ordered, bits never compared but for equality.
Symmetry == Permutations(Threads) \cup Permutations(Bits)
=============================================================================
