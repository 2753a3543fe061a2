SPECIFICATION Spec
CONSTANTS
  QueueSize = 2
  Quantum = 1
  CounterMod = 6
  Flavor = 2
  Readers = {r1, r2}
  Counts = {1, 2, 3}
  Values = {v1, v2}
  None = None
SYMMETRY Symmetry
INVARIANTS GrantsHold RecentInRing CopiesAreExact
