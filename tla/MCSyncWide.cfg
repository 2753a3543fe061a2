SPECIFICATION Spec
CONSTANTS
  QueueSize = 4
  Quantum = 2
  CounterMod = 11
  Flavor = 1
  Readers = {r1}
  Counts = {1, 2}
  Values = {v1, v2}
  None = None
SYMMETRY Symmetry
PROPERTIES RefinesFifo MisalignedForGood
