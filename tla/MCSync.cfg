SPECIFICATION Spec
CONSTANTS
  QueueSize = 3
  Quantum = 1
  CounterMod = 6
  Flavor = 1
  Readers = {r1}
  Counts = {0, 1, 2, 3, 4}
  Values = {v1, v2}
  None = None
SYMMETRY Symmetry
INVARIANTS TypeOK GrantsHold NoDataRace SyncReadsExact AddressingAgrees
PROPERTIES RefinesFifo
