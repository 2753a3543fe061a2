SPECIFICATION SpecReset
CONSTANTS
  QueueSize = 3
  Quantum = 1
  CounterMod = 8
  Flavor = 1
  Readers = {r1}
  Writer = w
  Counts = {1, 3, 4}
  Values = {v1, v2}
  None = None
SYMMETRY Symmetry
INVARIANTS TypeOKReset TransactionsInRing FreshInRing ReadsAreFresh GrantsHoldAgain
