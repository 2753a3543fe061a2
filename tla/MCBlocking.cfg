SPECIFICATION FairSpec
CONSTANTS
  q1 = q1
  q2 = q2
  full1 = full1
  empty1 = empty1
  Queues = {q1}
  Capacity = 3
  Sizes = {1, 2, 4}
  NotFull <- DefaultFull
  NotEmpty <- DefaultEmpty
  Callers <- BothSides
  Bits = {full1, empty1}
  Timeouts = {TRUE, FALSE}
  RealFutex = TRUE
  Mortal <- OneSide
INVARIANTS TypeOK ResultsAreTruthful NotificationPending
PROPERTIES BlockedCallFinishes TimedCallReturns EveryCallReturns
