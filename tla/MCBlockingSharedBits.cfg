SPECIFICATION FairSpec
CONSTANTS
  q1 = q1
  q2 = q2
  full1 = full1
  empty1 = empty1
  Queues = {q1, q2}
  Capacity = 1
  Sizes = {1}
  NotFull <- DefaultFull
  NotEmpty <- DefaultEmpty
  Callers <- TwoReaders
  Bits = {full1, empty1}
  Timeouts = {FALSE}
  RealFutex = TRUE
  Mortal = {}
PROPERTIES BlockedCallFinishes
