SPECIFICATION Spec
CONSTANTS
  t1 = t1
  t2 = t2
  t3 = t3
  a = a
  b = b
  Threads = {t1, t2, t3}
  Bits = {a, b}
  Masks <- AllMasks
  Timeouts = {TRUE}
  Retries = {TRUE, FALSE}
  RealFutex = TRUE
  CanDie = TRUE
SYMMETRY Symmetry
INVARIANTS TypeOK NoLostWake
PROPERTIES EachBitReportedOnce RetryHidesSpurious
