SPECIFICATION FairSpec
CONSTANTS
  t1 = t1
  t2 = t2
  t3 = t3
  a = a
  b = b
  Threads = {t1, t2}
  Bits = {a, b}
  Masks <- AllMasks
  Timeouts = {TRUE, FALSE}
  Retries = {TRUE, FALSE}
  RealFutex = FALSE
  CanDie = FALSE
PROPERTIES WakeArrives TimedWaitReturns
