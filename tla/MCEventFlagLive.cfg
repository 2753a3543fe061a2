SPECIFICATION FairSpec
CONSTANTS
  t1 = t1
  t2 = t2
  t3 = t3
  a = a
  b = b
  Threads = {t1, t2, t3}
  Bits = {a, b}
  Masks <- OneMask
  Timeouts = {FALSE}
  Retries = {TRUE}
  RealFutex = TRUE
  CanDie = FALSE
PROPERTIES WakeArrives
