\* Two processes and three threads open one file, with a failure or a crash.
SPECIFICATION FairSpec
CONSTANTS
  p1 = p1
  p2 = p2
  t1 = t1
  t2 = t2
  t3 = t3
  Process = {p1, p2}
  Thread = {t1, t2, t3}
  ProcessOf <- MCProcessOf
  MaxFaults = 1
CHECK_DEADLOCK FALSE
INVARIANTS
  ReadyIsComplete
PROPERTIES
  ReadyInTheEnd
