CONSTANTS
  r1 = r1
  r2 = r2
  r3 = r3
  Callers = {r1, r2, r3}
  MaxKeys = 3
  MaxFaults = 3
SPECIFICATION KeySpec
INVARIANT EveryCallerAgrees
CHECK_DEADLOCK FALSE
