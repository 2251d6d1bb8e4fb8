\* Callers are alike. A call that would need more than MaxKeys pairs stops.
CONSTANTS
  r1 = r1
  r2 = r2
  r3 = r3
  Callers = {r1, r2, r3}
  MaxKeys = 3
  MaxFaults = 3
SPECIFICATION KeySpec
SYMMETRY Requests
INVARIANTS OneServerKey
PROPERTY KeyNeverReplaced
CHECK_DEADLOCK FALSE
