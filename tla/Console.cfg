CONSTANTS
  Names = {"ann", "bob"}
  Sessions = {s1, s2}
  Workers = {w1, w2}
  Lifetimes = {1, 2}
  MaxTime = 2
SPECIFICATION Spec
INVARIANTS ConsoleTypeOK SignedOutStaysOut
PROPERTIES SessionsKept ExpiredDeleted
