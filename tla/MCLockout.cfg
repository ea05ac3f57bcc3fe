SPECIFICATION Spec
CONSTANTS
  Requests = {q1, q2, q3}
  Kinds = {"login"}
  MaxFailed = 2
  MaxCrashes = 0
INVARIANT MissesLock
CHECK_DEADLOCK FALSE
