SPECIFICATION Spec
CONSTANTS
  Requests = {q1, q2, q3, q4}
  Kinds = {"register", "request_code", "verify", "login_with_code", "login", "delete"}
  MaxFailed = 2
  MaxCrashes = 1
SYMMETRY Symmetry
INVARIANTS AccountTypeOK OneActiveCode LastMailWorks UsedIsSpent NoWaitCycle
CHECK_DEADLOCK FALSE
