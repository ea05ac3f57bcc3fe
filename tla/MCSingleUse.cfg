SPECIFICATION Spec
CONSTANTS
  Requests = {q1, q2, q3}
  Kinds = {"request_code", "login_with_code"}
  MaxFailed = 2
  MaxCrashes = 0
INVARIANT SingleUse
CHECK_DEADLOCK FALSE
