SPECIFICATION Spec
CONSTANTS
  Trips = {t1, t2, t3}
  Tokens = {k1}
  NoTrip = NoTrip
  NoToken = NoToken
  PageSize = 1
  MaxReports = 1
SYMMETRY TripSymmetry
INVARIANTS ScrollIsExact LinkTellsTruth CompletePageHasReport
CHECK_DEADLOCK FALSE
