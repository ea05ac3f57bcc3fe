SPECIFICATION Spec
CONSTANTS
  Requests = {r1, r2}
  Names = {"Ana", "ana", "Bo", "Cy"}
  Fold <- MCFold
  NoName = NoName
  Cap = 2
  MaxIds = 4
  MaxRequests = 4
INVARIANTS NamesAndCap RunsWithPicked LinksAreAlive
CHECK_DEADLOCK FALSE
