SPECIFICATION FairSpec
CONSTANTS
  MaxDepth = 4
  MaxNew = 2
INVARIANTS CycleTypeOK RecordsAgree RoundsInOrder StopsOnEvidence
PROPERTIES ImplementsContract CycleEnds
CHECK_DEADLOCK FALSE
