SPECIFICATION Spec
CONSTANTS
  MaxDepth = 4
  MaxNew = 1
INVARIANT PartialItemsKept
CHECK_DEADLOCK FALSE
