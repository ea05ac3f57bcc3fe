SPECIFICATION Spec
CONSTANTS
  Queries <- MCQueries
  Posts <- MCPosts
  Items <- MCItems
  Attempts <- MCAttempts
  Terms <- MCTerms
  City <- MCCity
  Key <- MCKey
  Pages <- MCPages
  Candidates = 0
  PerCandidate = 2
  MaxFailures = 2
  MinPosts = 1
  MaxStarts = 2
  MaxFaults = 1
INVARIANTS DoneIsCached LossPerFault GapsKeepEveryPlace
PROPERTIES HitsKept
CHECK_DEADLOCK FALSE
