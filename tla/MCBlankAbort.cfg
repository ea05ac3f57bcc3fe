SPECIFICATION Spec
CONSTANTS
  Trips = {t1}
  Runs = {r1, r2}
  Streams = {}
  NoQueue = NoQueue
  NoEvent = NoEvent
  NoRun = NoRun
  OneViewer = TRUE
  MaxPhases = 1
  MaxFaults = 0
  MaxCrashes = 0
INVARIANT AbortedRefineKeepsLatest
