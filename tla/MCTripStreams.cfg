SPECIFICATION Spec
CONSTANTS
  Trips = {t1}
  Runs = {r1, r2}
  Streams = {s1, s2}
  NoQueue = NoQueue
  NoEvent = NoEvent
  NoRun = NoRun
  OneViewer = TRUE
  MaxPhases = 1
  MaxFaults = 0
  MaxCrashes = 0
SYMMETRY RunStreamSymmetry
INVARIANTS NoOrphanStream AnnouncedIsDurable EndsWithOutcome
