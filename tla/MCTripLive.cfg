SPECIFICATION FairSpec
CONSTANTS
  Trips = {t1}
  Runs = {r1, r2}
  Streams = {s1}
  NoQueue = NoQueue
  NoEvent = NoEvent
  NoRun = NoRun
  OneViewer = TRUE
  MaxPhases = 1
  MaxFaults = 0
  MaxCrashes = 0
PROPERTIES RunningSettles StreamsEnd
