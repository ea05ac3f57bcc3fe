SPECIFICATION FairSpec
CONSTANTS
  Trips = {t1}
  Runs = {r1}
  Streams = {s1, s2}
  NoQueue = NoQueue
  NoEvent = NoEvent
  NoRun = NoRun
  OneViewer = FALSE
  MaxPhases = 1
  MaxFaults = 0
  MaxCrashes = 0
PROPERTY StreamsEnd
