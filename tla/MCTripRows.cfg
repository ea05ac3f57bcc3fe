SPECIFICATION Spec
CONSTANTS
  Trips = {t1}
  Runs = {r1, r2, r3}
  Streams = {}
  NoQueue = NoQueue
  NoEvent = NoEvent
  NoRun = NoRun
  OneViewer = TRUE
  MaxPhases = 1
  MaxFaults = 1
  MaxCrashes = 1
SYMMETRY RunSymmetry
INVARIANTS TypeOK SingleWriter CompleteHasReport LinearHistory HistoryInv
PROPERTIES ReportFrozen ImplementsContract
