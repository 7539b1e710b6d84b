SPECIFICATION ConformanceSpec
CONSTANTS
  Requests = {r1, r2}
  MaxFrames = 1
  Captures = {timer}
  Drain = drain
  Nobody = nobody
  MaxCounter = 1
  BatchMax = 2
  MaxKills = 0
  MaxFaults = 0
  MaxTimeouts = 0
  MaxCorruptions = 0
  MaxSeed = 0
  SeedAboveQueue = TRUE
  WorkerCounters = {1, 2, 3, 4, 5, 6, 7, 8}
  EventuallyConsistent = FALSE
  MaxDeaths = 0
  Base = 2
INVARIANTS ArchivedIsInR2
CHECK_DEADLOCK FALSE
