SPECIFICATION Spec
CONSTANTS
  Requests = {r1, r2}
  MaxFrames = 2
  Captures = {timer}
  Drain = drain
  Nobody = nobody
  MaxCounter = 3
  BatchMax = 2
  MaxKills = 0
  MaxFaults = 0
  MaxTimeouts = 1
  MaxCorruptions = 0
  MaxSeed = 0
  SeedAboveQueue = TRUE
  WorkerCounters = {1, 2, 3}
  EventuallyConsistent = FALSE
  MaxDeaths = 0
PROPERTIES LatestNeverRegresses
CHECK_DEADLOCK FALSE
