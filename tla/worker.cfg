SPECIFICATION Spec
CONSTANTS
  Requests = {r1, r2}
  MaxFrames = 2
  Captures = {timer}
  Drain = drain
  Nobody = nobody
  MaxCounter = 3
  BatchMax = 2
  MaxKills = 1
  MaxFaults = 1
  MaxTimeouts = 1
  MaxCorruptions = 0
  MaxSeed = 0
  SeedAboveQueue = TRUE
  WorkerCounters = {1, 2, 3}
  EventuallyConsistent = TRUE
  MaxDeaths = 1
INVARIANTS ReadingHasItsFrame ArchivedIsInR2 NoGapsInR2
PROPERTIES NumberedFrameNeverChanges OnlyAbandonedRegress
CHECK_DEADLOCK FALSE
