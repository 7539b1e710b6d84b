SPECIFICATION FairSpec
CONSTANTS
  Requests = {r1, r2}
  MaxFrames = 2
  Captures = {timer}
  Drain = drain
  Nobody = nobody
  MaxCounter = 4
  BatchMax = 1
  MaxKills = 1
  MaxFaults = 0
  MaxTimeouts = 1
  MaxCorruptions = 1
  MaxSeed = 2
  SeedAboveQueue = TRUE
  SinkCounters = {1, 2, 3, 4}
  NoRequest = none
  MaxRestarts = 1
  MaxSinkFaults = 0
INVARIANTS CounterNeverReused
PROPERTIES EverythingArchived
CHECK_DEADLOCK FALSE
