SPECIFICATION Spec
CONSTANTS
  Requests = {r1, r2}
  MaxFrames = 3
  Captures = {timer}
  Drain = drain
  Nobody = nobody
  MaxCounter = 4
  BatchMax = 1
  MaxKills = 0
  MaxFaults = 0
  MaxTimeouts = 1
  MaxCorruptions = 1
  MaxSeed = 2
  SeedAboveQueue = FALSE
  SinkCounters = {1, 2, 3, 4}
  NoRequest = none
  MaxRestarts = 0
  MaxSinkFaults = 0
INVARIANTS CounterNeverReused
CHECK_DEADLOCK FALSE
