SPECIFICATION Spec
CONSTANTS
  Requests = {r1, r2}
  MaxFrames = 1
  Captures = {timer}
  Drain = drain
  Nobody = nobody
  MaxCounter = 1
  BatchMax = 1
  MaxKills = 1
  MaxFaults = 0
  MaxTimeouts = 0
  MaxCorruptions = 0
  MaxSeed = 0
  SeedAboveQueue = TRUE
  SinkCounters = {1}
  NoRequest = none
  MaxRestarts = 1
  MaxSinkFaults = 1
PROPERTIES ReplayHoleClosed
CHECK_DEADLOCK FALSE
