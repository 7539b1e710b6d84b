SPECIFICATION Spec
CONSTANTS
  Requests = {r1, r2}
  MaxFrames = 2
  Captures = {timer, hand}
  Drain = drain
  Nobody = nobody
  MaxCounter = 3
  BatchMax = 1
  MaxKills = 1
  MaxFaults = 1
  MaxTimeouts = 1
  MaxCorruptions = 0
  MaxSeed = 0
  SeedAboveQueue = TRUE
  SinkCounters = {1, 2, 3}
  NoRequest = none
  MaxRestarts = 1
  MaxSinkFaults = 1
SYMMETRY Alike
INVARIANTS NoHalfFrame NothingLost ArchivedIsStored NeverPoisoned NoGaps
PROPERTIES DepthReported InOrderDelivery
CHECK_DEADLOCK FALSE
