SPECIFICATION FairSpec
CONSTANTS
  Polls = {p1, p2}
  Checks = {c1, c2}
  MaxCounter = 3
  Spoiled = {2}
  MaxAged = 1
  MaxFailures = 1
INVARIANTS VerdictOfShown NeverStuck VerdictIsTrue
PROPERTIES PageCatchesUp
CHECK_DEADLOCK FALSE
