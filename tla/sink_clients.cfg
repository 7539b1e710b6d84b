SPECIFICATION ClientSpec
CONSTANTS
  Requests = {r1, r2}
  MaxFrames = 2
  SinkCounters = {1, 2}
  NoRequest = none
  MaxRestarts = 1
  MaxSinkFaults = 1
INVARIANTS StoredForGood ForgetsOnlyUnanswered
PROPERTIES SeenNeverForgotten
CHECK_DEADLOCK FALSE
SYMMETRY SlotSymmetry
