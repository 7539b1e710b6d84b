\* Three runs of keygen or fetch-models, at once or one after the other.
SPECIFICATION Spec
CONSTANTS
  Runs = {r1, r2, r3}
  Absent = Absent
  Empty = Empty
  Chunks = 2
SYMMETRY Symmetry
INVARIANTS
  OneIdentity
  FetchedIsPinned
PROPERTY
  ExitZeroMeansDone
CHECK_DEADLOCK FALSE
