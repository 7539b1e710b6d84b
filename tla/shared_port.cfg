\* A capture and a command of the bench on one port.
SPECIFICATION FairSpec
CONSTANTS
  Captures = {c1}
  Benches = {b1}
  Nobody = nobody
  Slots = 1
  BestOf = 2
  Images = 2
  Variants = 1
INVARIANTS
  NoServerLeftBehind
  AnswersAreItsOwn
  ResultsTellTheRun
  ExitTellsTheRun
PROPERTY
  JobsComeBack
CHECK_DEADLOCK FALSE
