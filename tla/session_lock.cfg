SPECIFICATION LockSpec
CONSTANTS
  Procs = {p1, p2, p3}
  MaxStarts = 4
CHECK_DEADLOCK FALSE
INVARIANTS
  ExclusiveUnlessOverlap
  StaleNeverRefuses
PROPERTY DropRemovesOwn
