SPECIFICATION Spec
CONSTANTS
  Asker = {a1, a2}
  Window <- MCWindow
  MaxEntries = 2
  PriorEntries = 1
  None = None
  Starts <- MCStarts
  MaxAsks = 3
  MaxOpens = 2
  MaxTurns = 2
  MaxFolds = 1
  MaxPrunes = 1
  MaxFaults = 1
CHECK_DEADLOCK FALSE
INVARIANTS
  EntriesOfOneView
  LostOnlyToOverlap
  NeverPartial
  TotalsAreRecorded
