SPECIFICATION Spec
CONSTANTS
  MaxRecords = 3
  MaxTime = 2
  MaxOpens = 3
  MaxFolds = 2
  MaxPrunes = 1
  MaxTorn = 1
CHECK_DEADLOCK FALSE
INVARIANTS
  PairsUnsplit
PROPERTIES
  ListSpec
  SummariesGrow
