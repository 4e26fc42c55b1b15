SPECIFICATION Spec
CONSTANTS
  MaxCalls = 1
  MaxBatch = 1
  MaxReplies = 2
  MaxInvocations = 5
  MaxFaults = 1
  MaxTurns = 1
  TurnLimit = 2
  SessionMax = 2
  RateCapped = FALSE
CHECK_DEADLOCK FALSE
INVARIANT RepairRestoresOrder
