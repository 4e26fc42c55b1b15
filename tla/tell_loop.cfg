SPECIFICATION Spec
CONSTANTS
  MaxCalls = 3
  MaxBatch = 3
  MaxReplies = 2
  MaxInvocations = 3
  MaxFaults = 1
  MaxTurns = 2
  TurnLimit = 2
  SessionMax = 2
  RateCapped = FALSE
CHECK_DEADLOCK FALSE
INVARIANTS
  RequestWellFormed
  DiskMatchesRequest
  AtMostOncePlusFaults
  PendingIsCurrent
  AnswersTruthful
  RetryIdentical
PROPERTIES
  RejectedNeverRuns
  InvocationEnds
  LedgerSpec
