SPECIFICATION Spec
CONSTANTS
  a = a
  Index = {1, 2}
  Fragments <- MCFragments
  TurnLimit = 2
  MaxRequests = 3
CHECK_DEADLOCK FALSE
INVARIANTS
  RequestWellFormed
  EventsAreOwn
  NothingForgotten
PROPERTIES
  RunsOnlyWhenApproved
  ToolLoopEnds
