SPECIFICATION Spec
CONSTANTS
  Sessions = {s1, s2}
  Calls <- MCCalls
  HandWritten <- MCHandWritten
  MaxEdits = 1
  MaxGrants = 2
  MaxFaults = 1
SYMMETRY Symmetry
CHECK_DEADLOCK FALSE
PROPERTIES
  GrantTakesEffect
  LinesSurvive
  GrantReach
