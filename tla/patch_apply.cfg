SPECIFICATION Spec
CONSTANTS
  Paths = {a, b}
  Zones = {"plain", "outside", "critical"}
  MaxCalls = 2
  MaxOthers = 1
  MaxFaults = 1
SYMMETRY Symmetry
CHECK_DEADLOCK FALSE
INVARIANT PatchIsAtomic
PROPERTIES
  OthersKept
  WritesAreCovered
