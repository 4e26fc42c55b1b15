SPECIFICATION ChildSpec
CONSTANTS
  Kept = 2
  PipeRoom = 2
  ChunkSize = 2
  MaxWritten = 4
  MaxFaults = 1
CHECK_DEADLOCK FALSE
INVARIANT ReportIsTrue
PROPERTIES
  OwnGroupOnly
  ReturnsUnlessHeld
