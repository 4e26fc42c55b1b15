SPECIFICATION Spec
CONSTANTS
  Byte <- MCByte
  MaxLine = 4
  Words <- MCWords
  Json <- MCJson
  JsonNull = JsonNull
  Done = "Z"
  ErrorBody = "e"
  Bodies <- MCBodies
  PipeSize = 8
CHECK_DEADLOCK FALSE
INVARIANTS
  ChunksDoNotMatter
  ReplyEchoesStream
  OutcomeIsTrue
PROPERTY CallReturns
