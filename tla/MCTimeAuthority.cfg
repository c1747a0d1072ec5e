SPECIFICATION FairSpec
CONSTANTS
  a = a
  b = b
  Node = {a, b}
  Skew <- Ahead
  Drifts = {1}
  MaxTime = 1
  MaxMoves = 1
  MaxAsked <- OneEach
  MaxReceived = 2
INVARIANTS TypeOK AnswersItsSender OffsetWithinDelay
PROPERTIES AllEnd
CHECK_DEADLOCK FALSE
