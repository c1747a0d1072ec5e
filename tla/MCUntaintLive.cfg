SPECIFICATION FairSpec
CONSTANTS
  a = a
  b = b
  c = c
  Node = {a, b, c}
  Links <- StarLinks
  Verdicts <- Agree
  Lossy = FALSE
  MaxRound <- OnlyAB
  MaxNet = 2
PROPERTIES SupportedUntaints KeepsPromise SecondRoundNeeded
CHECK_DEADLOCK FALSE
