SPECIFICATION Spec
CONSTANTS
  a = a
  b = b
  c = c
  Node = {a, b, c}
  Links <- StarAndSelf
  Verdicts <- AnyVerdict
  Lossy = TRUE
  MaxRound <- TwoOneNone
  MaxNet = 2
INVARIANTS TypeOK EvidenceIsVouched OnlySentRounds
PROPERTY RoundsNeverGoBack
CHECK_DEADLOCK FALSE
