SPECIFICATION FairSpec
CONSTANTS
  N = 2
  Given <- OtherAndOwn
  MaxHangs = 1
INVARIANTS TypeOK RegisteredOnce NodeOutlivesCalls
PROPERTIES Linked ProgramEnds
CHECK_DEADLOCK FALSE
