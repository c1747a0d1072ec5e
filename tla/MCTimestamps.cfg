SPECIFICATION FairSpec
CONSTANTS
  Caller = {"client", "receive"}
  Client = {"client"}
  Receive = "receive"
  Offsets <- BackAndForth
  Freq = 2
  MaxTsc = 2
  MaxBacks = 1
  MaxSteps = 1
INVARIANTS TypeOK TicksCountedOnce
PROPERTIES NeverGoesBack CallsReturn
CHECK_DEADLOCK FALSE
