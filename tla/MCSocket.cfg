SPECIFICATION FairSpec
CONSTANTS
  Sender = {"refresh"}
  Trouble = TRUE
  MaxFd = 3
INVARIANTS TypeOK LeftLockedByFailureOnly ReadersCounted NoneLost
PROPERTIES ReceivesUntilStopped StopReturns
CHECK_DEADLOCK FALSE
