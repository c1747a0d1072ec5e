SPECIFICATION Spec
CONSTANTS
  Sender = {"refresh"}
  Trouble = FALSE
  MaxFd = 3
INVARIANT Recreated
CHECK_DEADLOCK FALSE
