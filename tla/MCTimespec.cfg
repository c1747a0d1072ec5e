SPECIFICATION OpSpec
CONSTANTS
  Billion = 10
  Inputs <- SomeTimes
INVARIANTS Exact
CHECK_DEADLOCK FALSE
