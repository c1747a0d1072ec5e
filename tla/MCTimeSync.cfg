SPECIFICATION FairSpec
CONSTANTS
  Offsets <- SomeOffsets
  StepThreshold = 128000
  ClockFloor = 500
  StepOut = 20
  MaxDriftRate = 15
  FirstPoll = 1
  MinPoll = 3
  MaxFlight = 2
INVARIANTS TypeOK ServesAfterTraining TrainingNotAbandoned
PROPERTIES TrainedInFull RetrainingKept ReachesSync
CHECK_DEADLOCK FALSE
