SPECIFICATION FairSpec
PROPERTY Destroyed
CHECK_DEADLOCK FALSE
