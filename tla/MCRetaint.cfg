SPECIFICATION FairSpec
INVARIANT TypeOK
PROPERTIES LoopEndsAnswered TaintIsAnswered
CHECK_DEADLOCK FALSE
