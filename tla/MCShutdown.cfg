SPECIFICATION FairSpec
INVARIANTS TypeOK NeverStuck
PROPERTIES StopReturnsUnlessSelfLocked DestroyedUnlessOverslept
CHECK_DEADLOCK FALSE
