---------------------------- MODULE MCTimespec ----------------------------
EXTENDS Timespec
SomeTimes == [sec : -2 .. 2, nsec : {-21, -10, -5, -1, 0, 3, 9, 10, 19}]
=============================================================================
