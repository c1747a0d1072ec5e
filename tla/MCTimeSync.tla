---------------------------- MODULE MCTimeSync ----------------------------
EXTENDS TimeSync
SomeOffsets == {-1000, -20, 100, 700, 200000}
=============================================================================
