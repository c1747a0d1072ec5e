---------------------------- MODULE MCTimestamps ----------------------------
EXTENDS Timestamps
BackAndForth == {-1, 1}
=============================================================================
