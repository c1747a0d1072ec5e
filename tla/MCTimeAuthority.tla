-------------------------- MODULE MCTimeAuthority --------------------------
EXTENDS TimeAuthority
CONSTANTS a, b
Ahead == [n \in Node |-> IF n = a THEN 2 ELSE -1]
OneEach == [n \in Node |-> 1]
=============================================================================
