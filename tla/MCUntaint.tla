----------------------------- MODULE MCUntaint -----------------------------
EXTENDS Untaint, TLC
CONSTANTS a, b, c
StarLinks == {<<a, b>>, <<a, c>>}
StarAndSelf == StarLinks \cup {<<a, a>>}
TwoOneNone == a :> 2 @@ b :> 1 @@ c :> 0
OnlyAB == a :> 2 @@ b :> 2 @@ c :> 0
AnyVerdict == BOOLEAN
Agree == {TRUE}
=============================================================================
