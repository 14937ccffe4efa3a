-------------------------- MODULE MCHaltSerializer --------------------------
EXTENDS HaltSerializer, TLC

CONSTANTS t1, t2

TwoThreads == {t1, t2}
TwiceAndOnce == t1 :> 2 @@ t2 :> 1
AnyAndHalt == t1 :> Intents @@ t2 :> {"halt"}
ContainsFirst == t1 :> {Seen(FALSE, "ancestor")} @@ t2 :> {}
=============================================================================
