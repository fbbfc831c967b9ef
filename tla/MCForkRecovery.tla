--------------------------- MODULE MCForkRecovery ---------------------------
(* ForkRecovery on a small instance: a user message, an answer, a compress  *)
(* call, another answer that says the same as the first, and another call.  *)
EXTENDS ForkRecovery

FirstIsUser == {1}
Calls == {3, 5}
OneClock == {0}
LongOnly == {TRUE}
SecondIsFourth == [m \in Msg |-> IF m = 4 THEN 2 ELSE IF m = 5 THEN 3 ELSE m]
=============================================================================
