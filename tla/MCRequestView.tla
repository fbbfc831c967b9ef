--------------------------- MODULE MCRequestView ---------------------------
(* RequestView on small instances.                                         *)
EXTENDS RequestView

OneClock == {0}
NoMessages == {}
LongOnly == {TRUE}
=============================================================================
