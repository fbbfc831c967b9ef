------------------------ MODULE MCCompressionSession ------------------------
(* CompressionSession on small instances.                                  *)
EXTENDS CompressionSession

OneClock == {0}
FirstAndFourth == {1, 4}
SecondIsProtected == {2}
NoMessages == {}
ShortOnly == {FALSE}
LongOnly == {TRUE}
=============================================================================
