------------------------- MODULE MCCompressionReplay -------------------------
(* CompressionReplay on a small instance, with a clock that steps back.    *)
EXTENDS CompressionReplay

TwoClocks == {0, 1}
NoMessages == {}
ShortOnly == {FALSE}
=============================================================================
