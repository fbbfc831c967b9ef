--------------------------- MODULE MCContextBudget ---------------------------
(* ContextBudget on small instances.                                       *)
EXTENDS ContextBudget

KnownOrNot == {0, 22}
ShortAndLong == {3, 6}
=============================================================================
