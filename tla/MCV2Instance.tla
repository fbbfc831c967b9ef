---------------------------- MODULE MCV2Instance ----------------------------
EXTENDS V2Instance, TLC

CONSTANTS c1, r1, r2, s1, s2

\* A compress call and a request of one session, and a request of another.
TwoSessions == c1 :> s1 @@ r1 :> s1 @@ r2 :> s2

\* One compress call by itself.
OneSession == c1 :> s1
=============================================================================
