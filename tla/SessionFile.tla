----------------------------- MODULE SessionFile -----------------------------
(***************************************************************************)
(* What the persistence of a session promises to those who save it,        *)
(* whatever queue stands behind it (SaveQueue implements this module).     *)
(*                                                                         *)
(* The saves of one session are numbered in the order they are asked for;  *)
(* the number of a save is also the name of the snapshot it wants written. *)
(***************************************************************************)
EXTENDS Naturals

CONSTANT MaxSaves  \* bound on the saves ever asked for

ASSUME SavesAssumption == MaxSaves \in Nat

Saves == 1 .. MaxSaves

VARIABLES
  file,      \* the snapshot written last, 0 at first
  readable,  \* does the file hold the whole of it?
  answer     \* what each caller has been told

fileVars == <<file, readable, answer>>

Answers == {"none", "waiting", "saved", "failed", "lost"}

FileTypeOK ==
  /\ file \in 0 .. MaxSaves
  /\ readable \in BOOLEAN
  /\ answer \in [Saves -> Answers]

Waiting == {n \in Saves : answer[n] = "waiting"}

\* Those who wait for snapshot n or an older one are told a.
AnsweredUpTo(n, a) ==
  [k \in Saves |-> IF k \in Waiting /\ k <= n THEN a ELSE answer[k]]

FileInit ==
  /\ file = 0
  /\ readable = TRUE
  /\ answer = [n \in Saves |-> "none"]

Ask ==
  \E n \in Saves :
    /\ answer[n] = "none"
    /\ \A k \in Saves : k < n => answer[k] # "none"
    /\ answer' = [answer EXCEPT ![n] = "waiting"]
    /\ UNCHANGED <<file, readable>>

\* The file is written in place: it loses what it had first.
Open ==
  /\ Waiting # {}
  /\ readable' = FALSE
  /\ UNCHANGED <<file, answer>>

\* A snapshot somebody waits for is written; older ones are obsolete.
Land(n) ==
  /\ n \in Waiting
  /\ file < n
  /\ file' = n
  /\ readable' = TRUE
  /\ answer' = AnsweredUpTo(n, "saved")

Fail(n) ==
  /\ n \in Waiting
  /\ answer' = AnsweredUpTo(n, "failed")
  /\ UNCHANGED <<file, readable>>

\* The process ends: nobody is told anything any more, and the snapshot that
\* was being written may be in the file or not.
Lose ==
  /\ answer' = AnsweredUpTo(MaxSaves, "lost")
  /\ \/ UNCHANGED <<file, readable>>
     \/ \E n \in Waiting : file < n /\ file' = n /\ readable' = TRUE

Settle == \E n \in Saves : Land(n) \/ Fail(n)

FileNext == Ask \/ Open \/ Settle \/ Lose

FileSafety == FileInit /\ [][FileNext]_fileVars

FileSpec == FileSafety /\ WF_fileVars(Settle)
=============================================================================
