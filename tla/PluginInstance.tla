---------------------------- MODULE PluginInstance ----------------------------
(***************************************************************************)
(* What one setup of the V2 plugin promises its host                       *)
(* (src/lib/v2/plugin.ts, "equivalent to a normal unload"): while it is    *)
(* open it takes up work and acts on it; once it is closed it takes up     *)
(* nothing, no work it still has in hand is accepted any more, and what it *)
(* holds of the host it gives back when that work has ended, all of it.    *)
(***************************************************************************)
EXTENDS Naturals

CONSTANTS Operations, Resources, MonitorOperation

VARIABLES
  open,    \* work is taken up and accepted
  held,    \* how many resources of the host are held, a stack
  busy,    \* the operations in hand
  effects, \* what was accepted of which operation
  stored   \* the operations whose outcome is in a session file

instance == <<open, held, busy, effects, stored>>

Effects == Operations \X {"work", "time"}

InstanceInit ==
  /\ open = TRUE
  /\ held \in 0 .. Resources
  /\ busy = {}
  /\ effects = {}
  /\ stored = {}

Acquire ==
  /\ open
  /\ held' \in held + 1 .. Resources
  /\ UNCHANGED <<open, busy, effects, stored>>

Begin ==
  /\ open
  /\ \E o \in (Operations \cup {MonitorOperation}) \ busy : busy' = busy \cup {o}
  /\ UNCHANGED <<open, held, effects, stored>>

\* An outcome is accepted, of an operation in hand; the operation may end there.
Accept ==
  /\ open
  /\ \E e \in Effects : e[1] \in busy /\ effects' = effects \cup {e}
  /\ UNCHANGED <<open, held, busy, stored>>

Stores ==
  /\ stored \subseteq stored'
  /\ stored' \subseteq stored \cup {e[1] : e \in effects}

\* A save may land after the instance was closed, but its operation is in hand.
Store ==
  /\ busy # {}
  /\ Stores
  /\ UNCHANGED <<open, held, busy, effects>>

End(o) ==
  /\ o \in busy
  /\ busy' = busy \ {o}
  /\ Stores
  /\ UNCHANGED <<open, held, effects>>

Close ==
  /\ open
  /\ open' = FALSE
  /\ UNCHANGED <<held, busy, effects, stored>>

Release ==
  /\ ~open
  /\ busy = {}
  /\ held > 0
  /\ held' = held - 1
  /\ UNCHANGED <<open, busy, effects, stored>>

InstanceNext ==
  \/ Acquire \/ Begin \/ Accept \/ Store \/ Close \/ Release
  \/ \E o \in Operations \cup {MonitorOperation} : End(o)

InstanceSafety == InstanceInit /\ [][InstanceNext]_instance

\* A closed instance comes to hold nothing, so what it has in hand ends.
InstanceSpec == InstanceSafety /\ (~open ~> held = 0)
=============================================================================
