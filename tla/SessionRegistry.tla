--------------------------- MODULE SessionRegistry ---------------------------
(***************************************************************************)
(* The registry of sessions (lib/state/state.ts, SessionStateRegistry):    *)
(* guarded calls queue up behind one another on their session, open it     *)
(* when it is not in memory, and keep or undo what they did; sessions      *)
(* nobody works on are evicted when there are too many.                    *)
(*                                                                         *)
(* A call is a number, in the order the calls were made.  What a call does *)
(* to a session is the call itself: a state is the set of calls whose      *)
(* effect it holds, and so is the session file.                            *)
(***************************************************************************)
EXTENDS Naturals, FiniteSets

CONSTANTS
  Sessions,
  MaxCalls,  \* bound on the guarded calls ever made
  SoftCap    \* REGISTRY_SOFT_CAP

ASSUME RegistryAssumption ==
  IsFiniteSet(Sessions) /\ Sessions # {} /\ MaxCalls \in Nat /\ SoftCap \in Nat

Calls == 1 .. MaxCalls

VARIABLES
  call,     \* the calls, see Call
  tail,     \* mutationTails: the last call queued on each session, 0 for none
  order,    \* states: the place of each session in the map, 0 if it is not there
  content,  \* what each state in memory holds
  barrier,  \* initializations: the call that opens each session, 0 for none
  file      \* what each session file holds

vars == <<call, tail, order, content, barrier, file>>

\* open: withSessionMutationAndInitialize (transforms, commands).  The others go
\* through withSessionMutation: fenced, the tools of the V2 host, work on a clone;
\* live, the tools of the V1 host and the hooks, on the state itself.
Entry == {"open", "fenced", "live"}

Phase == {"none", "queued", "loading", "operating", "saving", "done"}

Call ==
  [session : Sessions, entry : Entry, phase : Phase,
   after : 0 .. MaxCalls,     \* the call it waits for
   creates : BOOLEAN,         \* createdInitialization
   before : SUBSET Calls,     \* operationSnapshot
   accepted : BOOLEAN,        \* its changes stand; always so on the live state
   found : BOOLEAN]           \* history: the session was open when it was made

NoCall ==
  [session |-> CHOOSE s \in Sessions : TRUE, entry |-> "open", phase |-> "none",
   after |-> 0, creates |-> FALSE, before |-> {}, accepted |-> FALSE,
   found |-> FALSE]

\* Nothing is kept of a call that has ended but whose it was and how it ended.
Ended(record) ==
  [NoCall EXCEPT !.session = record.session, !.phase = "done", !.accepted = record.accepted]

InMemory == {s \in Sessions : order[s] # 0}

TypeOK ==
  /\ call \in [Calls -> Call]
  /\ tail \in [Sessions -> 0 .. MaxCalls]
  /\ order \in [Sessions -> Nat]
  /\ content \in [Sessions -> SUBSET Calls]
  /\ barrier \in [Sessions -> 0 .. MaxCalls]
  /\ file \in [Sessions -> SUBSET Calls]

Init ==
  /\ call = [c \in Calls |-> NoCall]
  /\ tail = [s \in Sessions |-> 0]
  /\ order = [s \in Sessions |-> 0]
  /\ content = [s \in Sessions |-> {}]
  /\ barrier = [s \in Sessions |-> 0]
  /\ file = [s \in Sessions |-> {}]

-----------------------------------------------------------------------------
\* guardedWork: queued calls count as much as executing ones.
Guarded(calls, s) ==
  \E c \in Calls : calls[c].session = s /\ calls[c].phase \notin {"none", "done"}

\* activeWork.
Executing(calls, s) ==
  \E c \in Calls : calls[c].session = s /\ calls[c].phase \notin {"none", "queued", "done"}

\* A fault of Idle: a call that is merely queued does not keep its session.
IdleUnlessExecuting(calls, barriers, s) == barriers[s] = 0 /\ ~Executing(calls, s)

Idle(calls, barriers, s) == barriers[s] = 0 /\ ~Guarded(calls, s)

\* A Map keeps its keys in the order they were inserted.
Keep(places, stay) ==
  [s \in Sessions |-> IF s \in stay THEN Cardinality({t \in stay : places[t] <= places[s]}) ELSE 0]

Insert(s) == [order EXCEPT ![s] = Cardinality(InMemory) + 1]

Remove(s) == Keep(order, InMemory \ {s})

\* enforceSoftCap: the oldest idle sessions go, as many as there are too many.
Evicted(places, calls, barriers) ==
  LET present == {s \in Sessions : places[s] # 0}
      idle == {s \in present : Idle(calls, barriers, s)}
  IN {s \in idle :
        Cardinality({t \in idle : places[t] < places[s]}) + SoftCap < Cardinality(present)}

\* The registry after a call of enforceSoftCap.
Enforced(places, contents) ==
  LET gone == Evicted(places, call', barrier')
  IN /\ order' = Keep(places, {s \in Sessions : places[s] # 0} \ gone)
     /\ content' = [s \in Sessions |-> IF s \in gone THEN {} ELSE contents[s]]

\* withReservedSessionWork, up to its first await.
Reserve(s, entry) ==
  \E c \in Calls :
    /\ call[c].phase = "none"
    /\ \A d \in Calls : d < c => call[d].phase # "none"
    /\ call' = [call EXCEPT ![c].session = s, ![c].entry = entry,
                            ![c].phase = "queued", ![c].after = tail[s],
                            ![c].found = s \in InMemory /\ barrier[s] = 0]
    /\ tail' = [tail EXCEPT ![s] = c]
    /\ UNCHANGED <<barrier, file>>
    /\ Enforced(order, content)

Turn(c) ==
  /\ call[c].phase = "queued"
  /\ call[c].after # 0 => call[call[c].after].phase = "done"

\* A fault of Released: the tail goes although others have queued behind.
ReleasedAll(c) == [tail EXCEPT ![call[c].session] = 0]

Released(c) == [tail EXCEPT ![call[c].session] = IF @ = c THEN 0 ELSE @]

\* A fault of Leave: the cap is not enforced when a call ends.
LeaveUncapped(c, places, contents) ==
  /\ call' = [call EXCEPT ![c] = Ended(call[c])]
  /\ tail' = Released(c)
  /\ order' = places
  /\ content' = contents

\* The finally clause of withReservedSessionWork.
Leave(c, places, contents) ==
  /\ call' = [call EXCEPT ![c] = Ended(call[c])]
  /\ tail' = Released(c)
  /\ Enforced(places, contents)

\* Its turn: a state that is not in memory is inserted, behind a barrier.
StartOpen(c) ==
  LET s == call[c].session
      creates == s \notin InMemory
  IN /\ Turn(c) /\ call[c].entry = "open"
     /\ call' = [call EXCEPT ![c].phase = "loading", ![c].creates = creates,
                             ![c].before = content[s]]
     /\ barrier' = IF creates THEN [barrier EXCEPT ![s] = c] ELSE barrier
     /\ UNCHANGED <<tail, file>>
     /\ Enforced(IF creates THEN Insert(s) ELSE order, content)

\* A call that may not open the session waits for whoever does, and is refused
\* when there is no state.  (A clone counts as the state: nobody is shown either.)
StartMutate(c) ==
  LET s == call[c].session
  IN /\ Turn(c) /\ call[c].entry # "open"
     /\ barrier[s] = 0
     /\ UNCHANGED <<barrier, file>>
     /\ IF s \in InMemory
        THEN /\ call' = [call EXCEPT ![c].phase = "operating", ![c].before = content[s],
                                     ![c].accepted = @ \/ call[c].entry = "live"]
             /\ content' = [content EXCEPT ![s] = @ \cup {c}]
             /\ UNCHANGED <<tail, order>>
        ELSE Leave(c, order, content)

\* ensureSessionInitialized loads a state it has just created; another caller
\* would wait for the barrier.  Then the operation begins to change the state.
Load(c) ==
  LET s == call[c].session
      base == IF call[c].creates THEN file[s] ELSE content[s]
  IN /\ call[c].phase = "loading"
     /\ barrier[s] \in {0, c}
     /\ call' = [call EXCEPT ![c].phase = "operating"]
     /\ content' = [content EXCEPT ![s] = base \cup {c}]
     /\ UNCHANGED <<tail, order, barrier, file>>

\* A fault of Restored: the state is left as the operation had it.
RestoredNot(c) == content

\* restoreInitialization.
Restored(c) == [content EXCEPT ![call[c].session] = call[c].before]

\* finishCreatedInitialization and discardInitialization lift the barrier.
Lifted(c) == IF call[c].creates THEN [barrier EXCEPT ![call[c].session] = 0] ELSE barrier

\* A call that is not accepted is undone, a state it created discarded.
Undo(c) ==
  LET s == call[c].session
  IN /\ barrier' = Lifted(c)
     /\ Leave(c, IF call[c].creates THEN Remove(s) ELSE order, Restored(c))
     /\ UNCHANGED file

\* The history or the session file cannot be used, or the plugin was unloaded.
Abandon(c) == call[c].phase = "loading" /\ Undo(c)

\* The operation throws, is refused, or its synchronous commit throws.
Reject(c) == call[c].phase = "operating" /\ call[c].entry # "live" /\ Undo(c)

\* An operation on the live state throws: its changes stay, unless it takes them
\* back itself, as the V1 compress tool does.
Break(c) ==
  /\ call[c].phase = "operating" /\ call[c].entry = "live"
  /\ UNCHANGED <<barrier, file>>
  /\ \E contents \in {content, Restored(c)} : Leave(c, order, contents)

Accept(c) ==
  /\ call[c].phase = "operating"
  /\ call' = [call EXCEPT ![c].phase = "saving", ![c].accepted = TRUE]
  /\ UNCHANGED <<tail, order, content, barrier, file>>

\* A fault of Finished: a postCommit that throws leaves the barrier up.
FinishedIfSaved(c) == IF file' # file THEN Lifted(c) ELSE barrier

\* After postCommit, however that ends.
Finished(c) == Lifted(c)

\* The state is saved (postCommit, or the last thing a tool or a hook does), or
\* the save fails, and nothing is taken back.
Flush(c) ==
  LET s == call[c].session
  IN /\ call[c].phase = "saving"
     /\ \E saved \in BOOLEAN : file' = IF saved THEN [file EXCEPT ![s] = content[s]] ELSE file
     /\ barrier' = Finished(c)
     /\ Leave(c, order, content)

Step(c) ==
  \/ StartOpen(c) \/ StartMutate(c) \/ Load(c) \/ Abandon(c) \/ Reject(c)
  \/ Break(c) \/ Accept(c) \/ Flush(c)

Next ==
  \/ \E s \in Sessions, entry \in Entry : Reserve(s, entry)
  \/ \E c \in Calls : Step(c)

Safety == Init /\ [][Next]_vars

\* What a call awaits (its turn, the host, the file) is answered in the end: as
\* long as some call can go on, the event loop runs one.
Spec == Safety /\ WF_vars(\E c \in Calls : Step(c))

-----------------------------------------------------------------------------
\* get: the state other code is shown.
Visible(s) == s \in InMemory /\ barrier[s] = 0 /\ ~Executing(call, s)

AcceptedCalls == {c \in Calls : call[c].accepted}

\* The calls of a session are served one at a time, in the order they were
\* made: mutationTails is a chain of promises whose last link is dropped by
\* whoever finds itself last.
InOrder ==
  \A c, d \in Calls :
    (/\ d < c /\ call[c].session = call[d].session
     /\ call[c].phase \notin {"none", "queued"}) => call[d].phase = "done"

\* A barrier is up only while the call that opened the session is at it: none
\* of the ways such a call can end (history refused, load failed, unloaded,
\* commit or postCommit thrown) strands a session behind it.
BarrierIsHeld ==
  \A s \in Sessions : barrier[s] # 0 =>
    /\ call[barrier[s]].session = s
    /\ call[barrier[s]].phase \in {"loading", "operating", "saving"}

\* The soft cap never evicts a session under the hands of a call that works on
\* it, nor before a call that found it open, and only queued for it, had its
\* turn: that one would be refused for want of a state.
GuardedIsRegistered ==
  \A c \in Calls :
    (\/ call[c].phase \in {"loading", "operating", "saving"}
     \/ call[c].found) => call[c].session \in InMemory

\* What get shows, and what is in a file, is the work of calls that were accepted,
\* or that are trusted with the live state; and what is shown holds all that is in
\* the file.
CommittedIsShown ==
  \A s \in Sessions :
    /\ file[s] \subseteq AcceptedCalls
    /\ Visible(s) => file[s] \subseteq content[s] /\ content[s] \subseteq AcceptedCalls

\* The chain of tails: a call waits for the last one before it that had not
\* left, and the tail is the last one still there.
Chained ==
  /\ \A c, d \in Calls : d < c /\ call[d].phase = "none" => call[c].phase = "none"
  /\ \A c \in Calls :
       call[c].phase = "queued" =>
         /\ call[c].after < c
         /\ call[c].after # 0 =>
              /\ call[call[c].after].session = call[c].session
              /\ call[call[c].after].phase # "none"
         /\ \A d \in Calls :
              (/\ call[c].after < d /\ d < c
               /\ call[d].session = call[c].session) => call[d].phase = "done"
  /\ \A s \in Sessions :
       /\ tail[s] # 0 => /\ call[tail[s]].session = s
                         /\ call[tail[s]].phase \notin {"none", "done"}
       /\ \A c \in Calls :
            call[c].session = s /\ tail[s] < c => call[c].phase \in {"none", "done"}

\* Whoever opened a session holds its barrier, and nobody else does.
Opened ==
  /\ \A c \in Calls :
       /\ call[c].phase \in {"none", "queued", "done"} => ~call[c].creates
       /\ call[c].phase \in {"none", "done"} => ~call[c].found
       /\ call[c].creates => barrier[call[c].session] = c /\ call[c].entry = "open"
       /\ call[c].found => barrier[call[c].session] = 0
  /\ \A s \in Sessions : barrier[s] # 0 => call[barrier[s]].creates

\* What a state holds at each stage of the call that works on it.
Staged ==
  /\ \A s \in Sessions :
       /\ file[s] \subseteq AcceptedCalls
       /\ s \notin InMemory => content[s] = {}
       /\ (s \in InMemory /\ ~Executing(call, s)) =>
            file[s] \subseteq content[s] /\ content[s] \subseteq AcceptedCalls
  /\ \A c \in Calls :
       LET s == call[c].session IN
       /\ (call[c].phase \in {"loading", "operating"} /\ ~call[c].creates) =>
            file[s] \subseteq call[c].before /\ call[c].before \subseteq AcceptedCalls
       /\ (call[c].phase \in {"loading", "operating"} /\ call[c].creates) => call[c].before = {}
       /\ call[c].phase = "loading" => content[s] = call[c].before /\ call[c].entry = "open"
       /\ call[c].phase = "operating" /\ call[c].entry = "live" => call[c].accepted
       /\ call[c].phase = "operating" =>
            content[s] = {c} \cup IF call[c].creates THEN file[s] ELSE call[c].before
       /\ call[c].phase = "saving" =>
            file[s] \subseteq content[s] /\ content[s] \subseteq AcceptedCalls

\* The inductive invariant.
IInv ==
  /\ TypeOK /\ Chained /\ InOrder /\ Opened /\ BarrierIsHeld
  /\ GuardedIsRegistered /\ Staged

\* With nobody at work the registry holds no more than the soft cap.
CapHolds == (\A s \in Sessions : ~Guarded(call, s)) => Cardinality(InMemory) <= SoftCap

\* Every call ends: none waits for itself, for a call that waits for it, or for
\* a barrier nobody lifts.
EveryCallEnds == \A c \in Calls : call[c].phase = "queued" ~> call[c].phase = "done"
=============================================================================
