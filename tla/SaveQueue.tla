------------------------------ MODULE SaveQueue ------------------------------
(***************************************************************************)
(* The queue of saves of one session file (lib/state/persistence.ts,       *)
(* enqueuePersistedSessionState and drainPersistedStateQueue).             *)
(*                                                                         *)
(* An item [sequence, save] is a PendingPersistedState: sequence is its    *)
(* place in the queue object, which starts again at 1 with each new        *)
(* object, and save is the number of the snapshot over the life of the     *)
(* session.  A waiter is the item it was asked with.                       *)
(***************************************************************************)
EXTENDS SessionFile

VARIABLES
  asked,   \* how many saves there have been
  queue,   \* the entry of pendingPersistedStates for this file
  writing  \* the items a drain is writing now

vars == <<file, readable, answer, asked, queue, writing>>

Item == [sequence : Saves, save : Saves]

\* A file that has no queue object in the map.
FreshQueue == [next |-> 0, pending |-> {}, waiters |-> {}, draining |-> FALSE]

TypeOK ==
  /\ FileTypeOK
  /\ asked \in 0 .. MaxSaves
  /\ queue \in [next : 0 .. MaxSaves, pending : SUBSET Item,
                waiters : SUBSET Item, draining : BOOLEAN]
  /\ writing \in SUBSET Item

Init ==
  /\ FileInit
  /\ asked = 0
  /\ queue = FreshQueue
  /\ writing = {}

-----------------------------------------------------------------------------
\* Faults of Asked: every save starts a drain; a save waits behind the pending
\* one, which keeps its place.
AskedAtOnce(item) ==
  /\ queue' = [queue EXCEPT !.next = item.sequence, !.waiters = @ \cup {item},
                            !.draining = TRUE]
  /\ writing' = writing \cup {item}
AskedBehind(item) ==
  /\ queue' = [queue EXCEPT !.next = item.sequence, !.waiters = @ \cup {item},
                            !.pending = IF @ # {} THEN @
                                        ELSE IF queue.draining THEN {item} ELSE {},
                            !.draining = TRUE]
  /\ writing' = IF queue.draining THEN writing ELSE {item}

\* enqueuePersistedSessionState: the item replaces the pending one, and starts
\* a drain unless one is at work.  A drain takes the item before it yields.
Asked(item) ==
  /\ queue' = [queue EXCEPT !.next = item.sequence, !.waiters = @ \cup {item},
                            !.pending = IF queue.draining THEN {item} ELSE {},
                            !.draining = TRUE]
  /\ writing' = IF queue.draining THEN writing ELSE writing \cup {item}

Save ==
  /\ asked < MaxSaves
  /\ asked' = asked + 1
  /\ answer' = [answer EXCEPT ![asked + 1] = "waiting"]
  /\ Asked([sequence |-> queue.next + 1, save |-> asked + 1])
  /\ UNCHANGED <<file, readable>>

\* A fault of Covers: callers whose snapshot is still pending are answered too.
CoversAll(item, waiter) == TRUE

\* settlePersistedSaveWaiters answers those up to the item's sequence.
Covers(item, waiter) == waiter.sequence <= item.sequence

Answered(item, a) ==
  answer' = [n \in Saves |->
               IF \E w \in queue.waiters : w.save = n /\ Covers(item, w)
               THEN a ELSE answer[n]]

\* Faults of Drained: the queue object goes although an item came in during
\* the write; an idle queue still says it is draining.
DrainedForgetful(item) ==
  /\ queue' = FreshQueue
  /\ writing' = writing \ {item}
DrainedBusy(item) ==
  LET left == {w \in queue.waiters : ~Covers(item, w)}
  IN /\ queue' = [queue EXCEPT !.waiters = left, !.pending = {}]
     /\ writing' = (writing \ {item}) \cup queue.pending

\* The drain goes on with the pending item; without one it drops the queue.
Drained(item) ==
  LET left == {w \in queue.waiters : ~Covers(item, w)}
  IN /\ queue' = IF queue.pending = {} THEN FreshQueue
                 ELSE [queue EXCEPT !.waiters = left, !.pending = {}]
     /\ writing' = (writing \ {item}) \cup queue.pending

\* writePersistedSessionState returns, or throws, and its callers are told.
Written(item) ==
  /\ file' = item.save
  /\ readable' = TRUE
  /\ Answered(item, "saved")
  /\ Drained(item)
  /\ UNCHANGED asked

NotWritten(item) ==
  /\ Answered(item, "failed")
  /\ Drained(item)
  /\ UNCHANGED <<file, readable, asked>>

WriteEnds == \E item \in writing : Written(item) \/ NotWritten(item)

\* fs.writeFile opens the file, and truncates it, before it writes.
Truncate ==
  /\ writing # {}
  /\ readable' = FALSE
  /\ UNCHANGED <<file, answer, asked, queue, writing>>

\* The process ends and another one comes up.
Crash ==
  /\ answer' = [n \in Saves |-> IF n \in Waiting THEN "lost" ELSE answer[n]]
  /\ \/ UNCHANGED <<file, readable>>
     \/ \E item \in writing : file' = item.save /\ readable' = TRUE
  /\ queue' = FreshQueue
  /\ writing' = {}
  /\ UNCHANGED asked

Next == Save \/ WriteEnds \/ Truncate \/ Crash

Safety == Init /\ [][Next]_vars

\* A write that was begun ends: fs.writeFile settles its promise, and the event
\* loop runs the drain that awaits it.
Spec == Safety /\ WF_vars(WriteEnds)

-----------------------------------------------------------------------------
\* One item is written at a time; the pending one, if any, is the newest asked
\* for, else the one being written is; and the callers not yet answered are the
\* waiters of the queue.  So an answer to the newest leaves no caller behind.
InQueue ==
  /\ queue.draining <=> writing # {}
  /\ ~queue.draining => queue = FreshQueue
  /\ queue.draining => \E w \in queue.waiters : w.sequence = queue.next
  /\ queue.pending = {w \in queue.waiters : w.sequence = queue.next} \ writing
  /\ queue.next <= asked /\ file <= asked
  /\ writing \subseteq queue.waiters
  /\ \A i, j \in writing : i = j
  /\ \A w \in queue.waiters :
       /\ w.sequence <= queue.next
       /\ w.save + queue.next = w.sequence + asked
       /\ file < w.save
  /\ Waiting = {w.save : w \in queue.waiters}
  /\ \A n \in Saves : answer[n] = "none" <=> n > asked

IInv == TypeOK /\ InQueue

\* Only a save newer than what the file holds can have left it unreadable: one
\* that is being written, that failed, or that was lost in a crash.
WholeUnlessNewer ==
  \/ readable
  \/ \E k \in Saves : /\ k > file
                     /\ \/ answer[k] \in {"failed", "lost"}
                        \/ \E item \in writing : item.save = k

\* A caller that was told its save is done finds its snapshot, or a newer one,
\* in the file, however many saves were merged into one write; and the file can
\* be read unless a newer save failed, was lost in a crash, or is being written
\* over it in place (lib/state/persistence.ts, "callers waiting on replaced
\* items settle when that newer snapshot is durable").
SavedIsInFile ==
  \A n \in Saves : answer[n] = "saved" => n <= file /\ WholeUnlessNewer

\* A snapshot whose caller was told it failed is never the one in the file:
\* the V1 compress tool takes the compression back on that word
\* (lib/compress/range.ts).
FailedStaysOut == \A n \in Saves : answer[n] = "failed" => file # n

\* Overlapping saves never put an older snapshot over a newer one.
NeverGoesBack == [][file <= file']_vars

\* Every caller is answered, unless the process ends.
EverySaveSettles == \A n \in Saves : answer[n] = "waiting" ~> answer[n] # "waiting"

\* To its callers the queue is a file that takes one snapshot after another.
Implements == FileSpec
=============================================================================
