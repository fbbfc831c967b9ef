------------------------------ MODULE V2Instance ------------------------------
(***************************************************************************)
(* One setup of the V2 plugin, from its first registration to the end of   *)
(* its disposal: the fence of src/lib/v2/lifecycle.ts, the stack of        *)
(* resources of src/lib/v2/plugin.ts, the tool calls and context requests  *)
(* that pass the fence, the timing hooks of src/lib/v2/timing.ts over the  *)
(* map of starts that all sessions share, and the proxy monitor of         *)
(* src/lib/v2/proxy.ts, which switches the plugin off and on.              *)
(*                                                                         *)
(* A compress call c is announced by the before hook, executed, and        *)
(* closed by the after hook; a context request is executed only.  What an  *)
(* operation does to its session is in CompressionSession and              *)
(* SessionRegistry: here it is accepted (committed), or rolled back.       *)
(***************************************************************************)
EXTENDS Sequences, Naturals

CONSTANTS
  Compressions,  \* the compress calls
  Requests,      \* the context requests and commands
  SessionOf,     \* the session of each
  Monitor,       \* the lease of the proxy monitor
  MaxUpdates     \* bound: catalog updates

Ops == Compressions \cup Requests
Sessions == {SessionOf[o] : o \in Ops}

ASSUME OpsAssumption ==
  /\ Compressions \cap Requests = {}
  /\ Monitor \notin Ops
  /\ DOMAIN SessionOf = Ops
  /\ MaxUpdates \in Nat

VARIABLES
  stage,     \* of the setup
  held,      \* how many of Resources are registered
  monitor,   \* where the loop of the proxy monitor is
  disabled,  \* proxyState.disabled
  tools, commands, \* whether each domain shows what the plugin adds to it
  updates,   \* how many catalog updates there have been
  broken,    \* a compensating reload has failed since the last good one
  step,      \* of each operation
  queue,     \* of each session, who waits for its reservation
  starts,    \* startsByCallId
  owned,     \* ownedKeys
  snapshot,  \* of the starts, taken as an operation began to work
  upset,     \* history: the starts a rollback took away or brought back
  committed, saved, timed, \* operations: in the live state, in the file, with a duration
  told       \* what a call was answered

lifecycle == <<stage, held>>
proxy == <<monitor, disabled, tools, commands, broken, updates>>
timing == <<starts, owned, upset>>
outcome == <<committed, saved, timed>>
vars == <<lifecycle, proxy, step, queue, timing, snapshot, outcome, told>>

\* The stack of setup, in the order of registration.
Resources == <<"notices", "rpc", "bridge", "tools", "commands", "context",
               "timing", "before", "after">>
\* How much of it is held each time setup awaits.
Awaits == {1, 3, 4, 5, 7, 8, 9}

Has(resource) == \E i \in 1 .. held : Resources[i] = resource

IsActive == stage \in {"setup", "ready"}
IsEnabled == IsActive /\ ~disabled

\* The steps at which an operation has a lease.
Leased == {"asking", "queued", "working", "saving", "effects", "timing", "attaching"}
Holding == {"queued", "working", "saving", "effects", "timing", "attaching"}
InFlight == {o \in Ops : step[o] \in Leased}
            \cup (IF monitor \in {"reloading", "compensating"} THEN {Monitor} ELSE {})

LifecycleTypeOK ==
  /\ stage \in {"setup", "ready", "closing", "closed"}
  /\ held \in 0 .. Len(Resources)
  /\ monitor \in {"off", "waiting", "reading", "reloading", "compensating", "ended"}
  /\ updates \in 0 .. MaxUpdates
  /\ disabled \in BOOLEAN /\ tools \in BOOLEAN
  /\ commands \in BOOLEAN /\ broken \in BOOLEAN

OperationTypeOK ==
  /\ step \in [Ops -> Leased \cup {"idle", "begun", "answered", "dropped", "over"}]
  /\ DOMAIN queue = Sessions
  /\ told \in [Compressions -> {"nothing", "done", "failed", "not executed"}]

TimingTypeOK ==
  /\ starts \subseteq Ops /\ owned \subseteq Ops /\ upset \subseteq Ops
  /\ snapshot \in [Ops -> SUBSET Ops]
  /\ committed \subseteq Ops /\ saved \subseteq Ops /\ timed \subseteq Ops

TypeOK == LifecycleTypeOK /\ OperationTypeOK /\ TimingTypeOK

Init ==
  /\ stage = "setup"
  /\ held = 1
  /\ monitor = "off"
  /\ disabled = FALSE /\ tools = FALSE /\ commands = FALSE /\ broken = FALSE
  /\ updates = 0
  /\ step = [o \in Ops |-> "idle"]
  /\ queue = [s \in Sessions |-> <<>>]
  /\ starts = {} /\ owned = {} /\ upset = {}
  /\ snapshot = [o \in Ops |-> {}]
  /\ committed = {} /\ saved = {} /\ timed = {}
  /\ told = [o \in Compressions |-> "nothing"]

-----------------------------------------------------------------------------
(* setup and dispose *)

\* A registration arrives, and setup goes on to the next one.  The catalog is
\* read between rpc and the tools; the monitor starts with the last one.
Register ==
  /\ stage = "setup"
  /\ held' \in {n \in Awaits : n > held /\ \A a \in Awaits : a > held => n <= a}
  /\ disabled' \in IF held' = 3 THEN BOOLEAN ELSE {disabled}
  /\ tools' = IF held' = 4 THEN ~disabled ELSE tools
  /\ commands' = IF held' = 5 THEN ~disabled ELSE commands
  /\ IF held' = 9 THEN stage' = "ready" /\ monitor' = "waiting"
     ELSE UNCHANGED <<stage, monitor>>
  /\ UNCHANGED <<broken, updates, step, queue, timing, snapshot, outcome, told>>

\* setup finds itself disabled, one of its registrations fails, or the host
\* calls dispose: the fence goes down at once.
Dispose ==
  /\ IsActive
  /\ stage' = "closing"
  /\ UNCHANGED <<held, proxy, step, queue, timing, snapshot, outcome, told>>

\* A fault of AtRest: the resources go while operations are in flight.
AtRestOnceStopped == monitor \in {"off", "ended"}

\* The sources have stopped and waitForIdle has returned.
AtRest == monitor \in {"off", "ended"} /\ InFlight = {}

\* disposeAll, one resource at a time, from the last; a cleanup that fails is
\* passed over.
Release ==
  /\ stage = "closing"
  /\ AtRest
  /\ held' = held - 1
  /\ stage' = IF held' = 0 THEN "closed" ELSE stage
  /\ IF Resources[held] = "timing"
     THEN starts' = starts \ owned /\ owned' = {}
     ELSE UNCHANGED <<starts, owned>>
  /\ UNCHANGED <<proxy, step, queue, upset, snapshot, outcome, told>>

-----------------------------------------------------------------------------
(* the proxy monitor *)

CatalogUpdated ==
  /\ monitor = "waiting" /\ IsActive /\ updates < MaxUpdates
  /\ monitor' = "reading"
  /\ updates' = updates + 1
  /\ UNCHANGED <<lifecycle, disabled, tools, commands, broken, step, queue, timing,
                 snapshot, outcome, told>>

\* The lookup fails or finds nothing new; or the new state is published and,
\* unless the plugin is being disposed, both domains are reloaded.
CatalogRead ==
  /\ monitor = "reading"
  /\ \/ monitor' = "waiting" /\ UNCHANGED disabled
     \/ /\ disabled' = ~disabled
        /\ monitor' = IF IsActive THEN "reloading" ELSE "waiting"
  /\ UNCHANGED <<lifecycle, tools, commands, broken, updates, step, queue, timing, snapshot,
                 outcome, told>>

\* Each of the two reloads may fail on its own; one that succeeds replays the
\* transform, which asks isEnabled.
Reload(toolsToo, commandsToo) ==
  /\ tools' = IF toolsToo THEN IsEnabled ELSE tools
  /\ commands' = IF commandsToo THEN IsEnabled ELSE commands

\* A fault of Reverted: the state is put back, the domains are not.
RevertedAlone ==
  /\ disabled' = ~disabled
  /\ monitor' = "waiting"
  /\ UNCHANGED broken

\* A domain has failed: the state is put back, and both are replayed.
Reverted ==
  /\ disabled' = ~disabled
  /\ monitor' = IF IsActive THEN "compensating" ELSE "waiting"
  /\ UNCHANGED broken

Reloaded ==
  /\ monitor = "reloading"
  /\ \E toolsToo, commandsToo \in BOOLEAN :
       /\ Reload(toolsToo, commandsToo)
       /\ IF toolsToo /\ commandsToo
          THEN monitor' = "waiting" /\ broken' = FALSE /\ UNCHANGED disabled
          ELSE Reverted
  /\ UNCHANGED <<lifecycle, updates, step, queue, timing, snapshot, outcome, told>>

Compensated ==
  /\ monitor = "compensating"
  /\ \E toolsToo, commandsToo \in BOOLEAN :
       /\ Reload(toolsToo, commandsToo)
       /\ broken' = (broken \/ ~toolsToo \/ ~commandsToo)
  /\ monitor' = "waiting"
  /\ UNCHANGED <<lifecycle, disabled, updates, step, queue, timing, snapshot, outcome, told>>

\* stop aborts the subscription and awaits the loop.
MonitorStopped ==
  /\ monitor = "waiting" /\ stage = "closing"
  /\ monitor' = "ended"
  /\ UNCHANGED <<lifecycle, disabled, tools, commands, broken, updates, step, queue, timing,
                 snapshot, outcome, told>>

-----------------------------------------------------------------------------
(* operations *)

Reservation(o) == queue[SessionOf[o]]
Reserved(o) == Reservation(o) # <<>> /\ Head(Reservation(o)) = o

Goes(o, to) == step' = [step EXCEPT ![o] = to]

\* The reservation, if any, is given back, and the lease is complete.  A call
\* the fence has overtaken is told that it was not executed.
Leaves(o, answer) ==
  /\ Goes(o, IF o \in Compressions THEN "answered" ELSE "over")
  /\ queue' = IF step[o] \in Holding THEN [queue EXCEPT ![SessionOf[o]] = Tail(@)]
              ELSE queue
  /\ told' = IF o \in Requests THEN told
             ELSE [told EXCEPT ![o] = IF IsActive THEN answer ELSE "not executed"]

\* The execute.before hook of a compress call.
Before(o) ==
  /\ o \in Compressions /\ step[o] = "idle" /\ Has("before")
  /\ Goes(o, "begun")
  /\ IF IsEnabled
     THEN starts' = starts \cup {o} /\ owned' = owned \cup {o}
     ELSE UNCHANGED <<starts, owned>>
  /\ UNCHANGED <<lifecycle, proxy, queue, upset, snapshot, outcome, told>>

\* operations.run: without a lease nothing is done.
Enter(o) ==
  /\ \/ o \in Compressions /\ Has("tools")
        /\ step[o] = IF Has("before") THEN "begun" ELSE "idle"
     \/ o \in Requests /\ Has("context") /\ step[o] = "idle"
  /\ IF IsActive THEN Goes(o, "asking") /\ UNCHANGED <<queue, told>>
     ELSE Leaves(o, "failed")
  /\ UNCHANGED <<lifecycle, proxy, timing, snapshot, outcome>>

\* A proxy, the permission, the parent session or the input denies it.
Denied(o) ==
  /\ step[o] = "asking"
  /\ Leaves(o, "failed")
  /\ UNCHANGED <<lifecycle, proxy, timing, snapshot, outcome>>

Queue(o) ==
  /\ step[o] = "asking" /\ IsActive
  /\ Goes(o, "queued")
  /\ queue' = [queue EXCEPT ![SessionOf[o]] = Append(@, o)]
  /\ UNCHANGED <<lifecycle, proxy, timing, snapshot, outcome, told>>

\* The reservation is there: the operation works on a copy of the state, and
\* what the shared map of starts was is kept for a rollback.
Work(o) ==
  /\ step[o] = "queued" /\ Reserved(o)
  /\ IF IsActive
     THEN /\ Goes(o, "working")
          /\ snapshot' = [snapshot EXCEPT ![o] = starts]
          /\ UNCHANGED <<queue, told>>
     ELSE Leaves(o, "failed") /\ UNCHANGED snapshot
  /\ UNCHANGED <<lifecycle, proxy, timing, outcome>>

\* restoreSharedTiming, restoreInitialization: the map is made again what it was.
RolledBack(o) ==
  /\ starts' = snapshot[o]
  /\ upset' = upset \cup (starts \ snapshot[o]) \cup (snapshot[o] \ starts)
  /\ UNCHANGED owned

\* It throws, is rejected, or finds itself inactive as it would commit.
Fails(o) ==
  /\ step[o] = "working"
  /\ RolledBack(o)
  /\ Leaves(o, "failed")
  /\ snapshot' = [snapshot EXCEPT ![o] = {}]
  /\ UNCHANGED <<lifecycle, proxy, outcome>>

\* A request whose history cannot be projected ends before it has changed anything.
Abandoned(o) ==
  /\ step[o] = "working" /\ o \in Requests
  /\ Leaves(o, "failed")
  /\ snapshot' = [snapshot EXCEPT ![o] = {}]
  /\ UNCHANGED <<lifecycle, proxy, timing, outcome>>

\* A fault of Accepted: the map of starts is restored on success too.
AcceptedRestoring(o) ==
  /\ IsActive
  /\ starts' = snapshot[o]

\* The lease is asked once more, and the map of starts is left as it is.
Accepted(o) == IsActive /\ UNCHANGED starts

\* The copy becomes the state, and its save begins in the same step.
Commit(o) ==
  /\ step[o] = "working"
  /\ Accepted(o)
  /\ committed' = committed \cup {o}
  /\ Goes(o, "saving")
  /\ snapshot' = [snapshot EXCEPT ![o] = {}]
  /\ UNCHANGED <<lifecycle, proxy, queue, owned, upset, saved, timed, told>>

InFile(o) == saved' = saved \cup {c \in committed : SessionOf[c] = SessionOf[o]}

\* The deferred effects run only while the lease is good.
Saved(o) ==
  /\ step[o] = "saving"
  /\ InFile(o)
  /\ IF IsActive THEN Goes(o, "effects") /\ UNCHANGED <<queue, told>>
     ELSE Leaves(o, "done")
  /\ UNCHANGED <<lifecycle, proxy, timing, snapshot, committed, timed>>

\* A save that fails is an error to a tool; a request logs it and goes on.
NotSaved(o) ==
  /\ step[o] = "saving"
  /\ IF o \in Requests /\ IsActive THEN Goes(o, "effects") /\ UNCHANGED <<queue, told>>
     ELSE Leaves(o, "failed")
  /\ UNCHANGED <<lifecycle, proxy, timing, snapshot, outcome>>

Ends(o) ==
  /\ step[o] = "effects"
  /\ Leaves(o, "done")
  /\ UNCHANGED <<lifecycle, proxy, timing, snapshot, outcome>>

-----------------------------------------------------------------------------
(* the after hook *)

After(o) ==
  /\ step[o] = "answered"
  /\ IF Has("after") /\ IsEnabled
     THEN /\ Goes(o, "timing")
          /\ queue' = [queue EXCEPT ![SessionOf[o]] = Append(@, o)]
     ELSE Goes(o, "dropped") /\ UNCHANGED queue
  /\ UNCHANGED <<lifecycle, proxy, timing, snapshot, outcome, told>>

Unlocked(o) == queue' = [queue EXCEPT ![SessionOf[o]] = Tail(@)]

\* The start is taken; the duration goes to the block of the call, if it made one.
Attach(o) ==
  /\ step[o] = "timing" /\ Reserved(o)
  /\ IF ~IsActive \/ o \notin owned
     THEN Goes(o, "dropped") /\ Unlocked(o) /\ UNCHANGED <<starts, owned, timed>>
     ELSE /\ starts' = starts \ {o}
          /\ IF o \in starts /\ o \in committed
             THEN /\ timed' = timed \cup {o}
                  /\ Goes(o, "attaching")
                  /\ UNCHANGED <<queue, owned>>
             ELSE /\ owned' = owned \ {o}
                  /\ Goes(o, "over") /\ Unlocked(o)
                  /\ UNCHANGED timed
  /\ UNCHANGED <<lifecycle, proxy, upset, snapshot, committed, saved, told>>

\* The registry has no state of the session any more (evicted since the call): the start the
\* hook owns is given up, and the call is left without a duration.
Unattached(o) ==
  /\ step[o] = "timing" /\ Reserved(o)
  /\ starts' = starts \ (owned \cap {o})
  /\ owned' = owned \ {o}
  /\ Goes(o, "dropped") /\ Unlocked(o)
  /\ UNCHANGED <<lifecycle, proxy, upset, snapshot, outcome, told>>

\* Its save has ended, well or not.
Attached(o) ==
  /\ step[o] = "attaching"
  /\ InFile(o) \/ UNCHANGED saved
  /\ owned' = IF IsActive THEN owned \ {o} ELSE owned
  /\ Goes(o, "over") /\ Unlocked(o)
  /\ UNCHANGED <<lifecycle, proxy, starts, upset, snapshot, committed, timed, told>>

-----------------------------------------------------------------------------
\* What an operation in hand does next, by itself.
Proceeds(o) ==
  \/ Denied(o) \/ Queue(o) \/ Work(o) \/ Fails(o) \/ Abandoned(o) \/ Commit(o)
  \/ Saved(o) \/ NotSaved(o) \/ Ends(o) \/ Attach(o) \/ Unattached(o)
  \/ Attached(o)

Monitoring == CatalogRead \/ Reloaded \/ Compensated \/ MonitorStopped

Next ==
  \/ Register \/ Dispose \/ Release \/ CatalogUpdated \/ Monitoring
  \/ \E o \in Ops : Before(o) \/ Enter(o) \/ Proceeds(o) \/ After(o)

Safety == Init /\ [][Next]_vars

\* The event loop runs what is ready; host calls, file writes and reloads
\* settle.  Nothing obliges the host to dispose, to call, or to run a hook.
Spec ==
  /\ Safety
  /\ WF_vars(Release)
  /\ WF_vars(Monitoring)
  /\ \A o \in Ops : WF_vars(Proceeds(o))

-----------------------------------------------------------------------------
\* What is not closed holds something still.
Stacked == stage # "closed" => held > 0

\* The domains show what the plugin acts on, but for the time of a reload.
Converging ==
  /\ stage = "setup" => /\ monitor = "off"
                        /\ held >= 4 => (tools <=> ~disabled)
                        /\ held >= 5 => (commands <=> ~disabled)
  /\ stage = "ready" /\ monitor \in {"waiting", "reading"} /\ ~broken =>
       (tools <=> ~disabled) /\ (commands <=> ~disabled)

\* Until the after hook takes it, an owned start is in the map, or was upset;
\* the hook leaves a call that committed only with its duration.
StartsKept ==
  \A o \in Compressions :
    /\ o \in owned /\ step[o] \notin {"attaching", "over"} => o \in starts \cup upset
    /\ step[o] = "attaching" => o \in timed
    /\ step[o] = "over" /\ o \in committed => o \in timed \cup upset

IInv == TypeOK /\ Stacked /\ Converging /\ StartsKept

\* To its host a setup is an instance: the fence is its being open.
Instance == INSTANCE PluginInstance WITH
  Operations <- Ops,
  Resources <- Len(Resources),
  MonitorOperation <- Monitor,
  open <- IsActive,
  held <- held,
  busy <- InFlight,
  effects <- (committed \X {"work"}) \cup (timed \X {"time"}),
  stored <- saved

\* Refinement: after the fence is down nothing is taken up or accepted, every
\* save that still lands belongs to an operation in hand, no registration goes
\* while one is, and once closed all of it goes (src/lib/v2/lifecycle.ts,
\* "lets setup await all work before it tears down host registrations").
ImplementsInstance == Instance!InstanceSpec

\* Whenever the monitor is back at its subscription, both domains show what
\* the plugin acts on, however many reloads failed, unless the compensating
\* replay failed as well (src/lib/v2/plugin.ts, "replay both domains so they
\* converge before the monitor reports failure").
DomainsConverge ==
  (stage = "ready" /\ monitor = "waiting" /\ ~broken) =>
    (tools <=> ~disabled) /\ (commands <=> ~disabled)

\* A compress call whose hooks both ran has its duration on the block it
\* committed, whatever other sessions did to the shared map meanwhile, unless
\* one of them was rolled back and upset its start (a hook that is dropped, by
\* the fence or for want of the session's state, does not reach "over").
TimedUnlessUpset ==
  \A o \in Compressions :
    (step[o] = "over" /\ o \in committed) => o \in timed \/ o \in upset

\* What the answer of a call the fence overtook says (src/lib/v2/tools.ts,
\* "ACP is shutting down; this operation was not executed."): it left no
\* trace in the session's file.
DenialIsTrue == \A o \in Compressions : told[o] = "not executed" => o \notin saved
=============================================================================
