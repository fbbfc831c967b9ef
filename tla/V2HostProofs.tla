----------------------------- MODULE V2HostProofs -----------------------------
(***************************************************************************)
(* Proofs about the V2 adapter: the life of one setup (V2Instance), for    *)
(* any calls and requests of any sessions, with its refinement of          *)
(* PluginInstance; and the context hook (V2Context), for any histories the *)
(* host may have projected, any request it hands over for them and any     *)
(* disturbance of it.                                                      *)
(*                                                                         *)
(* The hook's proof goes up from the data: sequences, the patch and what   *)
(* it assembles, the restored view, the transform, the lowered request,    *)
(* the claims of the sources, the places noted for each item (Traced), and *)
(* then the invariant of the hook (ContextIInv) and what follows from it.  *)
(***************************************************************************)
EXTENDS V2Instance, V2Context, FiniteSetTheorems, FunctionTheorems, WellFoundedInduction, TLAPS

-----------------------------------------------------------------------------
(* One setup of the plugin.                                                *)

LEMMA LengthOfResources == Len(Resources) = 9
BY DEF Resources

LEMMA SessionsOfOps == \A o \in Ops : SessionOf[o] \in Sessions
BY DEF Sessions

LEMMA InitInv == Init => IInv
<1> SUFFICES ASSUME Init PROVE IInv
  OBVIOUS
<1>1. LifecycleTypeOK
  <2>1. held \in 0 .. Len(Resources) /\ updates \in 0 .. MaxUpdates
    BY LengthOfResources, OpsAssumption DEF Init
  <2> QED
    BY <2>1 DEF Init, LifecycleTypeOK
<1>2. OperationTypeOK
  BY DEF Init, OperationTypeOK, Leased
<1>3. TimingTypeOK
  BY DEF Init, TimingTypeOK
<1>4. Stacked /\ Converging /\ StartsKept
  BY DEF Init, Stacked, Converging, StartsKept, Ops
<1> QED
  BY <1>1, <1>2, <1>3, <1>4 DEF IInv, TypeOK

-----------------------------------------------------------------------------
(* Types and the stack *)

LEMMA LifecycleTypesKept ==
  ASSUME LifecycleTypeOK, Stacked, [Next]_vars
  PROVE  LifecycleTypeOK' /\ Stacked'
<1> USE DEF LifecycleTypeOK, Stacked
<1>1. CASE Register
  <2>1. held \in 1 .. 9 /\ held' \in 1 .. 9
    BY <1>1, LengthOfResources DEF Register, Awaits
  <2>2. disabled' \in BOOLEAN
    BY <1>1 DEF Register
  <2>3. tools' \in BOOLEAN /\ commands' \in BOOLEAN
    BY <1>1 DEF Register
  <2>4. stage' \in {"setup", "ready"} /\ monitor' \in {"waiting", monitor}
    BY <1>1 DEF Register
  <2>5. UNCHANGED <<broken, updates>>
    BY <1>1 DEF Register
  <2> QED
    BY <2>1, <2>2, <2>3, <2>4, <2>5, LengthOfResources
<1>2. CASE Dispose
  BY <1>2, LengthOfResources, OpsAssumption DEF Dispose, IsActive, proxy, timing, outcome
<1>3. CASE Release
  BY <1>3, LengthOfResources, OpsAssumption DEF Release, proxy, outcome
<1>4. CASE CatalogUpdated
  BY <1>4, LengthOfResources, OpsAssumption DEF CatalogUpdated, lifecycle, timing, outcome
<1>5. CASE CatalogRead
  BY <1>5, LengthOfResources, OpsAssumption DEF CatalogRead, lifecycle, timing, outcome
<1>6. CASE Reloaded
  BY <1>6, LengthOfResources, OpsAssumption DEF Reloaded, Reload, Reverted, IsEnabled, IsActive, lifecycle, timing, outcome
<1>7. CASE Compensated
  BY <1>7, LengthOfResources, OpsAssumption DEF Compensated, Reload, IsEnabled, IsActive, lifecycle, timing, outcome
<1>8. CASE MonitorStopped
  BY <1>8, LengthOfResources, OpsAssumption DEF MonitorStopped, lifecycle, timing, outcome
<1>9. ASSUME NEW o \in Ops, Before(o) \/ Enter(o) \/ Proceeds(o) \/ After(o)
      PROVE  LifecycleTypeOK' /\ Stacked'
  <2>1. CASE Before(o)
    BY <2>1, LengthOfResources, OpsAssumption DEF Before, lifecycle, proxy, outcome
  <2>2. CASE Enter(o)
    BY <2>2, LengthOfResources, OpsAssumption DEF Enter, lifecycle, proxy, timing, outcome
  <2>3. CASE Denied(o)
    BY <2>3, LengthOfResources, OpsAssumption DEF Denied, lifecycle, proxy, timing, outcome
  <2>4. CASE Queue(o)
    BY <2>4, LengthOfResources, OpsAssumption DEF Queue, lifecycle, proxy, timing, outcome
  <2>5. CASE Work(o)
    BY <2>5, LengthOfResources, OpsAssumption DEF Work, lifecycle, proxy, timing, outcome
  <2>6. CASE Fails(o)
    BY <2>6, LengthOfResources, OpsAssumption DEF Fails, lifecycle, proxy, outcome
  <2>7. CASE Abandoned(o)
    BY <2>7, LengthOfResources, OpsAssumption DEF Abandoned, lifecycle, proxy, timing, outcome
  <2>8. CASE Commit(o)
    BY <2>8, LengthOfResources, OpsAssumption DEF Commit, lifecycle, proxy
  <2>9. CASE Saved(o)
    BY <2>9, LengthOfResources, OpsAssumption DEF Saved, lifecycle, proxy, timing
  <2>10. CASE NotSaved(o)
    BY <2>10, LengthOfResources, OpsAssumption DEF NotSaved, lifecycle, proxy, timing, outcome
  <2>11. CASE Ends(o)
    BY <2>11, LengthOfResources, OpsAssumption DEF Ends, lifecycle, proxy, timing, outcome
  <2>12. CASE Attach(o)
    BY <2>12, LengthOfResources, OpsAssumption DEF Attach, lifecycle, proxy
  <2>13. CASE Attached(o)
    BY <2>13, LengthOfResources, OpsAssumption DEF Attached, lifecycle, proxy
  <2>14. CASE After(o)
    BY <2>14, LengthOfResources, OpsAssumption DEF After, lifecycle, proxy, timing, outcome
  <2>15. CASE Unattached(o)
    BY <2>15, LengthOfResources, OpsAssumption DEF Unattached, lifecycle, proxy, outcome
  <2> QED
    BY <1>9, <2>1, <2>2, <2>3, <2>4, <2>5, <2>6, <2>7, <2>8, <2>9, <2>10, <2>11, <2>12, <2>13, <2>14, <2>15 DEF Proceeds
<1>10. CASE UNCHANGED vars
  BY <1>10 DEF vars, lifecycle, proxy, timing, outcome
<1> QED
  BY <1>1, <1>2, <1>3, <1>4, <1>5, <1>6, <1>7, <1>8, <1>9, <1>10 DEF Next, Monitoring

LEMMA OperationTypesKept ==
  ASSUME OperationTypeOK, [Next]_vars
  PROVE  OperationTypeOK'
<1> USE DEF OperationTypeOK, Leased
<1>1. CASE Register
  BY <1>1, SessionsOfOps DEF Register, timing, outcome
<1>2. CASE Dispose
  BY <1>2, SessionsOfOps DEF Dispose, proxy, timing, outcome
<1>3. CASE Release
  BY <1>3, SessionsOfOps DEF Release, proxy, outcome
<1>4. CASE CatalogUpdated
  BY <1>4, SessionsOfOps DEF CatalogUpdated, lifecycle, timing, outcome
<1>5. CASE CatalogRead
  BY <1>5, SessionsOfOps DEF CatalogRead, lifecycle, timing, outcome
<1>6. CASE Reloaded
  BY <1>6, SessionsOfOps DEF Reloaded, lifecycle, timing, outcome
<1>7. CASE Compensated
  BY <1>7, SessionsOfOps DEF Compensated, lifecycle, timing, outcome
<1>8. CASE MonitorStopped
  BY <1>8, SessionsOfOps DEF MonitorStopped, lifecycle, timing, outcome
<1>9. ASSUME NEW o \in Ops, Before(o) \/ Enter(o) \/ Proceeds(o) \/ After(o)
      PROVE  OperationTypeOK'
  <2>1. CASE Before(o)
    BY <2>1, SessionsOfOps DEF Before, Goes, lifecycle, proxy, outcome
  <2>2. CASE Enter(o)
    BY <2>2, SessionsOfOps DEF Enter, Goes, Leaves, lifecycle, proxy, timing, outcome
  <2>3. CASE Denied(o)
    BY <2>3, SessionsOfOps DEF Denied, Goes, Leaves, lifecycle, proxy, timing, outcome
  <2>4. CASE Queue(o)
    BY <2>4, SessionsOfOps DEF Queue, Goes, lifecycle, proxy, timing, outcome
  <2>5. CASE Work(o)
    BY <2>5, SessionsOfOps DEF Work, Goes, Leaves, lifecycle, proxy, timing, outcome
  <2>6. CASE Fails(o)
    BY <2>6, SessionsOfOps DEF Fails, Goes, Leaves, lifecycle, proxy, outcome
  <2>7. CASE Abandoned(o)
    BY <2>7, SessionsOfOps DEF Abandoned, Goes, Leaves, lifecycle, proxy, timing, outcome
  <2>8. CASE Commit(o)
    BY <2>8, SessionsOfOps DEF Commit, Goes, lifecycle, proxy
  <2>9. CASE Saved(o)
    BY <2>9, SessionsOfOps DEF Saved, Goes, Leaves, lifecycle, proxy, timing
  <2>10. CASE NotSaved(o)
    BY <2>10, SessionsOfOps DEF NotSaved, Goes, Leaves, lifecycle, proxy, timing, outcome
  <2>11. CASE Ends(o)
    BY <2>11, SessionsOfOps DEF Ends, Goes, Leaves, lifecycle, proxy, timing, outcome
  <2>12. CASE Attach(o)
    BY <2>12, SessionsOfOps DEF Attach, Goes, Unlocked, lifecycle, proxy
  <2>13. CASE Attached(o)
    BY <2>13, SessionsOfOps DEF Attached, Goes, Unlocked, lifecycle, proxy
  <2>14. CASE After(o)
    BY <2>14, SessionsOfOps DEF After, Goes, lifecycle, proxy, timing, outcome
  <2>15. CASE Unattached(o)
    BY <2>15, SessionsOfOps DEF Unattached, Goes, Unlocked, lifecycle, proxy, outcome
  <2> QED
    BY <1>9, <2>1, <2>2, <2>3, <2>4, <2>5, <2>6, <2>7, <2>8, <2>9, <2>10, <2>11, <2>12, <2>13, <2>14, <2>15 DEF Proceeds
<1>10. CASE UNCHANGED vars
  BY <1>10 DEF vars, lifecycle, proxy, timing, outcome
<1> QED
  BY <1>1, <1>2, <1>3, <1>4, <1>5, <1>6, <1>7, <1>8, <1>9, <1>10 DEF Next, Monitoring

LEMMA TimingTypesKept ==
  ASSUME TimingTypeOK, [Next]_vars
  PROVE  TimingTypeOK'
<1> USE DEF TimingTypeOK
<1>1. CASE Register
  BY <1>1 DEF Register, timing, outcome
<1>2. CASE Dispose
  BY <1>2 DEF Dispose, proxy, timing, outcome
<1>3. CASE Release
  BY <1>3 DEF Release, proxy, outcome
<1>4. CASE CatalogUpdated
  BY <1>4 DEF CatalogUpdated, lifecycle, timing, outcome
<1>5. CASE CatalogRead
  BY <1>5 DEF CatalogRead, lifecycle, timing, outcome
<1>6. CASE Reloaded
  BY <1>6 DEF Reloaded, lifecycle, timing, outcome
<1>7. CASE Compensated
  BY <1>7 DEF Compensated, lifecycle, timing, outcome
<1>8. CASE MonitorStopped
  BY <1>8 DEF MonitorStopped, lifecycle, timing, outcome
<1>9. ASSUME NEW o \in Ops, Before(o) \/ Enter(o) \/ Proceeds(o) \/ After(o)
      PROVE  TimingTypeOK'
  <2>1. CASE Before(o)
    BY <2>1 DEF Before, lifecycle, proxy, outcome
  <2>2. CASE Enter(o)
    BY <2>2 DEF Enter, lifecycle, proxy, timing, outcome
  <2>3. CASE Denied(o)
    BY <2>3 DEF Denied, lifecycle, proxy, timing, outcome
  <2>4. CASE Queue(o)
    BY <2>4 DEF Queue, lifecycle, proxy, timing, outcome
  <2>5. CASE Work(o)
    BY <2>5 DEF Work, lifecycle, proxy, timing, outcome
  <2>6. CASE Fails(o)
    BY <2>6 DEF Fails, RolledBack, lifecycle, proxy, outcome
  <2>7. CASE Abandoned(o)
    BY <2>7 DEF Abandoned, lifecycle, proxy, timing, outcome
  <2>8. CASE Commit(o)
    BY <2>8 DEF Commit, Accepted, lifecycle, proxy
  <2>9. CASE Saved(o)
    BY <2>9 DEF Saved, InFile, lifecycle, proxy, timing
  <2>10. CASE NotSaved(o)
    BY <2>10 DEF NotSaved, lifecycle, proxy, timing, outcome
  <2>11. CASE Ends(o)
    BY <2>11 DEF Ends, lifecycle, proxy, timing, outcome
  <2>12. CASE Attach(o)
    BY <2>12 DEF Attach, lifecycle, proxy
  <2>13. CASE Attached(o)
    BY <2>13 DEF Attached, InFile, lifecycle, proxy
  <2>14. CASE After(o)
    BY <2>14 DEF After, lifecycle, proxy, timing, outcome
  <2>15. CASE Unattached(o)
    BY <2>15 DEF Unattached, lifecycle, proxy, outcome
  <2> QED
    BY <1>9, <2>1, <2>2, <2>3, <2>4, <2>5, <2>6, <2>7, <2>8, <2>9, <2>10, <2>11, <2>12, <2>13, <2>14, <2>15 DEF Proceeds
<1>10. CASE UNCHANGED vars
  BY <1>10 DEF vars, lifecycle, proxy, timing, outcome
<1> QED
  BY <1>1, <1>2, <1>3, <1>4, <1>5, <1>6, <1>7, <1>8, <1>9, <1>10 DEF Next, Monitoring

-----------------------------------------------------------------------------
(* The domains and the starts *)

LEMMA ConvergingKept ==
  ASSUME LifecycleTypeOK, Converging, [Next]_vars
  PROVE  Converging'
<1> USE DEF Converging, LifecycleTypeOK
<1>1. CASE Register
  <2>1. stage = "setup" /\ held \in 0 .. 9 /\ held' \in {1, 3, 4, 5, 7, 8, 9}
    BY <1>1, LengthOfResources DEF Register, Awaits
  <2>2. held' >= 4 => disabled' = disabled
    BY <1>1, <2>1 DEF Register
  <2>3. held' > 4 => held >= 4 /\ tools' = tools
    BY <1>1, <2>1 DEF Register, Awaits
  <2>4. held' > 5 => held >= 5 /\ commands' = commands
    BY <1>1, <2>1 DEF Register, Awaits
  <2>5. held' = 4 => tools' = ~disabled
    BY <1>1 DEF Register
  <2>6. held' = 5 => commands' = ~disabled
    BY <1>1 DEF Register
  <2>7. held' >= 4 => (tools' <=> ~disabled')
    <3>1. CASE held' = 4
      BY <2>2, <2>5, <3>1
    <3>2. CASE held' > 4
      BY <2>1, <2>2, <2>3, <3>2
    <3> QED
      BY <2>1, <3>1, <3>2
  <2>8. held' >= 5 => (commands' <=> ~disabled')
    <3>1. CASE held' = 5
      <4>1. disabled' = disabled /\ commands' = ~disabled
        BY <2>2, <2>6, <3>1
      <4> QED
        BY <4>1
    <3>2. CASE held' > 5
      BY <2>1, <2>2, <2>4, <3>2
    <3> QED
      BY <2>1, <3>1, <3>2
  <2>9. CASE held' = 9
    BY <1>1, <2>7, <2>8, <2>9 DEF Register
  <2>10. CASE held' # 9
    <3>1. stage' = "setup" /\ monitor' = "off"
      BY <1>1, <2>1, <2>10 DEF Register
    <3> QED
      BY <2>7, <2>8, <3>1
  <2> QED
    BY <2>9, <2>10
<1>2. CASE Dispose
  BY <1>2 DEF Dispose, IsActive, proxy, timing, outcome
<1>3. CASE Release
  BY <1>3 DEF Release, proxy, outcome
<1>4. CASE CatalogUpdated
  BY <1>4 DEF CatalogUpdated, IsActive, lifecycle, timing, outcome
<1>5. CASE CatalogRead
  BY <1>5 DEF CatalogRead, IsActive, lifecycle, timing, outcome
<1>6. CASE Reloaded
  BY <1>6 DEF Reloaded, Reload, Reverted, IsEnabled, IsActive, lifecycle, timing, outcome
<1>7. CASE Compensated
  BY <1>7 DEF Compensated, Reload, IsEnabled, IsActive, lifecycle, timing, outcome
<1>8. CASE MonitorStopped
  BY <1>8 DEF MonitorStopped, lifecycle, timing, outcome
<1>9. ASSUME NEW o \in Ops, Before(o) \/ Enter(o) \/ Proceeds(o) \/ After(o)
      PROVE  Converging'
  <2>1. CASE Before(o)
    BY <2>1 DEF Before, lifecycle, proxy, outcome
  <2>2. CASE Enter(o)
    BY <2>2 DEF Enter, lifecycle, proxy, timing, outcome
  <2>3. CASE Denied(o)
    BY <2>3 DEF Denied, lifecycle, proxy, timing, outcome
  <2>4. CASE Queue(o)
    BY <2>4 DEF Queue, lifecycle, proxy, timing, outcome
  <2>5. CASE Work(o)
    BY <2>5 DEF Work, lifecycle, proxy, timing, outcome
  <2>6. CASE Fails(o)
    BY <2>6 DEF Fails, lifecycle, proxy, outcome
  <2>7. CASE Abandoned(o)
    BY <2>7 DEF Abandoned, lifecycle, proxy, timing, outcome
  <2>8. CASE Commit(o)
    BY <2>8 DEF Commit, lifecycle, proxy
  <2>9. CASE Saved(o)
    BY <2>9 DEF Saved, lifecycle, proxy, timing
  <2>10. CASE NotSaved(o)
    BY <2>10 DEF NotSaved, lifecycle, proxy, timing, outcome
  <2>11. CASE Ends(o)
    BY <2>11 DEF Ends, lifecycle, proxy, timing, outcome
  <2>12. CASE Attach(o)
    BY <2>12 DEF Attach, lifecycle, proxy
  <2>13. CASE Attached(o)
    BY <2>13 DEF Attached, lifecycle, proxy
  <2>14. CASE After(o)
    BY <2>14 DEF After, lifecycle, proxy, timing, outcome
  <2>15. CASE Unattached(o)
    BY <2>15 DEF Unattached, lifecycle, proxy, outcome
  <2> QED
    BY <1>9, <2>1, <2>2, <2>3, <2>4, <2>5, <2>6, <2>7, <2>8, <2>9, <2>10, <2>11, <2>12, <2>13, <2>14, <2>15 DEF Proceeds
<1>10. CASE UNCHANGED vars
  BY <1>10 DEF vars, lifecycle, proxy, timing, outcome
<1> QED
  BY <1>1, <1>2, <1>3, <1>4, <1>5, <1>6, <1>7, <1>8, <1>9, <1>10 DEF Next, Monitoring

LEMMA StartsStayKept ==
  ASSUME OperationTypeOK, TimingTypeOK, StartsKept, [Next]_vars
  PROVE  StartsKept'
<1> USE DEF StartsKept, OperationTypeOK, TimingTypeOK, Ops
<1>1. CASE Register
  BY <1>1 DEF Register, timing, outcome
<1>2. CASE Dispose
  BY <1>2 DEF Dispose, proxy, timing, outcome
<1>3. CASE Release
  BY <1>3 DEF Release, proxy, outcome
<1>4. CASE CatalogUpdated
  BY <1>4 DEF CatalogUpdated, lifecycle, timing, outcome
<1>5. CASE CatalogRead
  BY <1>5 DEF CatalogRead, lifecycle, timing, outcome
<1>6. CASE Reloaded
  BY <1>6 DEF Reloaded, lifecycle, timing, outcome
<1>7. CASE Compensated
  BY <1>7 DEF Compensated, lifecycle, timing, outcome
<1>8. CASE MonitorStopped
  BY <1>8 DEF MonitorStopped, lifecycle, timing, outcome
<1>9. ASSUME NEW o \in Ops, Before(o) \/ Enter(o) \/ Proceeds(o) \/ After(o)
      PROVE  StartsKept'
  <2>1. CASE Before(o)
    BY <2>1 DEF Before, Goes, lifecycle, proxy, outcome
  <2>2. CASE Enter(o)
    BY <2>2 DEF Enter, Goes, Leaves, lifecycle, proxy, timing, outcome
  <2>3. CASE Denied(o)
    BY <2>3 DEF Denied, Goes, Leaves, lifecycle, proxy, timing, outcome
  <2>4. CASE Queue(o)
    BY <2>4 DEF Queue, Goes, lifecycle, proxy, timing, outcome
  <2>5. CASE Work(o)
    BY <2>5 DEF Work, Goes, Leaves, lifecycle, proxy, timing, outcome
  <2>6. CASE Fails(o)
    BY <2>6 DEF Fails, Goes, Leaves, RolledBack, lifecycle, proxy, outcome
  <2>7. CASE Abandoned(o)
    BY <2>7 DEF Abandoned, Goes, Leaves, lifecycle, proxy, timing, outcome
  <2>8. CASE Commit(o)
    BY <2>8 DEF Commit, Goes, Accepted, lifecycle, proxy
  <2>9. CASE Saved(o)
    BY <2>9 DEF Saved, Goes, Leaves, lifecycle, proxy, timing
  <2>10. CASE NotSaved(o)
    BY <2>10 DEF NotSaved, Goes, Leaves, lifecycle, proxy, timing, outcome
  <2>11. CASE Ends(o)
    BY <2>11 DEF Ends, Goes, Leaves, lifecycle, proxy, timing, outcome
  <2>12. CASE Attach(o)
    BY <2>12 DEF Attach, Goes, lifecycle, proxy
  <2>13. CASE Attached(o)
    BY <2>13 DEF Attached, Goes, lifecycle, proxy
  <2>14. CASE After(o)
    BY <2>14 DEF After, Goes, lifecycle, proxy, timing, outcome
  <2>15. CASE Unattached(o)
    BY <2>15 DEF Unattached, Goes, lifecycle, proxy, outcome
  <2> QED
    BY <1>9, <2>1, <2>2, <2>3, <2>4, <2>5, <2>6, <2>7, <2>8, <2>9, <2>10, <2>11, <2>12, <2>13, <2>14, <2>15 DEF Proceeds
<1>10. CASE UNCHANGED vars
  BY <1>10 DEF vars, lifecycle, proxy, timing, outcome
<1> QED
  BY <1>1, <1>2, <1>3, <1>4, <1>5, <1>6, <1>7, <1>8, <1>9, <1>10 DEF Next, Monitoring

-----------------------------------------------------------------------------
(* The invariant, and what follows from it *)

\* The invariant of V2Instance holds in every reachable state, for any calls
\* and requests: types, a stack that is only empty when closed, domains that
\* agree with the plugin between reloads, starts that stay until taken.
THEOREM InstanceInductive == Spec => []IInv
<1>1. Init => IInv
  BY InitInv
<1>2. IInv /\ [Next]_vars => IInv'
  BY LifecycleTypesKept, OperationTypesKept, TimingTypesKept, ConvergingKept, StartsStayKept
     DEF IInv, TypeOK
<1> QED
  BY <1>1, <1>2, PTL DEF Spec, Safety

\* Between reloads both domains show what the plugin acts on, however many
\* reloads failed, unless the compensating replay failed too.
THEOREM DomainsAlwaysConverge == Spec => []DomainsConverge
<1>1. IInv => DomainsConverge
  BY DEF IInv, Converging, DomainsConverge
<1> QED
  BY <1>1, InstanceInductive, PTL

\* A compress call whose hooks both ran has its duration, unless a rollback
\* upset its start.
THEOREM TimedUnlessRolledBack == Spec => []TimedUnlessUpset
<1>1. IInv => TimedUnlessUpset
  BY DEF IInv, StartsKept, TimedUnlessUpset
<1> QED
  BY <1>1, InstanceInductive, PTL

-----------------------------------------------------------------------------
(* Refinement *)

LEMMA InitRefines == Init => Instance!InstanceInit
BY LengthOfResources DEF Init, Instance!InstanceInit, IsActive, InFlight, Leased

\* The parts of the mapping that a step may leave alone.
LEMMA SameOperations ==
  ASSUME UNCHANGED <<step, monitor>>
  PROVE  InFlight' = InFlight
BY DEF InFlight

LEMMA OneEnds ==
  ASSUME NEW o \in Ops, OperationTypeOK, step[o] \in Leased, UNCHANGED monitor,
         NEW to \in {"answered", "dropped", "over"}, Goes(o, to)
  PROVE  o \in InFlight /\ InFlight' = InFlight \ {o}
BY OpsAssumption DEF InFlight, Goes, OperationTypeOK, Leased

LEMMA OneGoesOn ==
  ASSUME NEW o \in Ops, OperationTypeOK, step[o] \in Leased, UNCHANGED monitor,
         NEW to \in Leased, Goes(o, to)
  PROVE  o \in InFlight /\ InFlight' = InFlight
BY OpsAssumption DEF InFlight, Goes, OperationTypeOK, Leased

LEMMA OneBegins ==
  ASSUME NEW o \in Ops, OperationTypeOK, step[o] \notin Leased, UNCHANGED monitor,
         NEW to \in Leased, Goes(o, to)
  PROVE  o \notin InFlight /\ InFlight' = InFlight \cup {o}
BY OpsAssumption DEF InFlight, Goes, OperationTypeOK, Leased

LEMMA OneStaysOut ==
  ASSUME NEW o \in Ops, OperationTypeOK, step[o] \notin Leased, UNCHANGED monitor,
         NEW to, to \notin Leased, Goes(o, to)
  PROVE  InFlight' = InFlight
BY OpsAssumption DEF InFlight, Goes, OperationTypeOK, Leased

\* What is committed is among the effects.
LEMMA CommittedIsEffect ==
  ASSUME NEW done, NEW more, NEW c \in done
  PROVE  c \in {e[1] : e \in (done \X {"work"}) \cup more}
<1>1. <<c, "work">> \in (done \X {"work"}) \cup more
  OBVIOUS
<1>2. <<c, "work">>[1] = c
  OBVIOUS
<1> QED
  BY <1>1, <1>2

LEMMA StepRefines == IInv /\ [Next]_vars => [Instance!InstanceNext]_(Instance!instance)
<1> SUFFICES ASSUME IInv, [Next]_vars
             PROVE  Instance!InstanceNext \/ UNCHANGED Instance!instance
  OBVIOUS
<1> USE DEF Instance!instance
<1>0. OperationTypeOK
  BY DEF IInv, TypeOK
<1>1. CASE Register
  <2>1. IsActive /\ IsActive'
    BY <1>1 DEF Register, IsActive
  <2>2. held' \in held + 1 .. Len(Resources)
    BY <1>1, LengthOfResources DEF Register, Awaits, IInv, TypeOK, LifecycleTypeOK
  <2>3. monitor = "off" /\ monitor' \in {"off", "waiting"} /\ UNCHANGED step
    BY <1>1 DEF Register, IInv, Converging
  <2>4. InFlight' = InFlight
    BY <2>3 DEF InFlight
  <2>5. UNCHANGED <<committed, timed, saved>>
    BY <1>1 DEF Register, outcome
  <2> QED
    BY <2>1, <2>2, <2>4, <2>5 DEF Instance!InstanceNext, Instance!Acquire
<1>2. CASE Dispose
  <2>1. IsActive = TRUE /\ IsActive' = FALSE
    BY <1>2 DEF Dispose, IsActive
  <2>2. UNCHANGED <<held, InFlight, committed, timed, saved>>
    BY <1>2, SameOperations DEF Dispose, proxy, outcome
  <2> QED
    BY <2>1, <2>2 DEF Instance!InstanceNext, Instance!Close
<1>3. CASE Release
  <2>1. IsActive = FALSE /\ IsActive' = FALSE
    BY <1>3 DEF Release, IsActive
  <2>2. held > 0 /\ held' = held - 1 /\ InFlight = {}
    BY <1>3 DEF Release, AtRest, IInv, Stacked
  <2>3. UNCHANGED <<InFlight, committed, timed, saved>>
    BY <1>3, SameOperations DEF Release, proxy, outcome
  <2> QED
    BY <2>1, <2>2, <2>3 DEF Instance!InstanceNext, Instance!Release
<1>4. ASSUME CatalogUpdated \/ CatalogRead \/ Reloaded \/ Compensated \/ MonitorStopped
      PROVE  Instance!InstanceNext \/ UNCHANGED Instance!instance
  <2>1. UNCHANGED <<IsActive, held, step, committed, timed, saved>>
    BY <1>4 DEF CatalogUpdated, CatalogRead, Reloaded, Compensated, MonitorStopped,
               lifecycle, outcome, IsActive
  <2>2. CASE UNCHANGED InFlight
    BY <2>1, <2>2
  <2>3. CASE IsActive /\ Monitor \notin InFlight /\ InFlight' = InFlight \cup {Monitor}
    BY <2>1, <2>3 DEF Instance!InstanceNext, Instance!Begin
  <2>4. CASE Monitor \in InFlight /\ InFlight' = InFlight \ {Monitor}
    BY <2>1, <2>4 DEF Instance!InstanceNext, Instance!End, Instance!Stores
  <2>5. CASE CatalogUpdated \/ MonitorStopped
    BY <2>1, <2>2, <2>5 DEF CatalogUpdated, MonitorStopped, InFlight
  <2>6. CASE CatalogRead
    <3>1. CASE monitor' = "waiting"
      BY <2>1, <2>2, <2>6, <3>1 DEF CatalogRead, InFlight
    <3>2. CASE monitor' = "reloading" /\ IsActive
      BY <2>1, <2>3, <2>6, <3>2, OpsAssumption DEF CatalogRead, InFlight
    <3> QED
      BY <2>6, <3>1, <3>2 DEF CatalogRead
  <2>7. CASE Reloaded
    <3>1. CASE monitor' = "waiting"
      BY <2>1, <2>4, <2>7, <3>1, OpsAssumption DEF Reloaded, InFlight
    <3>2. CASE monitor' = "compensating"
      BY <2>1, <2>2, <2>7, <3>2 DEF Reloaded, InFlight
    <3> QED
      BY <2>7, <3>1, <3>2 DEF Reloaded, Reverted
  <2>8. CASE Compensated
    BY <2>1, <2>4, <2>8, OpsAssumption DEF Compensated, InFlight
  <2> QED
    BY <1>4, <2>5, <2>6, <2>7, <2>8
<1>5. ASSUME NEW o \in Ops, Before(o) \/ Enter(o) \/ Proceeds(o) \/ After(o)
      PROVE  Instance!InstanceNext \/ UNCHANGED Instance!instance
  <2>0. UNCHANGED <<IsActive, held, monitor>>
    BY <1>5 DEF Before, Enter, Proceeds, After, Denied, Queue, Work, Fails, Abandoned, Commit,
               Saved, NotSaved, Ends, Attach, Unattached, Attached, lifecycle, proxy, IsActive
  <2> DEFINE to == IF o \in Compressions THEN "answered" ELSE "over"
  <2>1. to \in {"answered", "dropped", "over"}
    OBVIOUS
  <2>2. CASE UNCHANGED <<InFlight, committed, timed, saved>>
    BY <2>0, <2>2
  <2>3. ASSUME o \notin InFlight, InFlight' = InFlight \cup {o}, IsActive,
               UNCHANGED <<committed, timed, saved>>
        PROVE  Instance!InstanceNext
    BY <2>0, <2>3 DEF Instance!InstanceNext, Instance!Begin
  <2>4. ASSUME o \in InFlight, InFlight' = InFlight \ {o},
               UNCHANGED <<committed, timed>>, saved \subseteq saved',
               saved' \subseteq saved \cup committed
        PROVE  Instance!InstanceNext
    <3>1. Instance!Stores
      BY <2>4, CommittedIsEffect DEF Instance!Stores
    <3> QED
      BY <2>0, <2>4, <3>1 DEF Instance!InstanceNext, Instance!End
  <2>5. CASE Before(o)
    <3>1. Goes(o, "begun") /\ step[o] = "idle" /\ UNCHANGED <<committed, timed, saved>>
      BY <2>5 DEF Before, outcome
    <3>2. UNCHANGED InFlight
      BY <1>0, <2>0, <3>1, OneStaysOut DEF Leased
    <3> QED
      BY <2>2, <3>1, <3>2
  <2>6. CASE Enter(o)
    <3>1. step[o] \notin Leased /\ UNCHANGED <<committed, timed, saved>>
      BY <2>6 DEF Enter, Leased, outcome
    <3>2. CASE IsActive
      <4>1. Goes(o, "asking")
        BY <2>6, <3>2 DEF Enter
      <4>2. o \notin InFlight /\ InFlight' = InFlight \cup {o}
        BY <1>0, <2>0, <3>1, <4>1, OneBegins DEF Leased
      <4> QED
        BY <2>3, <3>1, <3>2, <4>2
    <3>3. CASE ~IsActive
      <4>1. Goes(o, to)
        BY <2>6, <3>3 DEF Enter, Leaves
      <4>2. UNCHANGED InFlight
        BY <1>0, <2>0, <2>1, <3>1, <4>1, OneStaysOut DEF Leased
      <4> QED
        BY <2>2, <3>1, <4>2
    <3> QED
      BY <3>2, <3>3
  <2>7. ASSUME step[o] \in Leased, \E a : Leaves(o, a),
               UNCHANGED <<committed, timed>>, saved \subseteq saved',
               saved' \subseteq saved \cup committed
        PROVE  Instance!InstanceNext
    <3>1. Goes(o, to)
      BY <2>7 DEF Leaves
    <3>2. o \in InFlight /\ InFlight' = InFlight \ {o}
      BY <1>0, <2>0, <2>1, <2>7, <3>1, OneEnds
    <3> QED
      BY <2>4, <2>7, <3>2
  <2>8. ASSUME step[o] \in Leased, NEW next \in Leased, Goes(o, next)
        PROVE  o \in InFlight /\ UNCHANGED InFlight
    BY <1>0, <2>0, <2>8, OneGoesOn
  <2>9. CASE Denied(o) \/ Fails(o) \/ Abandoned(o) \/ Ends(o)
    <3>1. step[o] \in Leased /\ \E a : Leaves(o, a)
      BY <2>9 DEF Denied, Fails, Abandoned, Ends, Leased
    <3>2. UNCHANGED <<committed, timed, saved>>
      BY <2>9 DEF Denied, Fails, Abandoned, Ends, outcome
    <3> QED
      BY <2>7, <3>1, <3>2
  <2>10. CASE Queue(o)
    <3>1. step[o] \in Leased /\ Goes(o, "queued") /\ UNCHANGED <<committed, timed, saved>>
      BY <2>10 DEF Queue, Leased, outcome
    <3> QED
      BY <2>2, <2>8, <3>1 DEF Leased
  <2>11. CASE Work(o)
    <3>1. step[o] \in Leased /\ UNCHANGED <<committed, timed, saved>>
      BY <2>11 DEF Work, Leased, outcome
    <3>2. Goes(o, "working") \/ \E a : Leaves(o, a)
      BY <2>11 DEF Work
    <3> QED
      BY <2>2, <2>7, <2>8, <3>1, <3>2 DEF Leased
  <2>12. CASE Commit(o)
    <3>1. step[o] \in Leased /\ Goes(o, "saving") /\ UNCHANGED <<timed, saved>> /\ IsActive
      BY <2>12 DEF Commit, Accepted, Leased
    <3>2. o \in InFlight /\ UNCHANGED InFlight
      BY <2>8, <3>1 DEF Leased
    <3>3. committed' = committed \cup {o}
      BY <2>12 DEF Commit
    <3>4. <<o, "work">> \in Instance!Effects /\ <<o, "work">>[1] = o
      BY DEF Instance!Effects
    <3>5. (committed' \X {"work"}) \cup (timed' \X {"time"})
            = ((committed \X {"work"}) \cup (timed \X {"time"})) \cup {<<o, "work">>}
      BY <3>1, <3>3
    <3> QED
      BY <2>0, <3>1, <3>2, <3>4, <3>5 DEF Instance!InstanceNext, Instance!Accept
  <2>13. ASSUME InFile(o)
         PROVE  saved \subseteq saved' /\ saved' \subseteq saved \cup committed
    BY <2>13 DEF InFile
  <2>14. ASSUME o \in InFlight, UNCHANGED <<InFlight, committed, timed>>,
                saved \subseteq saved', saved' \subseteq saved \cup committed
         PROVE  Instance!InstanceNext
    <3>1. Instance!Stores
      BY <2>14, CommittedIsEffect DEF Instance!Stores
    <3> QED
      BY <2>0, <2>14, <3>1 DEF Instance!InstanceNext, Instance!Store
  <2>15. CASE Saved(o)
    <3>1. step[o] \in Leased /\ UNCHANGED <<committed, timed>> /\ InFile(o)
      BY <2>15 DEF Saved, Leased
    <3>2. Goes(o, "effects") \/ \E a : Leaves(o, a)
      BY <2>15 DEF Saved
    <3> QED
      BY <2>7, <2>8, <2>13, <2>14, <3>1, <3>2 DEF Leased
  <2>16. CASE NotSaved(o)
    <3>1. step[o] \in Leased /\ UNCHANGED <<committed, timed, saved>>
      BY <2>16 DEF NotSaved, Leased, outcome
    <3>2. Goes(o, "effects") \/ \E a : Leaves(o, a)
      BY <2>16 DEF NotSaved
    <3> QED
      BY <2>2, <2>7, <2>8, <3>1, <3>2 DEF Leased
  <2>17. CASE After(o)
    <3>1. step[o] \notin Leased /\ UNCHANGED <<committed, timed, saved>>
      BY <2>17 DEF After, Leased, outcome
    <3>2. CASE Goes(o, "timing") /\ IsActive
      <4>1. o \notin InFlight /\ InFlight' = InFlight \cup {o}
        BY <1>0, <2>0, <3>1, <3>2, OneBegins DEF Leased
      <4> QED
        BY <2>3, <3>1, <3>2, <4>1
    <3>3. CASE Goes(o, "dropped")
      <4>1. UNCHANGED InFlight
        BY <1>0, <2>0, <3>1, <3>3, OneStaysOut DEF Leased
      <4> QED
        BY <2>2, <3>1, <4>1
    <3> QED
      BY <2>17, <3>2, <3>3 DEF After, IsEnabled
  <2>18. CASE Attach(o)
    <3>1. step[o] \in Leased /\ UNCHANGED <<committed, saved>>
      BY <2>18 DEF Attach, Leased
    <3>2. CASE Goes(o, "attaching") /\ timed' = timed \cup {o} /\ IsActive
      <4>1. o \in InFlight /\ UNCHANGED InFlight
        BY <2>8, <3>1, <3>2 DEF Leased
      <4>2. <<o, "time">> \in Instance!Effects /\ <<o, "time">>[1] = o
        BY DEF Instance!Effects
      <4>3. (committed' \X {"work"}) \cup (timed' \X {"time"})
              = ((committed \X {"work"}) \cup (timed \X {"time"})) \cup {<<o, "time">>}
        BY <3>1, <3>2
      <4> QED
        BY <2>0, <3>1, <3>2, <4>1, <4>2, <4>3 DEF Instance!InstanceNext, Instance!Accept
    <3>3. CASE (Goes(o, "dropped") \/ Goes(o, "over")) /\ UNCHANGED timed
      <4>1. o \in InFlight /\ InFlight' = InFlight \ {o}
        BY <1>0, <2>0, <3>1, <3>3, OneEnds
      <4> QED
        BY <2>4, <3>1, <3>3, <4>1
    <3> QED
      BY <2>18, <3>2, <3>3 DEF Attach
  <2>19. CASE Attached(o)
    <3>1. step[o] \in Leased /\ Goes(o, "over") /\ UNCHANGED <<committed, timed>>
      BY <2>19 DEF Attached, Leased
    <3>2. saved \subseteq saved' /\ saved' \subseteq saved \cup committed
      BY <2>13, <2>19 DEF Attached
    <3>3. o \in InFlight /\ InFlight' = InFlight \ {o}
      BY <1>0, <2>0, <3>1, OneEnds
    <3> QED
      BY <2>4, <3>1, <3>2, <3>3
  <2>20. CASE Unattached(o)
    <3>1. step[o] \in Leased /\ Goes(o, "dropped") /\ UNCHANGED <<committed, timed, saved>>
      BY <2>20 DEF Unattached, Leased, outcome
    <3>2. o \in InFlight /\ InFlight' = InFlight \ {o}
      BY <1>0, <2>0, <3>1, OneEnds
    <3> QED
      BY <2>4, <3>1, <3>2
  <2> QED
    BY <1>5, <2>5, <2>6, <2>9, <2>10, <2>11, <2>12, <2>15, <2>16, <2>17, <2>18, <2>19, <2>20
       DEF Proceeds
<1>6. CASE UNCHANGED vars
  BY <1>6, SameOperations DEF vars, lifecycle, proxy, outcome, IsActive
<1> QED
  BY <1>1, <1>2, <1>3, <1>4, <1>5, <1>6 DEF Next, Monitoring

\* Every behaviour of the setup, whatever its host does and whatever fails, is
\* one of PluginInstance: nothing is taken up or accepted after disposal has
\* begun, and no registration goes while work is in hand (the safety part of
\* ImplementsInstance).
THEOREM SetupImplementsInstance == Spec => Instance!InstanceSafety
<1>1. Init => Instance!InstanceInit
  BY InitRefines
<1>2. IInv /\ [Next]_vars => [Instance!InstanceNext]_(Instance!instance)
  BY StepRefines
<1> QED
  BY <1>1, <1>2, InstanceInductive, PTL DEF Spec, Safety, Instance!InstanceSafety

-----------------------------------------------------------------------------
(* Recursion and orders.                                                   *)

\* A set of naturals has a least element.
LEMMA NatMin ==
  ASSUME NEW S, S \subseteq Nat, S # {}
  PROVE  \E x \in S : \A y \in S : x <= y
<1> DEFINE R == {ss \in Nat \X Nat : ss[1] < ss[2]}
<1>1. OpToRel(<, Nat) = R
  BY DEF OpToRel
<1>2. IsWellFoundedOn(R, Nat)
  BY <1>1, NatLessThanWellFounded, Zenon
<1> HIDE DEF R
<1>3. PICK x \in S : \A y \in S : ~ (<<y, x>> \in R)
  BY <1>2, WFMin, Zenon
<1>4. ASSUME NEW y \in S
      PROVE  x <= y
  <2>1. x \in Nat /\ y \in Nat
    OBVIOUS
  <2>2. <<y, x>> \in Nat \X Nat /\ <<y, x>>[1] = y /\ <<y, x>>[2] = x
    BY <2>1
  <2>3. ~ (y < x)
    BY <1>3, <2>2 DEF R
  <2> QED
    BY <2>1, <2>3
<1> QED
  BY <1>4

\* A set of numbers up to n that holds 0, and each number behind one it holds, has all.
LEMMA NatSteps ==
  ASSUME NEW n \in Nat, NEW P, 0 \in P, \A k \in 1 .. n : k - 1 \in P => k \in P
  PROVE  \A k \in 0 .. n : k \in P
<1> DEFINE Left == {k \in 0 .. n : k \notin P}
<1>1. ASSUME Left # {}
      PROVE  FALSE
  <2>1. Left \subseteq Nat
    OBVIOUS
  <2>2. PICK k \in Left : \A j \in Left : k <= j
    <3> HIDE DEF Left
    <3> QED
      BY <1>1, <2>1, NatMin
  <2>3. k \in 1 .. n /\ k \notin P
    OBVIOUS
  <2>4. k - 1 \in 0 .. n /\ ~(k <= k - 1)
    BY <2>3
  <2>5. k - 1 \in P
    BY <2>2, <2>4
  <2> QED
    BY <2>3, <2>5
<1> QED
  BY <1>1

\* f is the recursive function from start that takes step n from n - 1 to n.
Runs(f, n, A, start, stepOf) ==
  f \in [0 .. n -> A] /\ f[0] = start /\ \A k \in 1 .. n : f[k] = stepOf[k][f[k - 1]]

\* A recursive function over 0 .. n whose steps stay in a set exists, and stays there.
LEMMA Recursion ==
  ASSUME NEW n \in Nat, NEW A, NEW start \in A, NEW stepOf \in [1 .. n -> [A -> A]]
  PROVE  \E f : Runs(f, n, A, start, stepOf)
<1> DEFINE Found == {m \in 0 .. n : \E f : Runs(f, m, A, start, stepOf)}
<1>1. 0 \in Found
  <2> DEFINE g == [i \in 0 .. 0 |-> start]
  <2>1. g \in [0 .. 0 -> A] /\ g[0] = start /\ 1 .. 0 = {}
    OBVIOUS
  <2>2. Runs(g, 0, A, start, stepOf)
    <3> HIDE DEF g
    <3> QED
      BY <2>1, Zenon DEF Runs
  <2>3. 0 \in 0 .. n
    OBVIOUS
  <2> HIDE DEF g
  <2> QED
    BY <2>2, <2>3
<1>2. ASSUME NEW m \in 1 .. n, m - 1 \in Found
      PROVE  m \in Found
  <2>1. PICK f : Runs(f, m - 1, A, start, stepOf)
    BY <1>2
  <2>0. /\ f \in [0 .. m - 1 -> A] /\ f[0] = start
        /\ \A k \in 1 .. m - 1 : f[k] = stepOf[k][f[k - 1]]
    BY <2>1 DEF Runs
  <2> DEFINE g == [i \in 0 .. m |-> IF i = m THEN stepOf[m][f[m - 1]] ELSE f[i]]
  <2>2. f[m - 1] \in A /\ stepOf[m] \in [A -> A]
    BY <2>0
  <2>3. \A i \in 0 .. m : i # m => i \in 0 .. m - 1 /\ f[i] \in A
    BY <2>0
  <2>4. g \in [0 .. m -> A] /\ g[0] = start
    BY <2>0, <2>2, <2>3
  <2>5. ASSUME NEW k \in 1 .. m
        PROVE  g[k] = stepOf[k][g[k - 1]]
    <3>1. k - 1 \in 0 .. m /\ k - 1 # m /\ g[k - 1] = f[k - 1]
      OBVIOUS
    <3>2. CASE k = m
      BY <3>1, <3>2
    <3>3. CASE k # m
      <4>1. k \in 1 .. m - 1 /\ g[k] = f[k]
        BY <3>3
      <4> QED
        BY <2>0, <3>1, <4>1
    <3> QED
      BY <3>2, <3>3
  <2>6. Runs(g, m, A, start, stepOf)
    <3>1. \A k \in 1 .. m : g[k] = stepOf[k][g[k - 1]]
      <4> HIDE DEF g
      <4> QED
        BY <2>5, Zenon
    <3> HIDE DEF g
    <3> QED
      BY <2>4, <3>1, Zenon DEF Runs
  <2>7. m \in 0 .. n
    OBVIOUS
  <2> HIDE DEF g
  <2> QED
    BY <2>6, <2>7
<1>3. n \in Found
  <2> HIDE DEF Found
  <2>1. \A k \in 0 .. n : k \in Found
    BY <1>1, <1>2, NatSteps
  <2> QED
    BY <2>1
<1> QED
  BY <1>3

-----------------------------------------------------------------------------
(* Subsequences.                                                           *)

\* A bounded set of numbers has a greatest element, and is finite.
LEMMA NatMax ==
  ASSUME NEW n \in Nat, NEW S, S \subseteq 0 .. n, S # {}
  PROVE  \E x \in S : \A y \in S : y <= x
<1> DEFINE D == {n - x : x \in S}
<1>0. \A x \in S : x \in 0 .. n
  OBVIOUS
<1>1. D \subseteq Nat /\ D # {}
  <2>1. \A x \in S : n - x \in Nat
    BY <1>0
  <2> QED
    BY <2>1
<1>2. PICK d \in D : \A e \in D : d <= e
  <2> HIDE DEF D
  <2> QED
    BY <1>1, NatMin
<1>3. PICK x \in S : d = n - x
  OBVIOUS
<1>4. ASSUME NEW y \in S
      PROVE  y <= x
  <2>1. n - y \in D
    OBVIOUS
  <2>2. n - x <= n - y
    BY <1>2, <1>3, <2>1
  <2> QED
    BY <1>0, <2>2
<1> QED
  BY <1>4

\* q has the numbers of S in order.
Ascends(q, S) ==
  /\ q \in Seq(S)
  /\ \A i \in S : \E n \in 1 .. Len(q) : q[n] = i
  /\ \A n, m \in 1 .. Len(q) : n < m => q[n] < q[m]

LEMMA InOrderAscends ==
  ASSUME NEW n \in Nat, NEW S, S \subseteq 0 .. n
  PROVE  Ascends(InOrder(S), S) /\ Len(InOrder(S)) = Cardinality(S)
<1> DEFINE c == Cardinality(S)
           below(i) == {k \in S : k < i}
           rank == [i \in S |-> Cardinality(below(i)) + 1]
<1>0. IsFiniteSet(S) /\ \A i \in S : i \in Int
  <2>1. IsFiniteSet(0 .. n)
    BY FS_Interval
  <2>2. S \in SUBSET (0 .. n)
    OBVIOUS
  <2>3. \A i \in S : i \in 0 .. n
    OBVIOUS
  <2>4. \A i \in 0 .. n : i \in Int
    OBVIOUS
  <2> QED
    BY <2>1, <2>2, <2>3, <2>4, FS_Subset
<1>1. c \in Nat
  BY <1>0, FS_CardinalityType
<1>2. ASSUME NEW i \in S
      PROVE  /\ IsFiniteSet(below(i)) /\ Cardinality(below(i)) \in Nat
             /\ Cardinality(below(i)) < c
  <2>1. below(i) \subseteq S /\ i \in S /\ i \notin below(i)
    BY <1>0
  <2>2. below(i) # S
    BY <2>1
  <2> HIDE DEF below
  <2> QED
    BY <1>0, <2>1, <2>2, FS_Subset, FS_CardinalityType
<1>3. rank \in [S -> 1 .. c]
  BY <1>1, <1>2
<1>4. ASSUME NEW i \in S, NEW k \in S, i < k
      PROVE  rank[i] < rank[k]
  <2>1. below(i) \subseteq below(k) /\ i \in below(k) /\ i \notin below(i)
    <3>1. \A j \in S : j < i => j < k
      BY <1>0, <1>4
    <3>2. ~(i < i)
      BY <1>0
    <3> QED
      BY <1>4, <3>1, <3>2
  <2>2. below(i) # below(k)
    BY <2>1
  <2>3. Cardinality(below(i)) < Cardinality(below(k))
    <3> HIDE DEF below
    <3> QED
      BY <1>2, <2>1, <2>2, FS_Subset
  <2> HIDE DEF below
  <2> QED
    BY <1>2, <2>3
<1>5. rank \in Injection(S, 1 .. c)
  <2>1. ASSUME NEW i \in S, NEW k \in S, i # k
        PROVE  rank[i] # rank[k]
    <3>1. rank[i] \in Int /\ rank[k] \in Int /\ i \in Int /\ k \in Int
      BY <1>0, <1>3
    <3>2. i < k \/ k < i
      BY <2>1, <3>1
    <3> HIDE DEF rank
    <3> QED
      BY <1>4, <3>1, <3>2
  <2> HIDE DEF rank, c
  <2> QED
    BY <1>3, <2>1, Fun_IsInj
<1>6. rank \in Surjection(S, 1 .. c)
  <2>1. IsFiniteSet(1 .. c) /\ Cardinality(1 .. c) = c
    BY <1>1, FS_Interval
  <2> HIDE DEF rank
  <2> QED
    BY <1>0, <1>5, <2>1, FS_Surjection, FS_Injection
<1> DEFINE q == InOrder(S)
<1>7. ASSUME NEW t \in 1 .. c
      PROVE  q[t] \in S /\ rank[q[t]] = t
  <2>1. PICK i \in S : rank[i] = t
    <3> HIDE DEF rank, c
    <3>1. \A u \in 1 .. c : \E i \in S : rank[i] = u
      BY <1>6 DEF Surjection
    <3> QED
      BY <3>1
  <2>2. Cardinality({k \in S : k < i}) = t - 1
    BY <1>2, <2>1
  <2> DEFINE j == CHOOSE j \in S : Cardinality({k \in S : k < j}) = t - 1
  <2>3. j \in S /\ Cardinality({k \in S : k < j}) = t - 1
    BY <2>2, Zenon
  <2>4. q[t] = j
    BY DEF InOrder
  <2> QED
    BY <2>3, <2>4
<1>8. q \in Seq(S) /\ Len(q) = c
  <2>1. q = [t \in 1 .. c |-> q[t]]
    BY DEF InOrder
  <2> HIDE DEF q, rank, c
  <2>2. q \in [1 .. c -> S]
    BY <1>7, <2>1
  <2> QED
    BY <1>1, <2>2
<1> HIDE DEF q
<1>9. ASSUME NEW i \in S
      PROVE  \E t \in 1 .. c : q[t] = i
  <2>1. rank[i] \in 1 .. c
    BY <1>3
  <2>2. q[rank[i]] \in S /\ rank[q[rank[i]]] = rank[i]
    BY <1>7, <2>1
  <2>3. q[rank[i]] = i
    <3> HIDE DEF rank
    <3> QED
      BY <1>5, <2>2, Fun_InjectionProperties
  <2> QED
    BY <2>1, <2>3
<1>10. ASSUME NEW t \in 1 .. c, NEW u \in 1 .. c, t < u
       PROVE  q[t] < q[u]
  <2>1. q[t] \in S /\ q[u] \in S /\ rank[q[t]] = t /\ rank[q[u]] = u
    BY <1>7
  <2>2. q[t] \in Int /\ q[u] \in Int
    BY <1>0, <2>1
  <2>3. ~(q[u] < q[t]) /\ q[t] # q[u]
    <3>1. q[u] < q[t] => u < t
      <4> HIDE DEF rank
      <4> QED
        BY <1>4, <2>1
    <3>2. q[t] = q[u] => t = u
      <4> HIDE DEF rank
      <4> QED
        BY <2>1
    <3> QED
      BY <1>1, <1>10, <3>1, <3>2
  <2> QED
    BY <2>2, <2>3
<1> QED
  <2> HIDE DEF rank, c
  <2>1. \A t, u \in 1 .. c : t < u => q[t] < q[u]
    BY <1>10
  <2>2. \A i \in S : \E t \in 1 .. c : q[t] = i
    BY <1>9
  <2>3. Ascends(q, S)
    BY <1>8, <2>1, <2>2 DEF Ascends
  <2> QED
    BY <1>8, <2>3 DEF q, c

\* sub has the elements of seq at the places f gives, which are those of S in order.
Picks(sub, seq, S, f) ==
  /\ Ascends(f, S) /\ Len(sub) = Len(f)
  /\ \A n \in 1 .. Len(f) : sub[n] = seq[f[n]]

LEMMA AtPicks ==
  ASSUME NEW X, NEW seq \in Seq(X), NEW S, S \subseteq 1 .. Len(seq)
  PROVE  At(seq, S) \in Seq(X) /\ Picks(At(seq, S), seq, S, InOrder(S))
<1> DEFINE f == InOrder(S)
           c == Cardinality(S)
           a == At(seq, S)
<1>1. Len(seq) \in Nat /\ S \subseteq 0 .. Len(seq)
  OBVIOUS
<1>2. Ascends(f, S) /\ Len(f) = c
  BY <1>1, InOrderAscends
<1>3. a = [n \in 1 .. c |-> seq[f[n]]]
  BY DEF At
<1> HIDE DEF f, c, a
<1>4. f \in Seq(S) /\ c \in Nat
  BY <1>2 DEF Ascends
<1>5. \A n \in 1 .. c : f[n] \in S /\ seq[f[n]] \in X
  <2>1. \A i \in S : i \in 1 .. Len(seq) /\ seq[i] \in X
    OBVIOUS
  <2>2. \A n \in 1 .. c : f[n] \in S
    BY <1>2, <1>4
  <2> QED
    BY <2>1, <2>2
<1>6. a \in Seq(X) /\ Len(a) = c /\ \A n \in 1 .. c : a[n] = seq[f[n]]
  BY <1>3, <1>4, <1>5
<1>7. Picks(a, seq, S, f)
  BY <1>2, <1>6 DEF Picks
<1> QED
  BY <1>6, <1>7 DEF a, f

-----------------------------------------------------------------------------
(* Flattened sequences.                                                    *)

\* flat has the elements of the first n sequences of ss, at tells each one's place in ss.
LaidTo(flat, ss, n, at) ==
  /\ Len(at) = Len(flat) /\ at \in Seq(Nat \X Nat)
  /\ \A i \in 1 .. Len(flat) :
       /\ at[i][1] \in 1 .. n /\ at[i][2] \in 1 .. Len(ss[at[i][1]])
       /\ flat[i] = ss[at[i][1]][at[i][2]]
  /\ \A k \in 1 .. n : \A c \in 1 .. Len(ss[k]) : \E i \in 1 .. Len(flat) : at[i] = <<k, c>>
  /\ \A i, j \in 1 .. Len(flat) : i < j => Earlier(at[i], at[j])

LEMMA LaidMore ==
  ASSUME NEW X, NEW ss \in Seq(Seq(X)), NEW n \in 1 .. Len(ss),
         NEW flat \in Seq(X), NEW at, LaidTo(flat, ss, n - 1, at)
  PROVE  flat \o ss[n] \in Seq(X) /\ \E b : LaidTo(flat \o ss[n], ss, n, b)
<1> DEFINE s == ss[n]
           l == Len(flat)
           more == flat \o s
           b == [i \in 1 .. l + Len(s) |-> IF i <= l THEN at[i] ELSE <<n, i - l>>]
<1>1. s \in Seq(X) /\ l \in Nat /\ Len(s) \in Nat /\ n \in Nat
  OBVIOUS
<1>2. /\ Len(at) = l /\ at \in Seq(Nat \X Nat)
      /\ \A i \in 1 .. l : /\ at[i][1] \in 1 .. n - 1 /\ at[i][2] \in 1 .. Len(ss[at[i][1]])
                           /\ flat[i] = ss[at[i][1]][at[i][2]]
      /\ \A k \in 1 .. n - 1 : \A c \in 1 .. Len(ss[k]) : \E i \in 1 .. l : at[i] = <<k, c>>
      /\ \A i, j \in 1 .. l : i < j => Earlier(at[i], at[j])
  BY DEF LaidTo
<1>3. /\ more \in Seq(X) /\ Len(more) = l + Len(s)
      /\ \A i \in 1 .. l : more[i] = flat[i]
      /\ \A i \in l + 1 .. l + Len(s) : more[i] = s[i - l]
  <2> HIDE DEF s
  <2> QED
    BY <1>1
<1>4. /\ \A i \in 1 .. l + Len(s) : i <= l => b[i] = at[i] /\ i \in 1 .. l
      /\ \A i \in 1 .. l + Len(s) : ~(i <= l) => b[i] = <<n, i - l>> /\ i - l \in 1 .. Len(s)
  <2> HIDE DEF s
  <2> QED
    BY <1>1
<1>5. b \in Seq(Nat \X Nat) /\ Len(b) = l + Len(s)
  <2>1. \A i \in 1 .. l + Len(s) : b[i] \in Nat \X Nat
    <3> HIDE DEF s, b, l
    <3>1. \A i \in 1 .. l : at[i] \in Nat \X Nat
      BY <1>2
    <3>2. ASSUME NEW i \in 1 .. l + Len(s)
          PROVE  b[i] \in Nat \X Nat
      <4>1. CASE i <= l
        <5>1. b[i] = at[i] /\ i \in 1 .. l
          BY <1>4, <4>1
        <5> QED
          BY <3>1, <5>1
      <4>2. CASE ~(i <= l)
        <5>1. b[i] = <<n, i - l>> /\ i - l \in 1 .. Len(s)
          BY <1>4, <4>2
        <5>2. i - l \in Nat
          BY <1>1, <5>1
        <5> QED
          BY <1>1, <5>1, <5>2
      <4> QED
        BY <4>1, <4>2
    <3> QED
      BY <3>2
  <2>2. b = [i \in 1 .. l + Len(s) |-> b[i]]
    OBVIOUS
  <2>3. l + Len(s) \in Nat
    BY <1>1
  <2> HIDE DEF b, s, l
  <2>4. b \in [1 .. l + Len(s) -> Nat \X Nat]
    BY <2>1, <2>2
  <2> DEFINE d == l + Len(s)
             Y == Nat \X Nat
  <2>5. d \in Nat /\ b \in [1 .. d -> Y]
    BY <2>3, <2>4
  <2> HIDE DEF d, Y
  <2>6. b \in Seq(Y) /\ Len(b) = d
    BY <2>5
  <2> QED
    BY <2>6 DEF d, Y
<1> HIDE DEF more, b, l
<1>6. ASSUME NEW i \in 1 .. l + Len(s)
      PROVE  /\ b[i][1] \in 1 .. n /\ b[i][2] \in 1 .. Len(ss[b[i][1]])
             /\ more[i] = ss[b[i][1]][b[i][2]]
  <2>1. CASE i <= l
    <3>1. b[i] = at[i] /\ i \in 1 .. l /\ more[i] = flat[i]
      BY <1>3, <1>4, <2>1
    <3>2. at[i][1] \in 1 .. n
      BY <1>2, <3>1, SMTT(20)
    <3> QED
      BY <1>2, <3>1, <3>2
  <2>2. CASE ~(i <= l)
    <3>1. b[i][1] = n /\ b[i][2] = i - l /\ i - l \in 1 .. Len(s)
      BY <1>4, <2>2
    <3>2. i \in l + 1 .. l + Len(s)
      BY <1>1, <2>2
    <3>3. more[i] = s[i - l]
      BY <1>3, <3>2
    <3> QED
      BY <1>1, <3>1, <3>3
  <2> QED
    BY <2>1, <2>2
<1>7. ASSUME NEW k \in 1 .. n, NEW c \in 1 .. Len(ss[k])
      PROVE  \E i \in 1 .. l + Len(s) : b[i] = <<k, c>>
  <2>1. CASE k = n
    <3>0. c \in 1 .. Len(s)
      BY <2>1
    <3>1. l + c \in 1 .. l + Len(s) /\ ~(l + c <= l) /\ l + c - l = c
      <4> HIDE DEF s
      <4> QED
        BY <1>1, <3>0
    <3>2. b[l + c] = <<n, c>>
      <4> DEFINE x == l + c
      <4>1. x \in 1 .. l + Len(s) /\ ~(x <= l) /\ x - l = c
        <5> HIDE DEF s
        <5> QED
          BY <1>1, <3>0
      <4> HIDE DEF x, s
      <4>2. b[x] = <<n, x - l>>
        BY <1>4, <4>1
      <4> QED
        BY <4>1, <4>2 DEF x
    <3> QED
      BY <2>1, <3>1, <3>2
  <2>2. CASE k # n
    <3>1. k \in 1 .. n - 1
      BY <2>2
    <3>2. PICK i \in 1 .. l : at[i] = <<k, c>>
      BY <1>2, <3>1
    <3>3. i \in 1 .. l + Len(s) /\ i <= l
      BY <1>1
    <3> QED
      BY <1>4, <3>2, <3>3
  <2> QED
    BY <2>1, <2>2
<1>8. ASSUME NEW i \in 1 .. l + Len(s), NEW j \in 1 .. l + Len(s), i < j
      PROVE  Earlier(b[i], b[j])
  <2>1. CASE j <= l
    <3>1. i <= l
      BY <1>1, <1>8, <2>1
    <3> QED
      BY <1>2, <1>4, <1>8, <2>1, <3>1
  <2>2. CASE ~(j <= l) /\ i <= l
    <3>1. b[j][1] = n /\ b[i] = at[i] /\ i \in 1 .. l
      BY <1>4, <2>2
    <3>2. at[i][1] \in 1 .. n - 1
      BY <1>2, <3>1
    <3> QED
      BY <3>1, <3>2 DEF Earlier
  <2>3. CASE ~(j <= l) /\ ~(i <= l)
    <3>1. b[j] = <<n, j - l>> /\ b[i] = <<n, i - l>>
      BY <1>4, <2>3
    <3>2. i - l < j - l
      BY <1>1, <1>8
    <3> QED
      BY <3>1, <3>2 DEF Earlier
  <2> QED
    BY <2>1, <2>2, <2>3
<1>9. LaidTo(more, ss, n, b)
  <2> HIDE DEF s
  <2>1. Len(b) = Len(more) /\ b \in Seq(Nat \X Nat)
    BY <1>3, <1>5
  <2>2. /\ \A i \in 1 .. Len(more) : /\ b[i][1] \in 1 .. n /\ b[i][2] \in 1 .. Len(ss[b[i][1]])
                                     /\ more[i] = ss[b[i][1]][b[i][2]]
        /\ \A i, j \in 1 .. Len(more) : i < j => Earlier(b[i], b[j])
    BY <1>3, <1>6, <1>8
  <2>3. \A k \in 1 .. n : \A c \in 1 .. Len(ss[k]) : \E i \in 1 .. Len(more) : b[i] = <<k, c>>
    BY <1>3, <1>7
  <2> QED
    BY <2>1, <2>2, <2>3 DEF LaidTo
<1> QED
  BY <1>3, <1>9 DEF more

Laid(flat, ss, at) == LaidTo(flat, ss, Len(ss), at)

LEMMA FlattenLays ==
  ASSUME NEW X, NEW ss \in Seq(Seq(X))
  PROVE  FlattenSeq(ss) \in Seq(X) /\ \E at : Laid(FlattenSeq(ss), ss, at)
<1> DEFINE n == Len(ss)
           A == Seq(X)
<1>0. n \in Nat /\ \A k \in 1 .. n : ss[k] \in A
  OBVIOUS
<1>1. LaidTo(<<>>, ss, 0, <<>>) /\ <<>> \in A
  BY DEF LaidTo
<1>2. CASE n = 0
  <2>1. FlattenSeq(ss) = <<>>
    BY <1>2 DEF FlattenSeq
  <2> QED
    BY <1>1, <1>2, <2>1 DEF Laid
<1>3. CASE n # 0
  <2> DEFINE stepOf == [k \in 1 .. n |-> [a \in A |-> a \o ss[k]]]
             flatten == CHOOSE f : f = [i \in 1 .. n |-> IF i = 1 THEN ss[i] ELSE f[i - 1] \o ss[i]]
  <2>1. stepOf \in [1 .. n -> [A -> A]]
    <3>1. \A k \in 1 .. n : \A a \in A : a \o ss[k] \in A
      BY <1>0
    <3> HIDE DEF A, n
    <3> QED
      BY <3>1
  <2>2. PICK g : Runs(g, n, A, <<>>, stepOf)
    <3> HIDE DEF stepOf, A, n
    <3> QED
      BY <1>0, <1>1, <2>1, Recursion
  <2>3. g \in [0 .. n -> A] /\ g[0] = <<>> /\ \A k \in 1 .. n : g[k] = stepOf[k][g[k - 1]]
    <3> HIDE DEF stepOf, A, n
    <3> QED
      BY <2>2 DEF Runs
  <2>4. \A k \in 1 .. n : g[k] = g[k - 1] \o ss[k]
    <3>1. ASSUME NEW k \in 1 .. n
          PROVE  g[k] = g[k - 1] \o ss[k]
      <4> HIDE DEF A, n
      <4>1. g[k - 1] \in A
        BY <1>0, <2>3
      <4>2. stepOf[k] = [a \in A |-> a \o ss[k]]
        OBVIOUS
      <4> HIDE DEF stepOf
      <4>3. g[k] = stepOf[k][g[k - 1]]
        BY <2>3
      <4> QED
        BY <4>1, <4>2, <4>3
    <3> QED
      BY <3>1
  <2> DEFINE h == [i \in 1 .. n |-> g[i]]
  <2>5. h = [i \in 1 .. n |-> IF i = 1 THEN ss[i] ELSE h[i - 1] \o ss[i]]
    <3>1. ASSUME NEW i \in 1 .. n
          PROVE  h[i] = IF i = 1 THEN ss[i] ELSE h[i - 1] \o ss[i]
      <4>1. CASE i = 1
        <5>0. 1 - 1 = 0 /\ 1 \in 1 .. n
          BY <4>1
        <5>1. g[1] = <<>> \o ss[1] /\ ss[1] \in A
          <6> HIDE DEF A, n
          <6>1. g[1] = g[1 - 1] \o ss[1]
            BY <2>4, <5>0
          <6> QED
            BY <1>0, <2>3, <5>0, <6>1
        <5>2. <<>> \o ss[1] = ss[1]
          BY <5>1
        <5> QED
          BY <4>1, <5>1, <5>2
      <4>2. CASE i # 1
        <5>1. i - 1 \in 1 .. n /\ h[i - 1] = g[i - 1]
          BY <1>0, <4>2
        <5> QED
          BY <2>4, <4>2, <5>1
      <4> QED
        BY <4>1, <4>2
    <3> HIDE DEF n
    <3>2. h = [i \in 1 .. n |-> h[i]]
      OBVIOUS
    <3> HIDE DEF h
    <3> QED
      BY <3>1, <3>2
  <2> HIDE DEF h
  <2>6. flatten = [i \in 1 .. n |-> IF i = 1 THEN ss[i] ELSE flatten[i - 1] \o ss[i]]
    <3> HIDE DEF n
    <3> QED
      BY <2>5, Zenon
  <2>7. FlattenSeq(ss) = flatten[n]
    BY <1>3 DEF FlattenSeq
  <2> HIDE DEF flatten, stepOf
  <2> DEFINE P == {k \in 0 .. n : k = 0 \/ (flatten[k] \in A /\ \E at : LaidTo(flatten[k], ss, k, at))}
  <2>8. 0 \in P
    BY <1>0
  <2>9. ASSUME NEW k \in 1 .. n, k - 1 \in P
        PROVE  k \in P
    <3>1. CASE k = 1
      <4>1. flatten[1] = ss[1] /\ ss[1] \in A /\ <<>> \o ss[1] = ss[1]
        BY <1>0, <2>6, <3>1
      <4>2. LaidTo(<<>>, ss, 1 - 1, <<>>)
        BY <1>1
      <4>3. \E b : LaidTo(<<>> \o ss[1], ss, 1, b)
        <5> HIDE DEF n
        <5>1. 1 \in 1 .. n
          BY <3>1
        <5> QED
          BY <1>1, <4>2, <5>1, LaidMore DEF n
      <4> QED
        BY <3>1, <4>1, <4>3
    <3>2. CASE k # 1
      <4>1. flatten[k] = flatten[k - 1] \o ss[k] /\ k - 1 # 0 /\ k \in 0 .. n
        <5> HIDE DEF n
        <5>1. k - 1 # 0 /\ k \in 0 .. n
          BY <1>0, <3>2
        <5>2. flatten[k] = flatten[k - 1] \o ss[k]
          BY <2>6, <3>2
        <5> QED
          BY <5>1, <5>2
      <4>2. flatten[k - 1] \in A /\ \E at : LaidTo(flatten[k - 1], ss, k - 1, at)
        BY <2>9, <4>1
      <4>3. flatten[k - 1] \o ss[k] \in A /\ \E b : LaidTo(flatten[k - 1] \o ss[k], ss, k, b)
        BY <4>2, LaidMore
      <4> HIDE DEF A, n
      <4> QED
        BY <4>1, <4>3
    <3> QED
      BY <3>1, <3>2
  <2> HIDE DEF P
  <2>10. n \in P
    <3> HIDE DEF n
    <3>1. \A k \in 0 .. n : k \in P
      BY <1>0, <2>8, <2>9, NatSteps
    <3> QED
      BY <1>0, <3>1
  <2> QED
    BY <1>3, <2>7, <2>10 DEF P, Laid
<1> QED
  BY <1>2, <1>3

-----------------------------------------------------------------------------
(* Extremes, insertion, selection.                                         *)

LEMMA Extremes ==
  ASSUME NEW n \in Nat, NEW S, S \subseteq 0 .. n, S # {}
  PROVE  /\ Max(S) \in S /\ Min(S) \in S
         /\ \A x \in S : Min(S) <= x /\ x <= Max(S)
<1>0. \A x \in S : x \in Nat
  <2>1. \A x \in 0 .. n : x \in Nat
    OBVIOUS
  <2> QED
    BY <2>1
<1>1. PICK x \in S : \A y \in S : x <= y
  <2>1. S \subseteq Nat
    BY <1>0
  <2> QED
    BY <2>1, NatMin
<1>2. PICK z \in S : \A y \in S : y <= z
  BY NatMax
<1>3. Min(S) \in S /\ \A y \in S : Min(S) <= y
  BY <1>1, Zenon DEF Min
<1>4. Max(S) \in S /\ \A y \in S : Max(S) >= y
  <2>1. \A y \in S : z >= y
    BY <1>0, <1>2
  <2> QED
    BY <2>1, Zenon DEF Max
<1> QED
  BY <1>0, <1>3, <1>4

\* s is a sequence, of whatever.
Listed(s) == Len(s) \in Nat /\ s = [i \in 1 .. Len(s) |-> s[i]]

LEMMA ListedSeq ==
  ASSUME NEW s, Listed(s)
  PROVE  s \in Seq({s[i] : i \in 1 .. Len(s)})
<1> DEFINE n == Len(s)
           Y == {s[i] : i \in 1 .. n}
<1>1. n \in Nat /\ s = [i \in 1 .. n |-> s[i]]
  BY DEF Listed
<1>2. \A i \in 1 .. n : s[i] \in Y
  OBVIOUS
<1> HIDE DEF n, Y
<1>3. s \in [1 .. n -> Y]
  BY <1>1, <1>2
<1>4. s \in Seq(Y)
  BY <1>1, <1>3
<1> QED
  BY <1>4 DEF n, Y

LEMMA SeqListed ==
  ASSUME NEW X, NEW s \in Seq(X)
  PROVE  Listed(s)
BY DEF Listed

LEMMA Joined ==
  ASSUME NEW X, NEW a \in Seq(X), NEW b \in Seq(X)
  PROVE  /\ a \o b \in Seq(X) /\ Len(a \o b) = Len(a) + Len(b)
         /\ Len(a) \in Nat /\ Len(b) \in Nat
         /\ \A c \in 1 .. Len(a) : c \in 1 .. Len(a \o b) /\ (a \o b)[c] = a[c]
         /\ \A c \in 1 .. Len(b) : Len(a) + c \in 1 .. Len(a \o b) /\ (a \o b)[Len(a) + c] = b[c]
         /\ \A c \in 1 .. Len(a \o b) :
              \/ c \in 1 .. Len(a)
              \/ c - Len(a) \in 1 .. Len(b) /\ (a \o b)[c] = b[c - Len(a)]
<1>1. a \o b \in Seq(X) /\ Len(a \o b) = Len(a) + Len(b) /\ Len(a) \in Nat /\ Len(b) \in Nat
  OBVIOUS
<1>2. \A c \in 1 .. Len(a) + Len(b) : (a \o b)[c] = IF c <= Len(a) THEN a[c] ELSE b[c - Len(a)]
  OBVIOUS
<1> DEFINE l == Len(a)
           k == Len(b)
           t == a \o b
<1>3. l \in Nat /\ k \in Nat /\ Len(t) = l + k
  BY <1>1
<1>4. \A c \in 1 .. l + k : t[c] = IF c <= l THEN a[c] ELSE b[c - l]
  BY <1>2
<1> HIDE DEF l, k, t
<1>5. \A c \in 1 .. l : c \in 1 .. Len(t) /\ t[c] = a[c]
  BY <1>3, <1>4
<1>6. ASSUME NEW c \in 1 .. k
      PROVE  l + c \in 1 .. Len(t) /\ t[l + c] = b[c]
  <2> DEFINE x == l + c
  <2>1. x \in 1 .. l + k /\ ~(x <= l) /\ x - l = c
    BY <1>3
  <2> HIDE DEF x
  <2>2. t[x] = b[x - l]
    BY <1>4, <2>1
  <2> QED
    BY <1>3, <2>1, <2>2 DEF x
<1>7. \A c \in 1 .. Len(t) : c \in 1 .. l \/ (c - l \in 1 .. k /\ t[c] = b[c - l])
  BY <1>3, <1>4
<1> QED
  BY <1>1, <1>5, <1>6, <1>7 DEF l, k, t

LEMMA InsertedIs ==
  ASSUME NEW X, NEW s \in Seq(X), NEW x \in X, NEW i \in 1 .. Len(s) + 1
  PROVE  /\ InsertAt(s, i, x) \in Seq(X) /\ Len(InsertAt(s, i, x)) = Len(s) + 1
         /\ \A c \in 1 .. Len(s) + 1 :
              InsertAt(s, i, x)[c] = IF c < i THEN s[c] ELSE IF c = i THEN x ELSE s[c - 1]
<1> DEFINE n == Len(s)
           a == SubSeq(s, 1, i - 1)
           b == SubSeq(s, i, n)
           t == a \o <<x>> \o b
<1>1. n \in Nat /\ i \in Nat /\ i >= 1 /\ i <= n + 1
  OBVIOUS
<1>2. a \in Seq(X) /\ Len(a) = i - 1 /\ \A c \in 1 .. i - 1 : a[c] = s[c]
  BY <1>1
<1>3. b \in Seq(X) /\ Len(b) = n - i + 1 /\ \A c \in 1 .. n - i + 1 : b[c] = s[i + c - 1]
  BY <1>1
<1>4. t = InsertAt(s, i, x)
  BY DEF InsertAt
<1> HIDE DEF a, b, n, t
<1> DEFINE ax == a \o <<x>>
<1>5. ax \in Seq(X) /\ Len(ax) = i /\ (\A c \in 1 .. i - 1 : ax[c] = a[c]) /\ ax[i] = x
  BY <1>1, <1>2
<1>6. t = ax \o b
  BY DEF t
<1> HIDE DEF ax
<1>7. /\ t \in Seq(X) /\ Len(t) = n + 1
      /\ \A c \in 1 .. i : t[c] = ax[c]
      /\ \A c \in i + 1 .. n + 1 : t[c] = b[c - i]
  <2> DEFINE l == n - i + 1
  <2>1. l \in Nat /\ i + l = n + 1 /\ Len(b) = l
    BY <1>1, <1>3
  <2> HIDE DEF l
  <2>3. t \in Seq(X) /\ Len(t) = i + l /\ (\A c \in 1 .. i : t[c] = ax[c])
    <3>1. i \in Nat /\ ax \in Seq(X) /\ b \in Seq(X)
      BY <1>1, <1>3, <1>5
    <3>2. ax \o b \in Seq(X) /\ Len(ax \o b) = Len(ax) + Len(b)
      BY <3>1, Joined
    <3>3. \A c \in 1 .. Len(ax) : (ax \o b)[c] = ax[c]
      BY <3>1, Joined
    <3> QED
      BY <1>5, <1>6, <2>1, <3>2, <3>3
  <2>6. \A c \in 1 .. Len(ax \o b) :
          c \in 1 .. Len(ax) \/ (c - Len(ax) \in 1 .. Len(b) /\ (ax \o b)[c] = b[c - Len(ax)])
    <3>1. ax \in Seq(X) /\ b \in Seq(X)
      BY <1>3, <1>5
    <3> QED
      BY ONLY <3>1, Joined
  <2>4. \A c \in 1 .. Len(t) : c \in 1 .. i \/ t[c] = b[c - i]
    BY ONLY <1>5, <1>6, <2>6
  <2>5. Len(t) = n + 1
    BY <2>1, <2>3
  <2>2. \A c \in i + 1 .. n + 1 : c \in 1 .. Len(t) /\ c \notin 1 .. i
    BY <1>1, <2>1, <2>5
  <2> QED
    BY <2>2, <2>3, <2>4, <2>5
<1>8. ASSUME NEW c \in 1 .. n + 1
      PROVE  t[c] = IF c < i THEN s[c] ELSE IF c = i THEN x ELSE s[c - 1]
  <2>1. CASE c < i
    <3>1. c \in 1 .. i - 1 /\ c \in 1 .. i
      BY <1>1, <2>1
    <3> QED
      BY <1>2, <1>5, <1>7, <2>1, <3>1
  <2>2. CASE c = i
    <3>1. c \in 1 .. i
      BY <1>1, <2>2
    <3> QED
      BY <1>1, <1>5, <1>7, <2>2, <3>1
  <2>3. CASE ~(c < i) /\ c # i
    <3>1. c \in i + 1 .. n + 1 /\ c - i \in 1 .. n - i + 1 /\ i + (c - i) - 1 = c - 1
      BY <1>1, <2>3
    <3>2. t[c] = b[c - i] /\ b[c - i] = s[i + (c - i) - 1]
      BY <1>3, <1>7, <3>1
    <3> QED
      BY <2>3, <3>1, <3>2
  <2> QED
    BY <2>1, <2>2, <2>3
<1> QED
  BY <1>4, <1>7, <1>8 DEF n

\* The owner of a message is the first source that claims it.
LEMMA OwnerIs ==
  ASSUME NEW p, NEW m, Len(p.entries) \in Nat
  PROVE  /\ Owner(p, m) \in 0 .. Len(p.entries)
         /\ Owner(p, m) # 0 => m \in ToSet(p.entries[Owner(p, m)].out)
         /\ \A s \in 1 .. Len(p.entries) : m \in ToSet(p.entries[s].out) => Owner(p, m) # 0
<1> DEFINE n == Len(p.entries)
           hits == {s \in 1 .. n : m \in ToSet(p.entries[s].out)}
<1>1. Owner(p, m) = IF hits # {} THEN Min(hits) ELSE 0
  BY DEF Owner, SelectInSeq
<1>2. n \in Nat /\ hits \subseteq 0 .. n /\ hits \subseteq 1 .. n
  OBVIOUS
<1>3. hits # {} => Min(hits) \in hits
  <2> HIDE DEF hits, n
  <2> QED
    BY <1>2, Extremes
<1>4. \A s \in hits : s \in 1 .. n /\ m \in ToSet(p.entries[s].out)
  OBVIOUS
<1>5. \A s \in 1 .. n : m \in ToSet(p.entries[s].out) => s \in hits
  OBVIOUS
<1> HIDE DEF hits, n
<1>6. 0 \in 0 .. n /\ \A s \in 1 .. n : s \in 0 .. n /\ s # 0
  BY <1>2
<1>7. CASE hits = {}
  BY <1>1, <1>5, <1>6, <1>7 DEF n
<1>8. CASE hits # {}
  BY <1>1, <1>3, <1>4, <1>6, <1>8 DEF n
<1> QED
  BY <1>7, <1>8

-----------------------------------------------------------------------------
(* The parts of a replaced message.                                        *)

\* Strings; tlapm does not know that a literal is one.
Word == STRING \cup {"text", "reasoning", "attachment", "media", "tool-call", "tool-result", "call", "error",
                     "content", "user", "assistant", "system", "tool", "record", "host", "short",
                     "rewritten", "changed", "acp", "none"}
RequestPart == [type : Word, call : Nat \X Nat, val : Word, tag : BOOLEAN, form : Word,
                obj : Nat \X Nat, gen : Nat]
RequestMessage == [id : Nat, role : Word, parts : Seq(RequestPart), gen : Nat]

\* Every part of r is the object that was received at its place.
Placed(r) ==
  /\ r \in Seq(RequestMessage)
  /\ \A m \in 1 .. Len(r) : \A c \in 1 .. Len(r[m].parts) : r[m].parts[c].obj = <<m, c>>

\* Where part c of message m is once ACP's own is in.
Spot(p, r, v, m, c) == IF HasInsertion(p, r, v, m) /\ InsertedAt(p, m) <= c THEN c + 1 ELSE c
Fits(p, r, v, m, n) == HasInsertion(p, r, v, m) => InsertedAt(p, m) \in 1 .. n + 1

LEMMA RequestAt ==
  ASSUME NEW r, Placed(r), NEW m \in 1 .. Len(r)
  PROVE  /\ r[m] \in RequestMessage /\ r[m].parts \in Seq(RequestPart) /\ Len(r[m].parts) \in Nat
         /\ \A c \in 1 .. Len(r[m].parts) : /\ r[m].parts[c] \in RequestPart
                                            /\ r[m].parts[c].obj = <<m, c>>
<1>1. r[m] \in RequestMessage
  <2>1. r \in Seq(RequestMessage)
    BY DEF Placed
  <2> QED
    BY <2>1
<1>2. r[m].parts \in Seq(RequestPart)
  BY <1>1 DEF RequestMessage
<1> QED
  BY <1>1, <1>2 DEF Placed

\* What an edit leaves of a part: all but its value, its tag, and which copy it is.
EditOf(e, part, ptr) ==
  e.obj = ptr /\ e.type = part.type /\ e.call = part.call /\ (e = part \/ e.gen = 2)

LEMMA EditedIs ==
  ASSUME NEW p, NEW r, NEW v, Placed(r), NEW m \in 1 .. Len(r)
  PROVE  /\ Listed(Edited(p, r, v, m)) /\ Len(Edited(p, r, v, m)) = Len(r[m].parts)
         /\ \A c \in 1 .. Len(r[m].parts) : EditOf(Edited(p, r, v, m)[c], r[m].parts[c], <<m, c>>)
<1> DEFINE e == Edited(p, r, v, m)
           n == Len(r[m].parts)
<1>1. n \in Nat /\ \A c \in 1 .. n : r[m].parts[c] \in RequestPart /\ r[m].parts[c].obj = <<m, c>>
  BY RequestAt
<1>2. e = [c \in 1 .. n |-> e[c]] /\ Len(e) = n
  <2>1. e = [c \in 1 .. n |-> e[c]]
    BY DEF Edited
  <2> HIDE DEF e, n
  <2> QED
    BY <1>1, <2>1
<1>3. ASSUME NEW c \in 1 .. n
      PROVE  EditOf(e[c], r[m].parts[c], <<m, c>>)
  <2> DEFINE x == r[m].parts[c]
  <2>1. x \in RequestPart /\ x.obj = <<m, c>>
    BY <1>1
  <2>2. \/ e[c] = x
        \/ \E val, tag : e[c] = [x EXCEPT !.val = val, !.tag = tag, !.gen = 2]
        \/ \E val : e[c] = [x EXCEPT !.val = val, !.gen = 2]
    BY Zenon DEF Edited
  <2> HIDE DEF x, e
  <2>3. \A val, tag : LET y == [x EXCEPT !.val = val, !.tag = tag, !.gen = 2]
                      IN y.obj = x.obj /\ y.type = x.type /\ y.call = x.call /\ y.gen = 2
    BY <2>1 DEF RequestPart
  <2>4. \A val : LET y == [x EXCEPT !.val = val, !.gen = 2]
                 IN y.obj = x.obj /\ y.type = x.type /\ y.call = x.call /\ y.gen = 2
    BY <2>1 DEF RequestPart
  <2>5. e[c].obj = x.obj /\ e[c].type = x.type /\ e[c].call = x.call /\ (e[c] = x \/ e[c].gen = 2)
    <3> DEFINE y == e[c]
    <3>1. CASE y = x
      BY <3>1
    <3>2. CASE \E val, tag : y = [x EXCEPT !.val = val, !.tag = tag, !.gen = 2]
      <4>1. PICK val, tag : y = [x EXCEPT !.val = val, !.tag = tag, !.gen = 2]
        BY <3>2
      <4> HIDE DEF y
      <4>2. y.obj = x.obj /\ y.type = x.type /\ y.call = x.call /\ y.gen = 2
        BY <2>3, <4>1, Zenon
      <4> QED
        BY <4>2 DEF y
    <3>3. CASE \E val : y = [x EXCEPT !.val = val, !.gen = 2]
      <4>1. PICK val : y = [x EXCEPT !.val = val, !.gen = 2]
        BY <3>3
      <4> HIDE DEF y
      <4>2. y.obj = x.obj /\ y.type = x.type /\ y.call = x.call /\ y.gen = 2
        BY <2>4, <4>1, Zenon
      <4> QED
        BY <4>2 DEF y
    <3> QED
      BY <2>2, <3>1, <3>2, <3>3
  <2> QED
    BY <2>1, <2>5 DEF x, EditOf
<1>4. Listed(e)
  <2> HIDE DEF e, n
  <2> QED
    BY <1>1, <1>2 DEF Listed
<1> QED
  BY <1>2, <1>3, <1>4

\* The parts of message m that go with a source or a tool call the view removed.
Gone(p, v, m) == {ptr \in UNION {ToSet(o.ptrs) : o \in RemovedOrigins(p, v)} : ptr[1] = m}

\* Part c of message m stays.
Spared(p, r, v, m, c) ==
  LET e == Edited(p, r, v, m)[c]
  IN ~(e.gen = 0 /\ e.obj \in Gone(p, v, m)) /\ <<m, Spot(p, r, v, m, c)>> \notin Gone(p, v, m)

\* kept are the parts of message m that stay, in order, and ACP's own.
Keeping(kept, p, r, v, m) ==
  /\ Listed(kept)
  /\ \A k \in 1 .. Len(kept) :
       \/ kept[k] = Inserted
       \/ \E c \in 1 .. Len(r[m].parts) : kept[k] = Edited(p, r, v, m)[c] /\ Spared(p, r, v, m, c)
  /\ \A c \in 1 .. Len(r[m].parts) :
       Spared(p, r, v, m, c) => \E k \in 1 .. Len(kept) : kept[k] = Edited(p, r, v, m)[c]
  /\ \A k, l \in 1 .. Len(kept) :
       k < l /\ kept[k].obj # NoPtr /\ kept[l].obj # NoPtr => kept[k].obj[2] < kept[l].obj[2]

\* t has the parts of message m, edited, at their spots, and ACP's own at any other place.
Replacing(t, p, r, v, m) ==
  /\ Listed(t)
  /\ \A c \in 1 .. Len(r[m].parts) :
       Spot(p, r, v, m, c) \in 1 .. Len(t) /\ t[Spot(p, r, v, m, c)] = Edited(p, r, v, m)[c]
  /\ \A d \in 1 .. Len(t) :
       t[d] = Inserted \/ \E c \in 1 .. Len(r[m].parts) : d = Spot(p, r, v, m, c)

LEMMA ReplacedIs ==
  ASSUME NEW p, NEW r, NEW v, Placed(r), NEW m \in 1 .. Len(r),
         Fits(p, r, v, m, Len(r[m].parts))
  PROVE  Replacing(Replaced(p, r, v, m), p, r, v, m)
<1> DEFINE e == Edited(p, r, v, m)
           n == Len(r[m].parts)
           i == InsertedAt(p, m)
           t == Replaced(p, r, v, m)
<1>1. Listed(e) /\ Len(e) = n /\ n \in Nat
  <2>1. Listed(e) /\ Len(e) = n
    BY EditedIs
  <2>2. n \in Nat
    BY RequestAt
  <2> QED
    BY <2>1, <2>2
<1>2. CASE ~HasInsertion(p, r, v, m)
  <2>1. t = e /\ \A c \in 1 .. n : Spot(p, r, v, m, c) = c
    BY <1>2 DEF Replaced, Spot
  <2> HIDE DEF e, t, n
  <2>2. \A d \in 1 .. n : d = Spot(p, r, v, m, d)
    BY <2>1
  <2>3. Listed(t) /\ \A c \in 1 .. n : Spot(p, r, v, m, c) \in 1 .. Len(t) /\ t[Spot(p, r, v, m, c)] = e[c]
    BY <1>1, <2>1
  <2> QED
    BY <1>1, <2>1, <2>2, <2>3 DEF e, t, n, Replacing
<1>3. CASE HasInsertion(p, r, v, m)
  <2> DEFINE X == {e[c] : c \in 1 .. Len(e)} \cup {Inserted}
  <2>1. i \in 1 .. n + 1 /\ t = InsertAt(e, i, Inserted)
    BY <1>3 DEF Fits, Replaced
  <2>2. e \in Seq({e[c] : c \in 1 .. Len(e)})
    <3> HIDE DEF e
    <3> QED
      BY <1>1, ListedSeq
  <2>3. e \in Seq(X) /\ Inserted \in X
    <3> HIDE DEF e
    <3> QED
      BY <2>2
  <2>4. \A c \in 1 .. n : Spot(p, r, v, m, c) = IF i <= c THEN c + 1 ELSE c
    BY <1>3 DEF Spot
  <2> HIDE DEF e, t, n, i, X
  <2>5. i \in 1 .. Len(e) + 1
    BY <1>1, <2>1
  <2>6. /\ t \in Seq(X) /\ Len(t) = n + 1
        /\ \A c \in 1 .. n + 1 : t[c] = IF c < i THEN e[c] ELSE IF c = i THEN Inserted ELSE e[c - 1]
    <3>1. /\ InsertAt(e, i, Inserted) \in Seq(X) /\ Len(InsertAt(e, i, Inserted)) = Len(e) + 1
          /\ \A c \in 1 .. Len(e) + 1 : InsertAt(e, i, Inserted)[c] =
               IF c < i THEN e[c] ELSE IF c = i THEN Inserted ELSE e[c - 1]
      BY ONLY <2>3, <2>5, InsertedIs
    <3>2. Len(e) = n
      BY <1>1
    <3>3. t = InsertAt(e, i, Inserted)
      BY <2>1
    <3> QED
      BY ONLY <3>1, <3>2, <3>3
  <2>7. ASSUME NEW c \in 1 .. n
        PROVE  Spot(p, r, v, m, c) \in 1 .. Len(t) /\ t[Spot(p, r, v, m, c)] = e[c]
    <3>1. CASE i <= c
      <4>1. c + 1 \in 1 .. n + 1 /\ ~(c + 1 < i) /\ c + 1 # i /\ (c + 1) - 1 = c
        BY <1>1, <2>1, <3>1
      <4>2. t[c + 1] = e[(c + 1) - 1]
        BY <2>6, <4>1
      <4> QED
        BY <2>4, <2>6, <3>1, <4>1, <4>2
    <3>2. CASE ~(i <= c)
      <4>1. c \in 1 .. n + 1 /\ c < i
        BY <1>1, <2>1, <3>2
      <4> QED
        BY <2>4, <2>6, <3>2, <4>1
    <3> QED
      BY <3>1, <3>2
  <2>8. ASSUME NEW d \in 1 .. Len(t)
        PROVE  t[d] = Inserted \/ \E c \in 1 .. n : d = Spot(p, r, v, m, c)
    <3>0. d \in 1 .. n + 1
      BY <2>6
    <3>1. CASE d < i
      <4>1. d \in 1 .. n /\ ~(i <= d)
        BY <1>1, <2>1, <3>0, <3>1
      <4> QED
        BY <2>4, <4>1
    <3>2. CASE d = i
      BY <2>6, <3>0, <3>2
    <3>3. CASE d > i
      <4>1. d - 1 \in 1 .. n /\ i <= d - 1 /\ (d - 1) + 1 = d
        BY <1>1, <2>1, <3>0, <3>3
      <4> QED
        BY <2>4, <4>1
    <3> QED
      BY <1>1, <2>1, <3>0, <3>1, <3>2, <3>3
  <2>9. Listed(t)
    BY <2>6, SeqListed
  <2> QED
    BY <2>7, <2>8, <2>9 DEF e, t, n, Replacing
<1> QED
  BY <1>2, <1>3

LEMMA KeptIs ==
  ASSUME NEW p, NEW r, NEW v, Placed(r), NEW m \in 1 .. Len(r),
         Fits(p, r, v, m, Len(r[m].parts))
  PROVE  Keeping(KeptParts(p, r, v, m), p, r, v, m)
<1> DEFINE e == Edited(p, r, v, m)
           n == Len(r[m].parts)
           t == Replaced(p, r, v, m)
           gone == Gone(p, v, m)
           S == {c \in 1 .. Len(t) : ~(t[c].gen = 0 /\ t[c].obj \in gone) /\ <<m, c>> \notin gone}
           kept == KeptParts(p, r, v, m)
           f == InOrder(S)
           X == {t[c] : c \in 1 .. Len(t)}
           spot(c) == Spot(p, r, v, m, c)
<1>1. /\ Listed(t)
      /\ \A c \in 1 .. n : spot(c) \in 1 .. Len(t) /\ t[spot(c)] = e[c]
      /\ \A d \in 1 .. Len(t) : t[d] = Inserted \/ \E c \in 1 .. n : d = spot(c)
  <2>1. Replacing(Replaced(p, r, v, m), p, r, v, m)
    BY ReplacedIs
  <2> QED
    BY <2>1, Zenon DEF Replacing
<1>2. n \in Nat /\ \A c \in 1 .. n : e[c].obj = <<m, c>>
  <2>1. n \in Nat
    BY RequestAt
  <2>3. \A c \in 1 .. n : EditOf(e[c], r[m].parts[c], <<m, c>>)
    BY EditedIs
  <2>2. \A c \in 1 .. n : e[c].obj = <<m, c>>
    BY <2>3 DEF EditOf
  <2> QED
    BY <2>1, <2>2
<1>3. kept = At(t, S)
  BY Zenon DEF KeptParts, Gone
<1>4. t \in Seq(X) /\ S \subseteq 1 .. Len(t)
  <2>1. t \in Seq(X)
    <3> HIDE DEF t
    <3> QED
      BY <1>1, ListedSeq
  <2> QED
    BY <2>1
<1>5. \A c \in 1 .. n : Spared(p, r, v, m, c) <=> spot(c) \in S
  <2>1. \A c \in 1 .. n : Spared(p, r, v, m, c) <=> ~(e[c].gen = 0 /\ e[c].obj \in gone) /\ <<m, spot(c)>> \notin gone
    BY DEF Spared
  <2> HIDE DEF e, t, gone, spot, n
  <2> QED
    BY <1>1, <2>1
<1>8. \A c, d \in 1 .. n : spot(c) < spot(d) => c < d
  <2>1. CASE HasInsertion(p, r, v, m)
    <3>1. InsertedAt(p, m) \in Int
      BY <2>1 DEF Fits
    <3> DEFINE i == InsertedAt(p, m)
    <3>2. \A c \in 1 .. n : spot(c) = IF i <= c THEN c + 1 ELSE c
      BY <2>1 DEF Spot
    <3> HIDE DEF i, n, spot
    <3> QED
      BY <1>2, <3>1, <3>2 DEF i
  <2>2. CASE ~HasInsertion(p, r, v, m)
    BY <2>2 DEF Spot
  <2> QED
    BY <2>1, <2>2
<1> HIDE DEF t, S, kept, f, X, gone, e, n
<1>6. kept \in Seq(X) /\ Picks(kept, t, S, f)
  BY <1>3, <1>4, AtPicks DEF f
<1>7. /\ Len(kept) = Len(f) /\ Len(f) \in Nat
      /\ \A k \in 1 .. Len(kept) : f[k] \in S /\ kept[k] = t[f[k]]
      /\ \A i \in S : \E k \in 1 .. Len(kept) : f[k] = i
      /\ \A k, l \in 1 .. Len(kept) : k < l => f[k] < f[l]
  BY <1>6 DEF Picks, Ascends
<1>9. ASSUME NEW k \in 1 .. Len(kept)
      PROVE  \/ kept[k] = Inserted
             \/ \E c \in 1 .. n : kept[k] = e[c] /\ Spared(p, r, v, m, c) /\ f[k] = spot(c)
  <2>1. f[k] \in S /\ kept[k] = t[f[k]] /\ f[k] \in 1 .. Len(t)
    BY <1>4, <1>7
  <2>2. CASE t[f[k]] = Inserted
    BY <2>1, <2>2
  <2>3. CASE \E c \in 1 .. n : f[k] = spot(c)
    <3>1. PICK c \in 1 .. n : f[k] = spot(c)
      BY <2>3
    <3>2. t[spot(c)] = e[c] /\ Spared(p, r, v, m, c)
      BY <1>1, <1>5, <2>1, <3>1
    <3> QED
      BY <2>1, <3>1, <3>2
  <2> QED
    BY <1>1, <2>1, <2>2, <2>3
<1>10. ASSUME NEW c \in 1 .. n, Spared(p, r, v, m, c)
       PROVE  \E k \in 1 .. Len(kept) : kept[k] = e[c]
  <2>1. spot(c) \in S /\ t[spot(c)] = e[c]
    BY <1>1, <1>5, <1>10
  <2> HIDE DEF spot
  <2>2. PICK k \in 1 .. Len(kept) : f[k] = spot(c)
    BY <1>7, <2>1
  <2> QED
    BY <1>7, <2>1, <2>2
<1>11. ASSUME NEW k \in 1 .. Len(kept), NEW l \in 1 .. Len(kept), k < l,
              kept[k].obj # NoPtr, kept[l].obj # NoPtr
       PROVE  kept[k].obj[2] < kept[l].obj[2]
  <2>1. Inserted.obj = NoPtr
    BY DEF Inserted, Part
  <2>2. PICK c \in 1 .. n : kept[k] = e[c] /\ f[k] = spot(c)
    BY <1>9, <1>11, <2>1
  <2>3. PICK d \in 1 .. n : kept[l] = e[d] /\ f[l] = spot(d)
    BY <1>9, <1>11, <2>1
  <2> HIDE DEF spot
  <2>4. spot(c) < spot(d)
    BY <1>7, <1>11, <2>2, <2>3
  <2>5. c < d /\ e[c].obj = <<m, c>> /\ e[d].obj = <<m, d>>
    BY <1>2, <1>8, <2>4
  <2> QED
    BY <2>2, <2>3, <2>5
<1>12. Listed(kept)
  BY <1>6, SeqListed
<1> QED
  <2>1. \A k \in 1 .. Len(kept) : \/ kept[k] = Inserted
                                  \/ \E c \in 1 .. n : kept[k] = e[c] /\ Spared(p, r, v, m, c)
    BY <1>9
  <2>2. \A c \in 1 .. n : Spared(p, r, v, m, c) => \E k \in 1 .. Len(kept) : kept[k] = e[c]
    BY <1>10
  <2>3. \A k, l \in 1 .. Len(kept) :
          k < l /\ kept[k].obj # NoPtr /\ kept[l].obj # NoPtr => kept[k].obj[2] < kept[l].obj[2]
    BY <1>11
  <2> QED
    BY <1>12, <2>1, <2>2, <2>3 DEF Keeping, kept, e, n

-----------------------------------------------------------------------------
(* The assembled request.                                                  *)

RemovedOut(p, v) == UNION {ToSet(p.entries[s].out) : s \in RemovedSources(p, v)}
Lost(p, v, m) == \E o \in RemovedOrigins(p, v) : \E ptr \in ToSet(o.ptrs) : ptr[1] = m

\* Message m of the request goes on, and the message ACP puts in for view message k.
Remains(p, r, v, m) == m \notin RemovedOut(p, v) /\ ~(KeptParts(p, r, v, m) = <<>> /\ Lost(p, v, m))
HostPart(p, r, v, m) == [r[m] EXCEPT !.parts = KeptParts(p, r, v, m)]
OwnPart(v, k) == Message(v[k].id, "user", <<Inserted>>)
OwnBehind(p, r, v, m) == {k \in 1 .. Len(v) : ~IsSource(p, v[k]) /\ InsertionPoint(p, r, v, k) = m}

\* Message i of out comes from message w[i][1] of r, if w[i][2] is 0, else from view message
\* w[i][2], which goes behind w[i][1]; and all that remains of r is there, in order.
Assembly(out, p, r, v, w) ==
  /\ Listed(out) /\ w \in [1 .. Len(out) -> Nat \X Nat]
  /\ \A i \in 1 .. Len(out) :
       \/ /\ w[i][2] = 0 /\ w[i][1] \in 1 .. Len(r) /\ Remains(p, r, v, w[i][1])
          /\ out[i] = HostPart(p, r, v, w[i][1])
       \/ /\ w[i][2] \in OwnBehind(p, r, v, w[i][1]) /\ w[i][1] \in 0 .. Len(r)
          /\ out[i] = OwnPart(v, w[i][2])
  /\ \A m \in 1 .. Len(r) : Remains(p, r, v, m) => \E i \in 1 .. Len(out) : w[i] = <<m, 0>>
  /\ \A i, j \in 1 .. Len(out) : i < j => Earlier(w[i], w[j])

\* b has what stays of message m and the messages ACP puts behind it; u tells which is which.
Block(b, p, r, v, m, u) ==
  /\ Len(b) \in Nat /\ u \in [1 .. Len(b) -> Nat]
  /\ \A i \in 1 .. Len(b) :
       \/ u[i] = 0 /\ m \in 1 .. Len(r) /\ Remains(p, r, v, m) /\ b[i] = HostPart(p, r, v, m)
       \/ u[i] \in OwnBehind(p, r, v, m) /\ b[i] = OwnPart(v, u[i])
  /\ m \in 1 .. Len(r) /\ Remains(p, r, v, m) => \E i \in 1 .. Len(b) : u[i] = 0
  /\ \A i, j \in 1 .. Len(b) : i < j => u[i] < u[j]

Owned(p, r, v, m) ==
  LET own == InOrder(OwnBehind(p, r, v, m)) IN [k \in 1 .. Len(own) |-> OwnPart(v, own[k])]
Stays(p, r, v, m) == IF Remains(p, r, v, m) THEN <<HostPart(p, r, v, m)>> ELSE <<>>

LEMMA AssembledAs ==
  ASSUME NEW p, NEW r, NEW v
  PROVE  Assembled(p, r, v) =
           Owned(p, r, v, 0) \o FlattenSeq([m \in 1 .. Len(r) |-> Stays(p, r, v, m) \o Owned(p, r, v, m)])
<1>1. \A m : OwnBehind(p, r, v, m) = {k \in 1 .. Len(v) : ~IsSource(p, v[k]) /\ InsertionPoint(p, r, v, k) = m}
  BY DEF OwnBehind
<1>2. ASSUME NEW m
      PROVE  Stays(p, r, v, m) =
               IF m \in UNION {ToSet(p.entries[s].out) : s \in RemovedSources(p, v)}
                  \/ (/\ KeptParts(p, r, v, m) = <<>>
                      /\ \E o \in RemovedOrigins(p, v) : \E ptr \in ToSet(o.ptrs) : ptr[1] = m)
               THEN <<>> ELSE <<[r[m] EXCEPT !.parts = KeptParts(p, r, v, m)]>>
  BY Zenon DEF Stays, Remains, RemovedOut, Lost, HostPart
<1> QED
  BY <1>1, <1>2, ZenonT(30) DEF Assembled, Owned, OwnPart

Owning(own, p, r, v, m) ==
  /\ Ascends(own, OwnBehind(p, r, v, m)) /\ Len(own) \in Nat
  /\ Owned(p, r, v, m) = [k \in 1 .. Len(own) |-> OwnPart(v, own[k])]
  /\ Len(Owned(p, r, v, m)) = Len(own)
  /\ Owned(p, r, v, m) \in Seq({OwnPart(v, k) : k \in 1 .. Len(v)})
  /\ \A k \in 1 .. Len(own) : own[k] \in OwnBehind(p, r, v, m) /\ own[k] \in 1 .. Len(v)

LEMMA OwnedIs ==
  ASSUME NEW p, NEW r, NEW v, NEW m, Len(v) \in Nat
  PROVE  Owning(InOrder(OwnBehind(p, r, v, m)), p, r, v, m)
<1> DEFINE S == OwnBehind(p, r, v, m)
           own == InOrder(S)
           n == Len(v)
           X == {OwnPart(v, k) : k \in 1 .. n}
           x(k) == OwnPart(v, k)
           l == Len(own)
           t == Owned(p, r, v, m)
<1>1. S \subseteq 0 .. n /\ \A k \in S : k \in 1 .. n
  BY DEF OwnBehind
<1>2. t = [k \in 1 .. Len(own) |-> x(own[k])]
  BY DEF Owned
<1>3. \A k \in 1 .. n : x(k) \in X
  OBVIOUS
<1> HIDE DEF S, own, n, X, x, t
<1>4. Ascends(own, S)
  BY <1>1, InOrderAscends DEF own, n
<1>5. l \in Nat /\ \A k \in 1 .. l : own[k] \in S
  BY <1>4 DEF Ascends
<1> HIDE DEF l
<1>6. t \in [1 .. l -> X]
  BY <1>1, <1>2, <1>3, <1>5 DEF l
<1>7. t \in Seq(X) /\ Len(t) = l
  BY <1>5, <1>6
<1> QED
  BY <1>1, <1>2, <1>4, <1>5, <1>7 DEF S, own, n, X, x, t, l, Owning

LEMMA BlockIs ==
  ASSUME NEW p, NEW r, NEW v, NEW m, Len(v) \in Nat, Len(r) \in Nat
  PROVE  /\ m \in 1 .. Len(r) => \E u : Block(Stays(p, r, v, m) \o Owned(p, r, v, m), p, r, v, m, u)
         /\ m \notin 1 .. Len(r) => \E u : Block(Owned(p, r, v, m), p, r, v, m, u)
<1> DEFINE S == OwnBehind(p, r, v, m)
           own == InOrder(S)
           o == Owned(p, r, v, m)
           l == Len(own)
           host == HostPart(p, r, v, m)
<1>1. /\ Ascends(own, S) /\ l \in Nat /\ o = [k \in 1 .. l |-> OwnPart(v, own[k])] /\ Len(o) = l
      /\ o \in Seq({OwnPart(v, k) : k \in 1 .. Len(v)})
      /\ \A k \in 1 .. l : own[k] \in S /\ own[k] \in 1 .. Len(v)
  <2>1. Owning(InOrder(OwnBehind(p, r, v, m)), p, r, v, m)
    BY OwnedIs
  <2> QED
    BY <2>1, Zenon DEF Owning
<1> HIDE DEF S, own, o, l, host
<1>2. own \in [1 .. l -> Nat] /\ \A k \in 1 .. l : own[k] >= 1
  <2>1. own = [k \in 1 .. l |-> own[k]]
    BY <1>1 DEF Ascends, l
  <2>2. \A k \in 1 .. l : own[k] \in Nat /\ own[k] >= 1
    BY <1>1
  <2> QED
    BY <2>1, <2>2
<1>3. \A i, j \in 1 .. l : i < j => own[i] < own[j]
  BY <1>1 DEF Ascends, l
<1>4. ASSUME m \notin 1 .. Len(r) \/ ~Remains(p, r, v, m)
      PROVE  Block(o, p, r, v, m, own)
  BY <1>1, <1>2, <1>3, <1>4 DEF Block, S
<1>5. ASSUME m \in 1 .. Len(r), ~Remains(p, r, v, m)
      PROVE  Stays(p, r, v, m) \o o = o
  <2>1. Stays(p, r, v, m) = <<>>
    BY <1>5 DEF Stays
  <2> QED
    BY <1>1, <2>1
<1>6. ASSUME m \in 1 .. Len(r), Remains(p, r, v, m)
      PROVE  \E u : Block(Stays(p, r, v, m) \o o, p, r, v, m, u)
  <2> DEFINE b == <<host>> \o o
             X == {OwnPart(v, k) : k \in 1 .. Len(v)} \cup {host}
             u == [i \in 1 .. l + 1 |-> IF i = 1 THEN 0 ELSE own[i - 1]]
  <2>1. Stays(p, r, v, m) = <<host>>
    BY <1>6 DEF Stays, host
  <2>2. o \in Seq(X) /\ <<host>> \in Seq(X) /\ Len(<<host>>) = 1 /\ <<host>>[1] = host
    BY <1>1
  <2> HIDE DEF X
  <2>3. b \in Seq(X) /\ Len(b) = l + 1 /\ b[1] = host /\ \A i \in 2 .. l + 1 : b[i] = o[i - 1]
    BY <1>1, <2>2
  <2>4. \A i \in 2 .. l + 1 : i - 1 \in 1 .. l /\ u[i] = own[i - 1]
    BY <1>1
  <2>5. u[1] = 0 /\ 1 \in 1 .. l + 1 /\ \A i \in 1 .. l + 1 : i = 1 \/ i \in 2 .. l + 1
    BY <1>1
  <2>6. u = [i \in 1 .. l + 1 |-> u[i]]
    OBVIOUS
  <2> HIDE DEF u, b
  <2>7. u \in [1 .. l + 1 -> Nat]
    <3>1. \A i \in 1 .. l + 1 : u[i] \in Nat
      BY <1>2, <2>4, <2>5
    <3> QED
      BY <2>6, <3>1
  <2>8. ASSUME NEW i \in 1 .. l + 1
        PROVE  \/ u[i] = 0 /\ m \in 1 .. Len(r) /\ Remains(p, r, v, m) /\ b[i] = HostPart(p, r, v, m)
               \/ u[i] \in OwnBehind(p, r, v, m) /\ b[i] = OwnPart(v, u[i])
    <3>1. CASE i = 1
      BY <1>6, <2>3, <2>5, <3>1 DEF host
    <3>2. CASE i # 1
      <4>1. i \in 2 .. l + 1
        BY <2>5, <3>2
      <4>2. u[i] = own[i - 1] /\ b[i] = o[i - 1] /\ i - 1 \in 1 .. l
        BY <2>3, <2>4, <4>1
      <4>3. o[i - 1] = OwnPart(v, own[i - 1]) /\ own[i - 1] \in S
        BY <1>1, <4>2
      <4> QED
        BY <4>2, <4>3 DEF S
    <3> QED
      BY <3>1, <3>2
  <2>9. ASSUME NEW i \in 1 .. l + 1, NEW j \in 1 .. l + 1, i < j
        PROVE  u[i] < u[j]
    <3>1. j \in 2 .. l + 1 /\ u[j] = own[j - 1] /\ j - 1 \in 1 .. l
      BY <1>1, <2>4, <2>9
    <3>2. CASE i = 1
      <4>1. own[j - 1] \in Nat /\ own[j - 1] >= 1
        BY <1>2, <3>1
      <4> QED
        BY <2>5, <3>1, <3>2, <4>1
    <3>3. CASE i # 1
      <4>1. i \in 2 .. l + 1 /\ u[i] = own[i - 1] /\ i - 1 \in 1 .. l
        BY <2>4, <2>5, <3>3
      <4>2. i - 1 < j - 1
        BY <1>1, <2>9
      <4> QED
        BY <1>3, <3>1, <4>1, <4>2
    <3> QED
      BY <3>2, <3>3
  <2>10. Len(b) \in Nat /\ Len(b) = l + 1 /\ \E i \in 1 .. l + 1 : u[i] = 0
    BY <1>1, <2>3, <2>5
  <2>11. Block(b, p, r, v, m, u)
    BY <2>7, <2>8, <2>9, <2>10 DEF Block
  <2> QED
    BY <2>1, <2>11 DEF b
<1> QED
  BY <1>4, <1>5, <1>6 DEF o

LEMMA AssembledIs ==
  ASSUME NEW p, NEW r, NEW v, Len(v) \in Nat, Len(r) \in Nat
  PROVE  \E w : Assembly(Assembled(p, r, v), p, r, v, w)
<1> DEFINE n == Len(r)
           a == Owned(p, r, v, 0)
           ss == [m \in 1 .. n |-> Stays(p, r, v, m) \o Owned(p, r, v, m)]
           X == {HostPart(p, r, v, m) : m \in 1 .. n} \cup {OwnPart(v, k) : k \in 1 .. Len(v)}
           b == FlattenSeq(ss)
           t == a \o b
           block(m) == IF m = 0 THEN a ELSE ss[m]
<1>1. t = Assembled(p, r, v)
  BY AssembledAs
<1>2. a \in Seq(X)
  <2>1. a \in Seq({OwnPart(v, k) : k \in 1 .. Len(v)})
    BY OwnedIs DEF Owning
  <2> HIDE DEF a
  <2> QED
    BY <2>1
<1>3. ASSUME NEW m \in 1 .. n
      PROVE  ss[m] \in Seq(X)
  <2>1. Owned(p, r, v, m) \in Seq({OwnPart(v, k) : k \in 1 .. Len(v)})
    BY OwnedIs DEF Owning
  <2>2. Owned(p, r, v, m) \in Seq(X)
    BY <2>1
  <2>3. HostPart(p, r, v, m) \in X
    OBVIOUS
  <2> HIDE DEF X
  <2>4. Stays(p, r, v, m) \in Seq(X)
    BY <2>3 DEF Stays
  <2> QED
    BY <2>2, <2>4
<1>4. ss \in Seq(Seq(X)) /\ Len(ss) = n
  <2>1. ss = [m \in 1 .. n |-> ss[m]]
    OBVIOUS
  <2> HIDE DEF ss, n, X
  <2>2. n \in Nat
    BY DEF n
  <2> QED
    BY <1>3, <2>1, <2>2
<1>5. ASSUME NEW m \in 0 .. n
      PROVE  \E u : Block(block(m), p, r, v, m, u)
  <2>1. CASE m = 0
    <3>1. m \notin 1 .. Len(r)
      BY <2>1
    <3>2. \E u : Block(Owned(p, r, v, m), p, r, v, m, u)
      BY <3>1, BlockIs
    <3> QED
      BY <2>1, <3>2
  <2>2. CASE m # 0
    <3>1. m \in 1 .. Len(r)
      BY <2>2
    <3>2. \E u : Block(Stays(p, r, v, m) \o Owned(p, r, v, m), p, r, v, m, u)
      BY <3>1, BlockIs
    <3> QED
      BY <2>2, <3>1, <3>2
  <2> QED
    BY <2>1, <2>2
<1> HIDE DEF ss, X, b, a
<1>6. b \in Seq(X) /\ \E at : Laid(b, ss, at)
  BY <1>4, FlattenLays DEF b
<1>7. PICK at : LaidTo(b, ss, n, at)
  BY <1>4, <1>6 DEF Laid
<1> DEFINE us == [m \in 0 .. n |-> CHOOSE u : Block(block(m), p, r, v, m, u)]
<1>8. \A m \in 0 .. n : Block(block(m), p, r, v, m, us[m])
  <2>1. ASSUME NEW m \in 0 .. n
        PROVE  Block(block(m), p, r, v, m, us[m])
    <3>1. us[m] = CHOOSE u : Block(block(m), p, r, v, m, u)
      OBVIOUS
    <3> HIDE DEF block, us
    <3> QED
      BY <1>5, <3>1, Zenon
  <2> QED
    BY <2>1
<1> DEFINE l == Len(a)
           from(i) == IF i <= l THEN 0 ELSE at[i - l][1]
           nth(i) == IF i <= l THEN i ELSE at[i - l][2]
           w == [i \in 1 .. Len(t) |-> <<from(i), us[from(i)][nth(i)]>>]
<1>9. /\ t \in Seq(X) /\ Len(t) = l + Len(b) /\ l \in Nat /\ Len(b) \in Nat
      /\ \A i \in 1 .. l : i \in 1 .. Len(t) /\ t[i] = a[i]
      /\ \A i \in 1 .. Len(b) : l + i \in 1 .. Len(t) /\ t[l + i] = b[i]
      /\ \A i \in 1 .. Len(t) : i \in 1 .. l \/ (i - l \in 1 .. Len(b) /\ t[i] = b[i - l])
  BY <1>2, <1>6, Joined
<1>10. /\ \A i \in 1 .. Len(b) : /\ at[i][1] \in 1 .. n /\ at[i][2] \in 1 .. Len(ss[at[i][1]])
                                 /\ b[i] = ss[at[i][1]][at[i][2]]
       /\ \A k \in 1 .. n : \A c \in 1 .. Len(ss[k]) : \E i \in 1 .. Len(b) : at[i] = <<k, c>>
       /\ \A i, j \in 1 .. Len(b) : i < j => Earlier(at[i], at[j])
  BY <1>7 DEF LaidTo
<1> HIDE DEF l, t
<1>11. ASSUME NEW i \in 1 .. Len(t)
       PROVE  /\ from(i) \in 0 .. n /\ nth(i) \in 1 .. Len(block(from(i)))
              /\ t[i] = block(from(i))[nth(i)]
  <2>1. CASE i <= l
    <3>1. i \in 1 .. l
      BY <1>9, <2>1
    <3>2. from(i) = 0 /\ nth(i) = i /\ block(0) = a /\ t[i] = a[i]
      BY <1>9, <2>1, <3>1
    <3>3. 0 \in 0 .. n
      BY DEF n
    <3> QED
      BY <3>1, <3>2, <3>3 DEF l
  <2>2. CASE ~(i <= l)
    <3>1. i - l \in 1 .. Len(b) /\ t[i] = b[i - l]
      BY <1>9, <2>2
    <3>2. from(i) = at[i - l][1] /\ nth(i) = at[i - l][2]
      BY <2>2
    <3>3. from(i) \in 1 .. n /\ nth(i) \in 1 .. Len(ss[from(i)]) /\ b[i - l] = ss[from(i)][nth(i)]
      BY <1>10, <3>1, <3>2
    <3>4. from(i) # 0 /\ from(i) \in 0 .. n /\ block(from(i)) = ss[from(i)]
      <4> HIDE DEF from, n
      <4>1. \A x \in 1 .. n : x # 0 /\ x \in 0 .. n
        BY DEF n
      <4> QED
        BY <3>3, <4>1
    <3> HIDE DEF from, nth, block
    <3> QED
      BY <3>1, <3>3, <3>4
  <2> QED
    BY <2>1, <2>2
<1>12. ASSUME NEW i \in 1 .. Len(t), NEW j \in 1 .. Len(t), i < j
       PROVE  from(i) < from(j) \/ (from(i) = from(j) /\ nth(i) < nth(j))
  <2>1. CASE j <= l
    BY <1>9, <1>12, <2>1
  <2>2. CASE ~(j <= l) /\ i <= l
    <3>1. j - l \in 1 .. Len(b) /\ from(j) = at[j - l][1] /\ from(i) = 0
      BY <1>9, <2>2
    <3>2. at[j - l][1] \in 1 .. n
      BY <1>10, <3>1
    <3> QED
      BY <3>1, <3>2 DEF n
  <2>3. CASE ~(j <= l) /\ ~(i <= l)
    <3>1. i - l \in 1 .. Len(b) /\ j - l \in 1 .. Len(b) /\ i - l < j - l
      BY <1>9, <1>12, <2>3
    <3>2. Earlier(at[i - l], at[j - l])
      BY <1>10, <3>1
    <3> QED
      BY <2>3, <3>2 DEF Earlier
  <2> QED
    BY <2>1, <2>2, <2>3
<1>13. ASSUME NEW m \in 0 .. n, NEW c \in 1 .. Len(block(m))
       PROVE  \E i \in 1 .. Len(t) : from(i) = m /\ nth(i) = c
  <2>1. CASE m = 0
    <3>1. c \in 1 .. l
      BY <2>1 DEF l
    <3>2. c \in 1 .. Len(t) /\ c <= l
      BY <1>9, <3>1
    <3> QED
      BY <2>1, <3>2
  <2>2. CASE m # 0
    <3>1. m \in 1 .. n /\ c \in 1 .. Len(ss[m])
      BY <2>2 DEF n
    <3>2. PICK i \in 1 .. Len(b) : at[i] = <<m, c>>
      BY <1>10, <3>1
    <3>3. l + i \in 1 .. Len(t) /\ ~(l + i <= l) /\ (l + i) - l = i
      BY <1>9
    <3>4. from(l + i) = m /\ nth(l + i) = c
      BY <3>2, <3>3
    <3> HIDE DEF from, nth
    <3> QED
      BY <3>3, <3>4
  <2> QED
    BY <2>1, <2>2
<1>14. \A i \in 1 .. Len(t) : w[i][1] = from(i) /\ w[i][2] = us[from(i)][nth(i)]
  <2> HIDE DEF from, nth, us, block
  <2> QED
    OBVIOUS
<1>15. w = [i \in 1 .. Len(t) |-> w[i]]
  <2> HIDE DEF from, nth, us, block
  <2> QED
    OBVIOUS
<1> HIDE DEF from, nth, w, us, block
<1>16. ASSUME NEW i \in 1 .. Len(t)
       PROVE  /\ w[i] \in Nat \X Nat
              /\ \/ /\ w[i][2] = 0 /\ w[i][1] \in 1 .. n /\ Remains(p, r, v, w[i][1])
                    /\ t[i] = HostPart(p, r, v, w[i][1])
                 \/ /\ w[i][2] \in OwnBehind(p, r, v, w[i][1]) /\ w[i][1] \in 0 .. n
                    /\ t[i] = OwnPart(v, w[i][2])
  <2> DEFINE m == from(i)
             c == nth(i)
             bl == block(m)
             u == us[m]
  <2>1. m \in 0 .. n /\ c \in 1 .. Len(bl) /\ t[i] = bl[c] /\ Block(bl, p, r, v, m, u)
    BY <1>8, <1>11
  <2>2. w[i][1] = m /\ w[i][2] = u[c]
    BY <1>14
  <2> HIDE DEF m, c, bl, u
  <2>3. /\ u[c] \in Nat
        /\ \/ u[c] = 0 /\ m \in 1 .. n /\ Remains(p, r, v, m) /\ bl[c] = HostPart(p, r, v, m)
           \/ u[c] \in OwnBehind(p, r, v, m) /\ bl[c] = OwnPart(v, u[c])
    BY <2>1 DEF Block
  <2>4. m \in Nat
    BY <2>1
  <2>5. w[i] = <<m, u[c]>>
    BY DEF w, m, c, u
  <2> QED
    BY <2>1, <2>2, <2>3, <2>4, <2>5
<1>17. w \in [1 .. Len(t) -> Nat \X Nat]
  BY <1>15, <1>16
<1>18. ASSUME NEW m \in 1 .. n, Remains(p, r, v, m)
       PROVE  \E i \in 1 .. Len(t) : w[i] = <<m, 0>>
  <2>1. m \in 0 .. n /\ m \in 1 .. Len(r)
    BY DEF n
  <2>2. Block(block(m), p, r, v, m, us[m])
    BY <1>8, <2>1
  <2>3. PICK c \in 1 .. Len(block(m)) : us[m][c] = 0
    BY <1>18, <2>1, <2>2 DEF Block
  <2>4. PICK i \in 1 .. Len(t) : from(i) = m /\ nth(i) = c
    BY <1>13, <2>1
  <2>5. w[i] = <<m, 0>>
    BY <2>3, <2>4 DEF w
  <2> QED
    BY <2>5
<1>19. ASSUME NEW i \in 1 .. Len(t), NEW j \in 1 .. Len(t), i < j
       PROVE  Earlier(w[i], w[j])
  <2>1. CASE from(i) < from(j)
    BY <1>14, <2>1 DEF Earlier
  <2>2. CASE from(i) = from(j) /\ nth(i) < nth(j)
    <3>1. /\ from(i) \in 0 .. n /\ nth(i) \in 1 .. Len(block(from(i)))
          /\ nth(j) \in 1 .. Len(block(from(i)))
      BY <1>11, <2>2
    <3>2. Block(block(from(i)), p, r, v, from(i), us[from(i)])
      BY <1>8, <3>1
    <3>3. us[from(i)][nth(i)] < us[from(i)][nth(j)]
      BY <2>2, <3>1, <3>2 DEF Block
    <3> QED
      BY <1>14, <2>2, <3>3 DEF Earlier
  <2> QED
    BY <1>12, <1>19, <2>1, <2>2
<1>20. Listed(t)
  BY <1>9, SeqListed
<1>21. Assembly(t, p, r, v, w)
  BY <1>16, <1>17, <1>18, <1>19, <1>20 DEF Assembly, n
<1> QED
  BY <1>1, <1>21

-----------------------------------------------------------------------------
(* What the patch hands back of the parts ACP does not own.                *)

\* r is the request q as the patch may find it: touched, but with the parts q has.
Alike(q, r) ==
  /\ Placed(r) /\ Len(r) = Len(q)
  /\ \A m \in 1 .. Len(q) :
       /\ Len(r[m].parts) = Len(q[m].parts)
       /\ \A c \in 1 .. Len(q[m].parts) :
            /\ r[m].parts[c].type = q[m].parts[c].type /\ r[m].parts[c].call = q[m].parts[c].call
            /\ r[m].parts[c].gen < 2 /\ r[m].parts[c].tag = FALSE

\* The places a projection notes for a source are parts of messages the source claims, and
\* the calls it notes are in the first of them.
Located(p) ==
  /\ Listed(p.entries) /\ Placed(p.request)
  /\ \A s \in 1 .. Len(p.entries) :
       /\ Listed(p.entries[s].out) /\ ToSet(p.entries[s].out) \subseteq 1 .. Len(p.request)
       /\ Listed(p.entries[s].origins)
       /\ \A o \in ToSet(p.entries[s].origins) :
            /\ o.key[1] = s /\ Listed(o.ptrs)
            /\ \A ptr \in ToSet(o.ptrs) :
                 /\ ptr[1] \in ToSet(p.entries[s].out) /\ ptr = <<ptr[1], ptr[2]>>
                 /\ ptr[2] \in 1 .. Len(p.request[ptr[1]].parts)
            /\ o.call # NoPtr => o.call \in ToSet(o.ptrs) /\ o.call[1] = p.entries[s].out[1]

LEMMA SetOfListed ==
  ASSUME NEW s, Listed(s)
  PROVE  ToSet(s) = {s[i] : i \in 1 .. Len(s)} /\ DOMAIN s = 1 .. Len(s)
<1>1. DOMAIN s = 1 .. Len(s)
  BY DEF Listed
<1> QED
  BY <1>1 DEF ToSet

\* ACP's part goes to a place of the message it goes into.
LEMMA InsertionFits ==
  ASSUME NEW p, NEW r, NEW v, Located(p), NEW m \in 1 .. Len(p.request)
  PROVE  Fits(p, r, v, m, Len(p.request[m].parts))
<1> DEFINE s == Owner(p, m)
           n == Len(p.request[m].parts)
           calls == {o.call[2] : o \in {q \in ToSet(p.entries[s].origins) : q.call[1] = m}}
<1>1. n \in Nat
  BY RequestAt DEF Located
<1>2. ASSUME HasInsertion(p, r, v, m)
      PROVE  InsertedAt(p, m) \in 1 .. n + 1
  <2>1. Len(p.entries) \in Nat
    BY DEF Located, Listed
  <2>2. s # 0 /\ s \in 1 .. Len(p.entries)
    <3>1. s \in 0 .. Len(p.entries)
      BY <2>1, OwnerIs
    <3>2. s # 0
      BY <1>2 DEF HasInsertion, IsTarget
    <3> HIDE DEF s
    <3> QED
      BY <2>1, <3>1, <3>2
  <2>3. calls \subseteq 0 .. n /\ \A x \in calls : x \in 1 .. n
    <3>1. ASSUME NEW o \in ToSet(p.entries[s].origins), o.call[1] = m
          PROVE  o.call[2] \in 1 .. n
      <4> HIDE DEF s
      <4>1. o.call \in ToSet(o.ptrs)
        <5>1. o.call # NoPtr
          BY <3>1 DEF NoPtr
        <5> QED
          BY <2>2, <5>1 DEF Located
      <4>2. o.call[2] \in 1 .. Len(p.request[o.call[1]].parts)
        BY <2>2, <4>1 DEF Located
      <4> QED
        BY <3>1, <4>1, <4>2
    <3>2. \A x \in calls : x \in 1 .. n
      BY <2>2, <3>1
    <3> HIDE DEF calls, n
    <3>3. \A x \in 1 .. n : x \in 0 .. n
      BY <1>1
    <3> QED
      BY <3>2, <3>3
  <2>4. calls # {} => Min(calls) \in calls
    <3> HIDE DEF calls, n
    <3> QED
      BY <1>1, <2>3, Extremes
  <2>5. InsertedAt(p, m) = IF p.request[m].role = "assistant" /\ calls # {} THEN Min(calls) ELSE n + 1
    BY DEF InsertedAt
  <2> HIDE DEF calls, n
  <2>6. n + 1 \in 1 .. n + 1 /\ \A x \in 1 .. n : x \in 1 .. n + 1
    BY <1>1
  <2>7. InsertedAt(p, m) = n + 1 \/ (calls # {} /\ InsertedAt(p, m) = Min(calls))
    BY <2>5
  <2> QED
    BY <2>3, <2>4, <2>6, <2>7
<1> QED
  BY <1>2 DEF Fits

\* The opaque parts of a message are parts of it.
LEMMA OpaquePartsAre ==
  ASSUME NEW p, Located(p), NEW m \in 1 .. Len(p.request), NEW c \in OpaqueParts(p, m)
  PROVE  c \in 1 .. Len(p.request[m].parts)
<1> DEFINE s == Owner(p, m)
           n == Len(p.request[m].parts)
           at(os) == {ptr[2] : ptr \in {q \in UNION {ToSet(o.ptrs) : o \in os} : q[1] = m}}
           os == ToSet(p.entries[s].origins)
           some == {o \in os : o.opaque}
<1>1. s \in 0 .. Len(p.entries) /\ Len(p.entries) \in Nat
  BY OwnerIs DEF Located, Listed
<1>2. CASE s = 0
  BY <1>2 DEF OpaqueParts
<1>3. CASE s # 0
  <2>1. s \in 1 .. Len(p.entries)
    <3> HIDE DEF s
    <3> QED
      BY <1>1, <1>3
  <2>2. \A x \in at(some) : x \in 1 .. n
    <3>1. ASSUME NEW o \in os, NEW ptr \in ToSet(o.ptrs), ptr[1] = m
          PROVE  ptr[2] \in 1 .. n
      <4> HIDE DEF s
      <4> QED
        BY <2>1, <3>1 DEF Located
    <3> HIDE DEF os, n
    <3> QED
      BY <3>1
  <2>3. OpaqueParts(p, m) = at(some) \cup IF p.entries[s].opaque THEN {} ELSE (1 .. n) \ at(os)
    BY <1>3, Zenon DEF OpaqueParts
  <2> HIDE DEF at, some, os, s, n
  <2> QED
    BY <2>2, <2>3 DEF n
<1> QED
  BY <1>2, <1>3

\* The parts of an assembled request are those of its messages.
LEMMA PartsOfAssembly ==
  ASSUME NEW out, Listed(out), NEW i \in 1 .. Len(out), NEW k, Listed(out[i].parts),
         k \in 1 .. Len(out[i].parts)
  PROVE  out[i].parts[k] \in HostParts(out)
<1>1. out[i].parts[k] \in ToSet(out[i].parts)
  BY SetOfListed
<1> QED
  BY <1>1 DEF HostParts

\* A part that nobody edits and that goes with nothing the view removed is handed back.
LEMMA PartStays ==
  ASSUME NEW p, NEW r, NEW v, Located(p), Alike(p.request, r), NEW out, NEW w,
         Assembly(out, p, r, v, w), NEW m \in 1 .. Len(r), m \notin RemovedOut(p, v),
         NEW c \in 1 .. Len(r[m].parts), Spared(p, r, v, m, c)
  PROVE  Edited(p, r, v, m)[c] \in HostParts(out)
<1> DEFINE kept == KeptParts(p, r, v, m)
           e == Edited(p, r, v, m)
<1>1. m \in 1 .. Len(p.request) /\ Len(r[m].parts) = Len(p.request[m].parts) /\ Placed(r)
  BY DEF Alike
<1>2. Fits(p, r, v, m, Len(r[m].parts))
  BY <1>1, InsertionFits
<1>3. Keeping(kept, p, r, v, m)
  BY <1>1, <1>2, KeptIs
<1>4. PICK k \in 1 .. Len(kept) : kept[k] = e[c]
  BY <1>3 DEF Keeping
<1>5. Remains(p, r, v, m)
  <2>1. kept # <<>>
    <3> HIDE DEF kept
    <3> QED
      BY <1>4
  <2> QED
    BY <2>1 DEF Remains
<1>6. PICK i \in 1 .. Len(out) : w[i] = <<m, 0>>
  BY <1>5 DEF Assembly
<1>7. out[i] = HostPart(p, r, v, m)
  <2>1. w[i][1] = m /\ w[i][2] = 0
    BY <1>6
  <2>2. 0 \notin OwnBehind(p, r, v, m)
    BY DEF OwnBehind
  <2> QED
    BY <2>1, <2>2 DEF Assembly
<1>8. out[i].parts = kept
  <2>1. r[m] \in RequestMessage
    BY <1>1, RequestAt
  <2> HIDE DEF kept
  <2>2. [r[m] EXCEPT !.parts = kept].parts = kept
    BY <2>1 DEF RequestMessage
  <2> QED
    BY <1>7, <2>2 DEF HostPart, kept
<1>9. Listed(kept) /\ Listed(out)
  BY <1>3 DEF Keeping, Assembly
<1> HIDE DEF kept, e
<1>10. kept[k] \in HostParts(out)
  BY <1>4, <1>8, <1>9, PartsOfAssembly
<1> QED
  BY <1>4, <1>10 DEF e

GonePlaces(p, v) == UNION {ToSet(o.ptrs) : o \in RemovedOrigins(p, v)}

Handed(out, m, c) == \E q \in HostParts(out) : q.obj = <<m, c>> /\ q.gen < 2

LEMMA OpaqueHandedBack ==
  ASSUME NEW p, NEW r, NEW v, Located(p), Alike(p.request, r), Applies(p, r, v),
         NEW out, NEW w, Assembly(out, p, r, v, w),
         NEW m \in 1 .. Len(p.request), m \notin RemovedOut(p, v),
         NEW c, c \in OpaqueParts(p, m) \/ (OpaqueMessage(p, m) /\ c \in 1 .. Len(p.request[m].parts)),
         <<m, c>> \notin GonePlaces(p, v)
  PROVE  Handed(out, m, c)
<1> DEFINE e == Edited(p, r, v, m)
           t == Replaced(p, r, v, m)
           n == Len(r[m].parts)
<1>1. Placed(r) /\ m \in 1 .. Len(r) /\ n = Len(p.request[m].parts)
  BY DEF Alike
<1>2. c \in 1 .. n
  BY <1>1, OpaquePartsAre
<1>3. Fits(p, r, v, m, n)
  BY <1>1, InsertionFits
<1>4. Replacing(t, p, r, v, m)
  BY <1>1, <1>3, ReplacedIs
<1>5. t = r[m].parts \/ t[c] = r[m].parts[c]
  <2>1. ~OpaqueTouched(p, r, v)
    BY DEF Applies
  <2>2. \A s \in RemovedSources(p, v) : m \notin ToSet(p.entries[s].out)
    BY DEF RemovedOut
  <2>3. \/ t = r[m].parts
        \/ ~OpaqueMessage(p, m) /\ \A d \in OpaqueParts(p, m) : t[d] = r[m].parts[d]
    BY <1>1, <2>1, <2>2 DEF OpaqueTouched
  <2> QED
    BY <2>3
<1>6. /\ n \in Nat /\ r[m].parts[c] \in RequestPart /\ r[m].parts[c].obj = <<m, c>>
      /\ r[m].parts[c].gen < 2
  <2>1. n \in Nat /\ r[m].parts[c] \in RequestPart /\ r[m].parts[c].obj = <<m, c>>
    BY <1>1, <1>2, RequestAt
  <2>2. r[m].parts[c].gen < 2
    BY <1>1, <1>2 DEF Alike
  <2> QED
    BY <2>1, <2>2
<1>7. t[c] = r[m].parts[c]
  BY <1>5
<1>8. Spot(p, r, v, m, c) = c
  \* else ACP's own part, or another one, would be where it was
  <2> HIDE DEF n, t, e
  <2>1. c \in 1 .. Len(t)
    <3>1. Spot(p, r, v, m, c) \in 1 .. Len(t) /\ Len(t) \in Nat
      BY <1>2, <1>4 DEF Replacing, Listed, n
    <3>2. Spot(p, r, v, m, c) = c \/ Spot(p, r, v, m, c) = c + 1
      BY DEF Spot
    <3> QED
      BY <1>2, <1>6, <3>1, <3>2
  <2>2. t[c] = Inserted \/ \E d \in 1 .. n : c = Spot(p, r, v, m, d)
    BY <1>4, <2>1 DEF Replacing, n
  <2>3. t[c].obj = <<m, c>> /\ Inserted.obj = NoPtr /\ NoPtr # <<m, c>>
    <3>1. Inserted.obj = NoPtr
      BY DEF Inserted, Part
    <3> QED
      BY <1>1, <1>6, <1>7, <3>1 DEF NoPtr
  <2>4. PICK d \in 1 .. n : c = Spot(p, r, v, m, d)
    BY <2>2, <2>3
  <2>5. t[c] = e[d] /\ e[d].obj = <<m, d>>
    <3>1. t[Spot(p, r, v, m, d)] = e[d]
      BY <1>4, <2>4 DEF Replacing, n, e
    <3>2. EditOf(e[d], r[m].parts[d], <<m, d>>)
      BY <1>1, <2>4, EditedIs DEF n, e
    <3> QED
      BY <2>4, <3>1, <3>2 DEF EditOf
  <2>6. d = c
    BY <2>3, <2>5
  <2> QED
    BY <2>4, <2>6
<1>9. e[c] = r[m].parts[c]
  <2>1. t[Spot(p, r, v, m, c)] = e[c]
    BY <1>2, <1>4 DEF Replacing
  <2> HIDE DEF t, e
  <2> QED
    BY <1>7, <1>8, <2>1
<1>10. Spared(p, r, v, m, c)
  <2>1. <<m, c>> \notin Gone(p, v, m)
    BY DEF Gone, GonePlaces
  <2> HIDE DEF e
  <2> QED
    BY <1>6, <1>8, <1>9, <2>1 DEF Spared, e
<1>11. e[c] \in HostParts(out)
  <2>1. m \in 1 .. Len(r) /\ c \in 1 .. Len(r[m].parts)
    BY <1>1, <1>2
  <2> QED
    BY <1>10, <2>1, PartStays
<1> HIDE DEF e
<1> QED
  BY <1>6, <1>9, <1>11 DEF Handed

-----------------------------------------------------------------------------
(* The order of the assembled request.                                     *)

\* Two sources claim no message both.
Apart(p) == \A s, t \in 1 .. Len(p.entries) :
              s # t => ToSet(p.entries[s].out) \cap ToSet(p.entries[t].out) = {}

\* The messages of a view are sources that have one, in order, and at most one of ACP's own.
Over(x, y) == x # y /\ (x # Suffix /\ y # Suffix => x < y)
Rises(v) == Listed(v) /\ \A k, l \in 1 .. Len(v) : k < l => Over(v[k].id, v[l].id)
SourceId(p, x) == x = Suffix \/ (x \in 1 .. Len(p.entries) /\ p.entries[x].norm)
InSourceOrder(p, v) == Rises(v) /\ \A k \in 1 .. Len(v) : SourceId(p, v[k].id)

\* Part k of message i of out is one of message m of r.
FromHost(out, p, r, v, w, i, k, m) ==
  /\ w[i][2] = 0 /\ w[i][1] = m /\ m \in 1 .. Len(r) /\ Remains(p, r, v, m)
  /\ out[i].parts = KeptParts(p, r, v, m) /\ Keeping(out[i].parts, p, r, v, m)
  /\ out[i].parts[k].obj[1] = m
  /\ \E c \in 1 .. Len(r[m].parts) :
       /\ out[i].parts[k] = Edited(p, r, v, m)[c] /\ Spared(p, r, v, m, c)
       /\ out[i].parts[k].obj = <<m, c>>

\* A part of the assembled request that is not ACP's is one of the message it is put with.
LEMMA HostPartIs ==
  ASSUME NEW p, NEW r, NEW v, Located(p), Alike(p.request, r), NEW out, NEW w,
         Assembly(out, p, r, v, w), NEW i \in 1 .. Len(out), NEW k \in 1 .. Len(out[i].parts),
         out[i].parts[k].obj # NoPtr
  PROVE  FromHost(out, p, r, v, w, i, k, w[i][1])
<1> DEFINE m == w[i][1]
           kept == KeptParts(p, r, v, m)
           e == Edited(p, r, v, m)
<1>0. Placed(r) /\ Inserted.obj = NoPtr
  BY DEF Alike, Inserted, Part
<1>1. w[i][2] = 0 /\ m \in 1 .. Len(r) /\ Remains(p, r, v, m) /\ out[i] = HostPart(p, r, v, m)
  <2>1. ASSUME out[i] = OwnPart(v, w[i][2])
        PROVE  FALSE
    <3>1. out[i].parts = <<Inserted>>
      BY <2>1 DEF OwnPart, Message
    <3>2. k = 1
      BY <3>1
    <3> QED
      BY <1>0, <3>1, <3>2
  <2> QED
    BY <2>1 DEF Assembly
<1>2. m \in 1 .. Len(p.request) /\ Len(r[m].parts) = Len(p.request[m].parts)
  BY <1>1 DEF Alike
<1>3. Fits(p, r, v, m, Len(r[m].parts))
  BY <1>2, InsertionFits
<1> HIDE DEF m
<1>4. Keeping(kept, p, r, v, m)
  BY <1>0, <1>1, <1>3, KeptIs
<1>5. out[i].parts = kept
  <2>1. r[m] \in RequestMessage
    BY <1>0, <1>1, RequestAt
  <2> HIDE DEF kept
  <2>2. [r[m] EXCEPT !.parts = kept].parts = kept
    BY <2>1 DEF RequestMessage
  <2> QED
    BY <1>1, <2>2 DEF HostPart, kept
<1> HIDE DEF kept, e
<1>6. PICK c \in 1 .. Len(r[m].parts) : kept[k] = e[c] /\ Spared(p, r, v, m, c)
  <2>1. k \in 1 .. Len(kept) /\ kept[k] # Inserted
    BY <1>0, <1>5
  <2> QED
    BY <1>4, <2>1 DEF Keeping, e
<1>7. e[c].obj = <<m, c>>
  <2>1. \A x \in 1 .. Len(r[m].parts) : Edited(p, r, v, m)[x].obj = <<m, x>>
    <3>1. \A x \in 1 .. Len(r[m].parts) : EditOf(Edited(p, r, v, m)[x], r[m].parts[x], <<m, x>>)
      BY <1>0, <1>1, EditedIs
    <3> QED
      BY <3>1 DEF EditOf
  <2> QED
    BY <2>1 DEF e
<1>8. w[i][1] = m
  BY DEF m
<1>9. FromHost(out, p, r, v, w, i, k, m)
  BY <1>1, <1>4, <1>5, <1>6, <1>7, <1>8 DEF kept, e, FromHost
<1> QED
  BY <1>9 DEF m

LEMMA PartsInOrder ==
  ASSUME NEW p, NEW r, NEW v, Located(p), Alike(p.request, r), NEW out, NEW w,
         Assembly(out, p, r, v, w),
         NEW i \in 1 .. Len(out), NEW j \in 1 .. Len(out),
         NEW k \in 1 .. Len(out[i].parts), NEW l \in 1 .. Len(out[j].parts),
         Earlier(<<i, k>>, <<j, l>>), out[i].parts[k].obj # NoPtr, out[j].parts[l].obj # NoPtr
  PROVE  Earlier(out[i].parts[k].obj, out[j].parts[l].obj)
<1> DEFINE a == out[i].parts[k].obj
           b == out[j].parts[l].obj
<1>1. /\ w[i][2] = 0 /\ a[1] = w[i][1] /\ Keeping(out[i].parts, p, r, v, w[i][1])
      /\ w[i][1] \in 1 .. Len(r)
  <2>1. FromHost(out, p, r, v, w, i, k, w[i][1])
    BY HostPartIs
  <2> QED
    BY <2>1 DEF FromHost
<1>2. w[j][2] = 0 /\ b[1] = w[j][1]
  <2>1. FromHost(out, p, r, v, w, j, l, w[j][1])
    BY HostPartIs
  <2> QED
    BY <2>1 DEF FromHost
<1>3. i < j \/ (i = j /\ k < l)
  BY DEF Earlier
<1>4. CASE i < j
  <2>1. Earlier(w[i], w[j])
    BY <1>4 DEF Assembly
  <2> QED
    BY <1>1, <1>2, <2>1 DEF Earlier
<1>5. CASE i = j /\ k < l
  <2>1. a[2] < b[2]
    BY <1>1, <1>5 DEF Keeping
  <2> QED
    BY <1>1, <1>2, <1>5, <2>1 DEF Earlier
<1> QED
  BY <1>3, <1>4, <1>5

\* The messages the sources before view message k claim and the patch finds.
ClaimedBefore(p, r, v, k) ==
  UNION {{m \in IF IsSource(p, v[j]) THEN ToSet(p.entries[v[j].id].out) ELSE {} : Told(r, m)} :
           j \in 1 .. (k - 1)}

LEMMA PointIs ==
  ASSUME NEW p, NEW r, NEW v, NEW k, ClaimedBefore(p, r, v, k) # {}
  PROVE  InsertionPoint(p, r, v, k) = Max(ClaimedBefore(p, r, v, k))
BY Zenon DEF InsertionPoint, ClaimedBefore

\* Source s has a message the patch finds in every request it accepts.
Sure(p, s) ==
  \E n \in ToSet(p.entries[s].out) : p.entries[s].opaque \/ p.request[n].id # 0

LEMMA SureIsFound ==
  ASSUME NEW p, NEW r, Located(p), Apart(p), Alike(p.request, r), BaselineHolds(p, r),
         NEW s \in 1 .. Len(p.entries), Sure(p, s)
  PROVE  \E n \in ToSet(p.entries[s].out) : Told(r, n)
<1>1. PICK n \in ToSet(p.entries[s].out) : p.entries[s].opaque \/ p.request[n].id # 0
  BY DEF Sure
<1>2. n \in 1 .. Len(r) /\ n \in 1 .. Len(p.request)
  BY DEF Located, Alike
<1>3. CASE p.request[n].id # 0
  <2>1. Shape(r)[n].id = Shape(p.request)[n].id
    BY DEF BaselineHolds
  <2>2. Shape(r)[n].id = r[n].id /\ Shape(p.request)[n].id = p.request[n].id
    BY <1>2 DEF Shape
  <2> QED
    BY <1>3, <2>1, <2>2 DEF Told
<1>4. CASE p.entries[s].opaque
  <2>1. Len(p.entries) \in Nat
    BY DEF Located, Listed
  <2>2. /\ Owner(p, n) # 0 /\ Owner(p, n) \in 1 .. Len(p.entries)
        /\ n \in ToSet(p.entries[Owner(p, n)].out)
    <3> DEFINE t == Owner(p, n)
               many == Len(p.entries)
    <3>1. t \in 0 .. many /\ t # 0 /\ n \in ToSet(p.entries[t].out)
      BY <2>1, OwnerIs
    <3> HIDE DEF t, many
    <3>2. t \in 1 .. many
      BY <2>1, <3>1 DEF many
    <3> QED
      BY <3>1, <3>2 DEF t, many
  <2>3. Owner(p, n) = s
    BY <1>1, <2>2 DEF Apart
  <2>4. OpaqueMessage(p, n)
    BY <1>4, <2>3 DEF OpaqueMessage
  <2>5. r[n].gen = 0
    BY <1>2, <2>4 DEF BaselineHolds
  <2> QED
    BY <2>5 DEF Told
<1> QED
  BY <1>1, <1>3, <1>4

\* What message n holds of the source `owner` is on the right side of ACP's message i, which is
\* the view's message k; `found` is whether the patch finds message n.
InPlace(p, v, k, i, n, owner, found) ==
  /\ i < n /\ found => \A j \in 1 .. (k - 1) : owner # v[j].id
  /\ n < i /\ (\E j \in 1 .. (k - 1) : Sure(p, v[j].id)) =>
       \A l \in (k + 1) .. Len(v) : owner # v[l].id

LEMMA OwnInPlace ==
  ASSUME NEW p, NEW r, NEW v, Located(p), Apart(p), InSourceOrder(p, v), Alike(p.request, r),
         BaselineHolds(p, r), SourceOrderHolds(p, v), NEW out, NEW w, Assembly(out, p, r, v, w),
         NEW i \in 1 .. Len(out), NEW k \in 1 .. Len(v), out[i].id = Suffix, v[k].id = Suffix,
         NEW n \in 1 .. Len(out), NEW d \in 1 .. Len(out[n].parts), out[n].parts[d].obj # NoPtr
  PROVE  InPlace(p, v, k, i, n, Owner(p, out[n].parts[d].obj[1]), Told(out, n))
<1> DEFINE g == w[i][1]
           m == w[n][1]
           owner == Owner(p, m)
           claimed == ClaimedBefore(p, r, v, k)
           size == Len(p.request)
           many == Len(p.entries)
           outOf(s) == ToSet(p.entries[s].out)
<1>1. w[i][2] = k /\ g \in 0 .. Len(r) /\ InsertionPoint(p, r, v, k) = g
  <2>1. ASSUME g \in 1 .. Len(r), out[i] = HostPart(p, r, v, g)
        PROVE  FALSE
    <3>1. r[g] \in RequestMessage
      BY <2>1, RequestAt DEF Alike
    <3> HIDE DEF g
    <3>2. out[i].id = r[g].id /\ r[g].id \in Nat
      BY <2>1, <3>1 DEF HostPart, RequestMessage
    <3> QED
      BY <3>2 DEF Suffix
  <2>2. w[i][2] \in OwnBehind(p, r, v, g) /\ g \in 0 .. Len(r) /\ out[i] = OwnPart(v, w[i][2])
    BY <2>1 DEF Assembly
  <2>3. w[i][2] \in 1 .. Len(v) /\ InsertionPoint(p, r, v, w[i][2]) = g
    BY <2>2 DEF OwnBehind
  <2>4. v[w[i][2]].id = Suffix
    BY <2>2 DEF OwnPart, Message
  <2>5. w[i][2] = k
    <3> DEFINE x == w[i][2]
    <3> HIDE DEF x
    <3>1. ~(x < k) /\ ~(k < x)
      BY <2>3, <2>4 DEF x, InSourceOrder, Rises, Over, SourceId
    <3>2. x \in Int /\ k \in Int
      BY <2>3 DEF x
    <3>3. x = k
      BY <3>1, <3>2
    <3> QED
      BY <3>3 DEF x
  <2> QED
    BY <2>2, <2>3, <2>5
<1>2. w[n][2] = 0 /\ m \in 1 .. Len(r) /\ out[n].parts[d].obj[1] = m
  <2>1. FromHost(out, p, r, v, w, n, d, w[n][1])
    BY HostPartIs
  <2> QED
    BY <2>1 DEF FromHost
<1>3. size = Len(r) /\ size \in Nat /\ many \in Nat /\ DOMAIN p.entries = 1 .. many
  <2>1. p.request \in Seq(RequestMessage) /\ Listed(p.entries) /\ Len(r) = Len(p.request)
    BY DEF Located, Placed, Alike
  <2>2. DOMAIN p.entries = 1 .. many /\ many \in Nat
    BY <2>1, SetOfListed DEF Listed
  <2> QED
    BY <2>1, <2>2
<1>4. owner \in 0 .. many /\ (owner # 0 => m \in outOf(owner))
  BY <1>3, OwnerIs
<1>5. \A s \in 1 .. many : outOf(s) \subseteq 0 .. size /\ Listed(p.entries[s].out)
  <2>1. \A s \in 1 .. many : outOf(s) \subseteq 1 .. size /\ Listed(p.entries[s].out)
    BY DEF Located
  <2>2. \A x \in 1 .. size : x \in 0 .. size
    BY <1>3
  <2> HIDE DEF size, outOf, many
  <2> QED
    BY <2>1, <2>2
<1> HIDE DEF g, m, owner, claimed, size, many, outOf
<1>6. \A j \in 1 .. Len(v) : v[j].id = Suffix \/ v[j].id \in 1 .. many
  BY DEF InSourceOrder, Rises, Over, SourceId, many
<1>7. \A j \in 1 .. Len(v) : IsSource(p, v[j]) <=> v[j].id \in 1 .. many
  BY <1>3 DEF IsSource
<1>8. Len(v) \in Nat
  BY DEF InSourceOrder, Rises, Over, SourceId, Listed
<1>9. \A j \in 1 .. k - 1 : j \in 1 .. Len(v) /\ j < k
  BY <1>8
<1>10. \A j \in k + 1 .. Len(v) : j \in 1 .. Len(v) /\ k < j
  BY <1>8
<1>11. \A j \in 1 .. k - 1 : v[j].id \in 1 .. many =>
         \A x \in outOf(v[j].id) : Told(r, x) => x \in claimed
  BY <1>7, <1>9 DEF claimed, ClaimedBefore, outOf
<1>12. \A x \in claimed : \E j \in 1 .. k - 1 : v[j].id \in 1 .. many /\ x \in outOf(v[j].id)
  BY <1>7, <1>9 DEF claimed, ClaimedBefore, outOf
<1>13. claimed \subseteq 0 .. size
  BY <1>5, <1>12
<1>14. ASSUME NEW x \in claimed
       PROVE  x <= g /\ g \in claimed
  <2>1. g = Max(claimed)
    BY <1>1, <1>14, PointIs DEF claimed
  <2> QED
    BY <1>3, <1>13, <2>1, Extremes
<1>15. ASSUME i < n, Told(out, n), NEW j \in 1 .. k - 1, owner = v[j].id
       PROVE  FALSE
  <2>1. Earlier(w[i], w[n])
    BY <1>15 DEF Assembly
  <2>2. g < m
    BY <1>1, <1>2, <2>1 DEF Earlier, g, m
  <2>3. owner \in 1 .. many
    BY <1>3, <1>4, <1>6, <1>9, <1>15 DEF Suffix
  <2>4. m \in claimed
    <3>1. Told(r, m)
      <4>1. r[m] \in RequestMessage
        BY <1>2, RequestAt DEF Alike
      <4>2. out[n] = HostPart(p, r, v, m)
        <5>1. 0 \notin OwnBehind(p, r, v, m)
          BY DEF OwnBehind
        <5>2. w[n][1] = m
          BY DEF m
        <5> QED
          BY <1>2, <5>1, <5>2 DEF Assembly
      <4> DEFINE kept == KeptParts(p, r, v, m)
      <4> HIDE DEF kept
      <4>3. LET y == [r[m] EXCEPT !.parts = kept] IN y.gen = r[m].gen /\ y.id = r[m].id
        BY <4>1 DEF RequestMessage
      <4>4. out[n].gen = r[m].gen /\ out[n].id = r[m].id
        BY <4>2, <4>3 DEF HostPart, kept
      <4> QED
        BY <1>15, <4>4 DEF Told
    <3> QED
      BY <1>4, <1>11, <1>15, <2>3, <3>1
  <2> QED
    BY <1>1, <1>2, <1>14, <2>2, <2>4
<1>16. ASSUME n < i, NEW j \in 1 .. k - 1, Sure(p, v[j].id),
              NEW l \in k + 1 .. Len(v), owner = v[l].id
       PROVE  FALSE
  <2>1. Earlier(w[n], w[i])
    BY <1>16 DEF Assembly
  <2>2. m <= g /\ m \in Int /\ g \in Int
    <3>1. m < g \/ (m = g /\ 0 < k)
      BY <1>1, <1>2, <2>1 DEF Earlier, g, m
    <3> HIDE DEF m, g
    <3>2. m \in Int /\ g \in Int
      BY <1>1, <1>2
    <3> QED
      BY <3>1, <3>2
  <2>3. owner \in 1 .. many /\ m \in outOf(owner)
    <3>1. l \in 1 .. Len(v)
      BY <1>10
    <3>2. v[l].id = Suffix \/ v[l].id \in 1 .. many
      BY <1>6, <3>1
    <3>3. owner \in 1 .. many
      BY <1>3, <1>4, <1>16, <3>2 DEF Suffix
    <3>4. owner # 0
      BY <1>3, <3>3
    <3> QED
      BY <1>4, <3>3, <3>4
  <2>4. v[j].id \in 1 .. many
    BY <1>6, <1>9 DEF InSourceOrder, Rises, Over, SourceId
  <2>5. claimed # {}
    <3>1. \E x \in outOf(v[j].id) : Told(r, x)
      BY <1>16, <2>4, SureIsFound DEF outOf, many
    <3> QED
      BY <1>11, <2>4, <3>1
  <2>6. g \in claimed
    BY <1>14, <2>5
  <2>7. PICK f \in 1 .. k - 1 : v[f].id \in 1 .. many /\ g \in outOf(v[f].id)
    BY <1>12, <2>6
  <2> DEFINE s == v[f].id
             t == v[l].id
  <2>8. s < t
    <3>1. f \in 1 .. Len(v) /\ l \in 1 .. Len(v) /\ f < l
      BY <1>8, SMTT(20)
    <3>2. s # Suffix /\ t # Suffix
      <4>1. t = owner
        BY <1>16
      <4> HIDE DEF s, t
      <4>2. s \in 1 .. many /\ t \in 1 .. many
        BY <2>3, <2>7, <4>1 DEF s
      <4> QED
        BY <1>3, <4>2 DEF Suffix
    <3> QED
      BY <3>1, <3>2 DEF InSourceOrder, Rises, Over, SourceId
  <2>9. /\ s \in {u \in RetainedSources(p, v) : p.entries[u].out # <<>>}
        /\ t \in {u \in RetainedSources(p, v) : p.entries[u].out # <<>>}
    <3>1. ASSUME NEW y \in 1 .. Len(v), v[y].id \in 1 .. many
          PROVE  v[y].id \in RetainedSources(p, v)
      <4>1. p.entries[v[y].id].norm
        BY <1>3, <3>1 DEF InSourceOrder, Rises, Over, SourceId, Suffix
      <4> QED
        BY <1>3, <3>1, <4>1 DEF RetainedSources, InView
    <3>2. \A u, x : x \in outOf(u) => p.entries[u].out # <<>>
      BY DEF outOf, ToSet
    <3> QED
      BY <1>9, <1>10, <1>16, <2>3, <2>7, <3>1, <3>2
  <2>10. Max(outOf(s)) <= Min(outOf(t))
    <3> HIDE DEF s, t
    <3> QED
      BY <2>8, <2>9 DEF SourceOrderHolds, outOf
  <2>11. g <= Max(outOf(s)) /\ Max(outOf(s)) \in 0 .. size
    BY <1>3, <1>5, <2>7, Extremes
  <2>12. Min(outOf(t)) <= m /\ Min(outOf(t)) \in 0 .. size
    <3>1. m \in outOf(t) /\ t \in 1 .. many
      BY <1>16, <2>3
    <3> HIDE DEF t
    <3> QED
      BY <1>3, <1>5, <3>1, Extremes
  <2>13. m = g
    <3> DEFINE x == Max(outOf(s))
               y == Min(outOf(t))
    <3>1. x \in Int /\ y \in Int
      BY <1>3, <2>11, <2>12
    <3>2. x <= y /\ g <= x /\ y <= m
      BY <2>10, <2>11, <2>12
    <3> HIDE DEF x, y, m, g
    <3> QED
      BY ONLY <2>2, <3>1, <3>2
  <2>14. s # t
    <3>1. s \in Nat /\ t \in Nat
      <4>1. s \in 1 .. many /\ t \in 1 .. many
        BY <1>16, <2>3, <2>7
      <4> HIDE DEF s, t
      <4> QED
        BY <4>1
    <3> HIDE DEF s, t
    <3> QED
      BY <2>8, <3>1
  <2> QED
    BY <1>16, <2>3, <2>7, <2>13, <2>14 DEF Apart, outOf, many
<1> QED
  BY <1>2, <1>15, <1>16 DEF owner, InPlace

-----------------------------------------------------------------------------
(* Restoring keeps the order of the sources.                               *)

LEMMA SeqWider ==
  ASSUME NEW X, NEW Y, X \subseteq Y, NEW s \in Seq(X)
  PROVE  s \in Seq(Y)
<1>1. Len(s) \in Nat /\ s \in [1 .. Len(s) -> X]
  OBVIOUS
<1>2. s \in [1 .. Len(s) -> Y]
  BY <1>1
<1> QED
  BY <1>1, <1>2

LEMMA JoinedListed ==
  ASSUME NEW a, NEW b, Listed(a), Listed(b)
  PROVE  /\ Listed(a \o b) /\ Len(a) \in Nat /\ Len(b) \in Nat
         /\ \A c \in 1 .. Len(a) : c \in 1 .. Len(a \o b) /\ (a \o b)[c] = a[c]
         /\ \A c \in 1 .. Len(b) : Len(a) + c \in 1 .. Len(a \o b) /\ (a \o b)[Len(a) + c] = b[c]
         /\ \A c \in 1 .. Len(a \o b) :
              \/ c \in 1 .. Len(a)
              \/ c - Len(a) \in 1 .. Len(b) /\ (a \o b)[c] = b[c - Len(a)]
<1> DEFINE X == {a[i] : i \in 1 .. Len(a)} \cup {b[i] : i \in 1 .. Len(b)}
           A == {a[i] : i \in 1 .. Len(a)}
           B == {b[i] : i \in 1 .. Len(b)}
<1>0. A \subseteq X /\ B \subseteq X /\ a \in Seq(A) /\ b \in Seq(B)
  BY ListedSeq
<1> HIDE DEF A, B
<1>1. a \in Seq(X)
  BY ONLY <1>0, SeqWider
<1>2. b \in Seq(X)
  BY ONLY <1>0, SeqWider
<1> HIDE DEF X
<1>3. Listed(a \o b)
  BY <1>1, <1>2, Joined, SeqListed
<1>4. /\ Len(a) \in Nat /\ Len(b) \in Nat
      /\ \A c \in 1 .. Len(a) : c \in 1 .. Len(a \o b) /\ (a \o b)[c] = a[c]
      /\ \A c \in 1 .. Len(b) : Len(a) + c \in 1 .. Len(a \o b) /\ (a \o b)[Len(a) + c] = b[c]
      /\ \A c \in 1 .. Len(a \o b) :
           \/ c \in 1 .. Len(a)
           \/ c - Len(a) \in 1 .. Len(b) /\ (a \o b)[c] = b[c - Len(a)]
  BY ONLY <1>1, <1>2, Joined
<1> QED
  BY <1>3, <1>4

\* The elements of a joined sequence are those of the two.
LEMMA JoinedElements ==
  ASSUME NEW a, NEW b, Listed(a), Listed(b)
  PROVE  ToSet(a \o b) = ToSet(a) \cup ToSet(b)
<1> DEFINE t == a \o b
<1>1. /\ Listed(t) /\ Len(a) \in Nat
      /\ \A c \in 1 .. Len(a) : c \in 1 .. Len(t) /\ t[c] = a[c]
      /\ \A c \in 1 .. Len(b) : Len(a) + c \in 1 .. Len(t) /\ t[Len(a) + c] = b[c]
      /\ \A c \in 1 .. Len(t) : \/ c \in 1 .. Len(a)
                                \/ c - Len(a) \in 1 .. Len(b) /\ t[c] = b[c - Len(a)]
  BY ONLY JoinedListed, Listed(a), Listed(b)
<1> HIDE DEF t
<1>2. /\ ToSet(t) = {t[i] : i \in 1 .. Len(t)} /\ ToSet(a) = {a[i] : i \in 1 .. Len(a)}
      /\ ToSet(b) = {b[i] : i \in 1 .. Len(b)}
  BY <1>1, SetOfListed
<1>3. ToSet(t) \subseteq ToSet(a) \cup ToSet(b)
  <2>1. ASSUME NEW c \in 1 .. Len(t)
        PROVE  t[c] \in ToSet(a) \cup ToSet(b)
    <3>1. c \in 1 .. Len(a) => t[c] \in ToSet(a)
      BY <1>1, <1>2
    <3>2. c \notin 1 .. Len(a) => t[c] \in ToSet(b)
      BY <1>1, <1>2
    <3> QED
      BY <3>1, <3>2
  <2> QED
    BY <1>2, <2>1
<1>4. ToSet(a) \cup ToSet(b) \subseteq ToSet(t)
  <2>1. \A c \in 1 .. Len(a) : a[c] \in ToSet(t)
    <3>1. ASSUME NEW c \in 1 .. Len(a)
          PROVE  a[c] \in ToSet(t)
      <4>1. c \in 1 .. Len(t) /\ t[c] = a[c]
        BY <1>1
      <4> QED
        BY <1>2, <4>1
    <3> QED
      BY <3>1
  <2>2. \A c \in 1 .. Len(b) : b[c] \in ToSet(t)
    <3>1. ASSUME NEW c \in 1 .. Len(b)
          PROVE  b[c] \in ToSet(t)
      <4>1. Len(a) + c \in 1 .. Len(t) /\ t[Len(a) + c] = b[c]
        BY <1>1
      <4> QED
        BY <1>2, <4>1
    <3> QED
      BY <3>1
  <2> QED
    BY <1>2, <2>1, <2>2
<1> QED
  BY <1>3, <1>4 DEF t

LEMMA JoinRises ==
  ASSUME NEW a, NEW b, Rises(a), Rises(b), \A x \in ToSet(a), y \in ToSet(b) : Over(x.id, y.id)
  PROVE  Rises(a \o b)
<1> DEFINE t == a \o b
           l == Len(a)
<1>0. Listed(a) /\ Listed(b)
  BY DEF Rises
<1>1. /\ Listed(t) /\ l \in Nat
      /\ \A c \in 1 .. l : c \in 1 .. Len(t) /\ t[c] = a[c]
      /\ \A c \in 1 .. Len(t) : c \in 1 .. l \/ (c - l \in 1 .. Len(b) /\ t[c] = b[c - l])
  BY ONLY JoinedListed, <1>0
<1>2. /\ \A i \in 1 .. l : a[i] \in ToSet(a)
      /\ \A i \in 1 .. Len(b) : b[i] \in ToSet(b)
  BY <1>0, SetOfListed
<1> HIDE DEF t, l
<1>3. ASSUME NEW k \in 1 .. Len(t), NEW m \in 1 .. Len(t), k < m
      PROVE  Over(t[k].id, t[m].id)
  <2>0. Len(t) \in Nat
    BY <1>1 DEF Listed
  <2>1. CASE m \in 1 .. l
    <3>1. k \in 1 .. l /\ t[k] = a[k] /\ t[m] = a[m]
      BY <1>1, <1>3, <2>0, <2>1
    <3> QED
      BY <1>3, <2>1, <3>1 DEF Rises, l
  <2>2. CASE m \notin 1 .. l /\ k \in 1 .. l
    <3>1. t[k] = a[k] /\ m - l \in 1 .. Len(b) /\ t[m] = b[m - l]
      BY <1>1, <2>2
    <3>2. t[k] \in ToSet(a) /\ t[m] \in ToSet(b)
      BY <1>2, <2>2, <3>1
    <3> QED
      BY <3>2
  <2>3. CASE m \notin 1 .. l /\ k \notin 1 .. l
    <3>1. k - l \in 1 .. Len(b) /\ t[k] = b[k - l] /\ m - l \in 1 .. Len(b) /\ t[m] = b[m - l]
      BY <1>1, <2>3
    <3>2. k - l < m - l
      BY <1>1, <1>3, <2>0
    <3> QED
      BY <3>1, <3>2 DEF Rises
  <2> QED
    BY <2>1, <2>2, <2>3
<1>4. Rises(t)
  BY <1>1, <1>3 DEF Rises
<1> QED
  BY <1>4 DEF t

\* The sequences of ss rise, and each before the ones behind it.
Stairs(ss) ==
  /\ Listed(ss)
  /\ \A k \in 1 .. Len(ss) : Rises(ss[k])
  /\ \A k, l \in 1 .. Len(ss) : k < l => \A x \in ToSet(ss[k]), y \in ToSet(ss[l]) : Over(x.id, y.id)

LEMMA FlattenListed ==
  ASSUME NEW ss, Listed(ss), \A k \in 1 .. Len(ss) : Listed(ss[k])
  PROVE  Listed(FlattenSeq(ss)) /\ \E at : Laid(FlattenSeq(ss), ss, at)
<1> DEFINE X == UNION {{ss[k][c] : c \in 1 .. Len(ss[k])} : k \in 1 .. Len(ss)}
           n == Len(ss)
<1>1. ASSUME NEW k \in 1 .. n
      PROVE  ss[k] \in Seq(X)
  <2>1. ss[k] \in Seq({ss[k][c] : c \in 1 .. Len(ss[k])})
    BY ListedSeq
  <2> DEFINE Y == {ss[k][c] : c \in 1 .. Len(ss[k])}
  <2>2. Y \subseteq X
    OBVIOUS
  <2>3. ss[k] \in Seq(Y)
    BY <2>1
  <2> HIDE DEF X, Y
  <2> QED
    BY ONLY <2>2, <2>3, SeqWider
<1> HIDE DEF X, n
<1>2. ss \in [1 .. n -> Seq(X)] /\ n \in Nat
  BY <1>1 DEF Listed, n
<1>3. ss \in Seq(Seq(X))
  BY <1>2
<1> QED
  BY <1>3, FlattenLays, SeqListed

\* The elements of a flattened sequence are those of its sequences.
LEMMA FlattenElements ==
  ASSUME NEW ss, Listed(ss), \A k \in 1 .. Len(ss) : Listed(ss[k])
  PROVE  ToSet(FlattenSeq(ss)) = UNION {ToSet(ss[k]) : k \in 1 .. Len(ss)}
<1> DEFINE t == FlattenSeq(ss)
           n == Len(ss)
<1>1. Listed(t)
  BY FlattenListed
<1>2. PICK at : LaidTo(t, ss, n, at)
  BY FlattenListed DEF Laid
<1> HIDE DEF t, n
<1>3. /\ \A i \in 1 .. Len(t) : /\ at[i][1] \in 1 .. n /\ at[i][2] \in 1 .. Len(ss[at[i][1]])
                                /\ t[i] = ss[at[i][1]][at[i][2]]
      /\ \A k \in 1 .. n : \A c \in 1 .. Len(ss[k]) : \E i \in 1 .. Len(t) : at[i] = <<k, c>>
  BY <1>2 DEF LaidTo
<1>4. /\ ToSet(t) = {t[i] : i \in 1 .. Len(t)}
      /\ \A k \in 1 .. n : ToSet(ss[k]) = {ss[k][c] : c \in 1 .. Len(ss[k])}
  BY <1>1, SetOfListed DEF n
<1>5. ASSUME NEW i \in 1 .. Len(t)
      PROVE  t[i] \in UNION {ToSet(ss[k]) : k \in 1 .. n}
  <2>1. /\ at[i][1] \in 1 .. n /\ at[i][2] \in 1 .. Len(ss[at[i][1]])
        /\ t[i] = ss[at[i][1]][at[i][2]]
    BY <1>3
  <2>2. t[i] \in ToSet(ss[at[i][1]])
    BY <1>4, <2>1
  <2> QED
    BY <2>1, <2>2
<1>6. ASSUME NEW k \in 1 .. n, NEW c \in 1 .. Len(ss[k])
      PROVE  ss[k][c] \in ToSet(t)
  <2>1. PICK i \in 1 .. Len(t) : at[i] = <<k, c>>
    BY <1>3
  <2>2. t[i] = ss[k][c]
    BY <1>3, <2>1
  <2> QED
    BY <1>4, <2>2
<1>7. ToSet(t) \subseteq UNION {ToSet(ss[k]) : k \in 1 .. n}
  BY <1>4, <1>5
<1>8. \A k \in 1 .. n : ToSet(ss[k]) \subseteq ToSet(t)
  <2>1. ASSUME NEW k \in 1 .. n, NEW x \in ToSet(ss[k])
        PROVE  x \in ToSet(t)
    <3>1. ToSet(ss[k]) = {ss[k][c] : c \in 1 .. Len(ss[k])}
      BY <1>4
    <3>2. PICK c \in 1 .. Len(ss[k]) : x = ss[k][c]
      BY <3>1
    <3> QED
      BY <1>6, <3>2
  <2> QED
    BY <2>1
<1>9. ToSet(t) = UNION {ToSet(ss[k]) : k \in 1 .. n}
  BY ONLY <1>7, <1>8
<1> QED
  BY <1>9 DEF t, n

LEMMA FlattenRises ==
  ASSUME NEW ss, Stairs(ss)
  PROVE  Rises(FlattenSeq(ss))
<1> DEFINE t == FlattenSeq(ss)
           n == Len(ss)
<1>0. Listed(ss) /\ \A k \in 1 .. n : Listed(ss[k])
  BY DEF Stairs, Rises
<1>1. Listed(t)
  BY <1>0, FlattenListed
<1>2. PICK at : LaidTo(t, ss, n, at)
  BY <1>0, FlattenListed DEF Laid
<1> HIDE DEF t, n
<1>3. /\ \A i \in 1 .. Len(t) : /\ at[i][1] \in 1 .. n /\ at[i][2] \in 1 .. Len(ss[at[i][1]])
                                /\ t[i] = ss[at[i][1]][at[i][2]]
      /\ \A i, j \in 1 .. Len(t) : i < j => Earlier(at[i], at[j])
  BY <1>2 DEF LaidTo
<1>4. \A k \in 1 .. n : \A c \in 1 .. Len(ss[k]) : ss[k][c] \in ToSet(ss[k])
  BY <1>0, SetOfListed DEF n
<1>5. ASSUME NEW i \in 1 .. Len(t), NEW j \in 1 .. Len(t), i < j
      PROVE  Over(t[i].id, t[j].id)
  <2> DEFINE k == at[i][1]
             l == at[j][1]
             c == at[i][2]
             d == at[j][2]
  <2>1. /\ k \in 1 .. n /\ c \in 1 .. Len(ss[k]) /\ t[i] = ss[k][c]
        /\ l \in 1 .. n /\ d \in 1 .. Len(ss[l]) /\ t[j] = ss[l][d]
    BY <1>3
  <2>2. k < l \/ (k = l /\ c < d)
    BY <1>3, <1>5 DEF Earlier
  <2> HIDE DEF k, l, c, d
  <2>3. CASE k < l
    <3>1. t[i] \in ToSet(ss[k]) /\ t[j] \in ToSet(ss[l])
      BY <1>4, <2>1
    <3> QED
      BY <2>1, <2>3, <3>1 DEF Stairs, n
  <2>4. CASE k = l /\ c < d
    <3>1. Rises(ss[k])
      BY <2>1 DEF Stairs, n
    <3> QED
      BY <2>1, <2>4, <3>1 DEF Rises
  <2> QED
    BY <2>2, <2>3, <2>4
<1>6. Rises(t)
  BY <1>1, <1>5 DEF Rises
<1> QED
  BY <1>6 DEF t

Normed(p) == {s \in 1 .. Len(p.entries) : p.entries[s].norm}
SourceView(p, s) ==
  [id |-> s, role |-> ViewRole(p.entries[s].type), notice |-> p.entries[s].type = "notice",
   parts |-> [j \in 1 .. Len(p.entries[s].origins) |-> ViewPart(p.entries[s].origins[j])]]

\* The first view has the sources that have a message, in order.
LEMMA InitialViewIs ==
  ASSUME NEW p, Len(p.entries) \in Nat
  PROVE  /\ InSourceOrder(p, InitialView(p))
         /\ ToSet(InitialView(p)) = {SourceView(p, s) : s \in Normed(p)}
<1> DEFINE n == Len(p.entries)
           S == Normed(p)
           in == InOrder(S)
           v == InitialView(p)
           l == Len(in)
           x(s) == SourceView(p, s)
<1>1. S \subseteq 0 .. n /\ n \in Nat /\ \A s \in S : s \in 1 .. n /\ p.entries[s].norm
  BY DEF Normed
<1>2. v = [k \in 1 .. l |-> x(in[k])]
  BY DEF InitialView, Normed, SourceView
<1> HIDE DEF S, in, v, n
<1>3. Ascends(in, S)
  BY <1>1, InOrderAscends DEF in
<1>4. /\ l \in Nat /\ \A k \in 1 .. l : in[k] \in S
      /\ \A s \in S : \E k \in 1 .. l : in[k] = s
      /\ \A k, m \in 1 .. l : k < m => in[k] < in[m]
  BY <1>3 DEF Ascends
<1> HIDE DEF l
<1>5. \A s : x(s).id = s
  BY DEF SourceView
<1> HIDE DEF x
<1>6. Len(v) = l /\ Listed(v) /\ \A k \in 1 .. l : v[k] = x(in[k])
  <2>1. Len(v) = l /\ \A k \in 1 .. l : v[k] = x(in[k])
    BY <1>2, <1>4
  <2> QED
    BY <1>2, <1>4, <2>1 DEF Listed
<1>7. ToSet(v) = {x(s) : s \in S}
  <2>1. ToSet(v) = {v[k] : k \in 1 .. l}
    BY <1>6, SetOfListed
  <2>2. \A k \in 1 .. l : v[k] \in {x(s) : s \in S}
    BY <1>4, <1>6
  <2>3. ASSUME NEW s \in S
        PROVE  x(s) \in ToSet(v)
    <3>1. PICK k \in 1 .. l : in[k] = s
      BY <1>4
    <3>2. v[k] = x(s)
      BY <1>6, <3>1
    <3> QED
      BY <2>1, <3>2
  <2> QED
    BY <2>1, <2>2, <2>3
<1>8. ASSUME NEW k \in 1 .. l, NEW m \in 1 .. l, k < m
      PROVE  Over(v[k].id, v[m].id)
  <2>1. v[k].id = in[k] /\ v[m].id = in[m]
    BY <1>5, <1>6
  <2>2. in[k] \in Int /\ in[m] \in Int /\ in[k] < in[m]
    <3>1. in[k] \in S /\ in[m] \in S /\ in[k] < in[m]
      BY <1>4, <1>8
    <3>2. \A s \in 1 .. n : s \in Int
      BY <1>1
    <3> QED
      BY <1>1, <3>1, <3>2
  <2> QED
    BY <2>1, <2>2 DEF Over
<1>9. ASSUME NEW k \in 1 .. l
      PROVE  SourceId(p, v[k].id)
  <2>1. v[k].id = in[k] /\ in[k] \in S
    BY <1>4, <1>5, <1>6
  <2> QED
    BY <1>1, <2>1 DEF SourceId, n
<1>10. InSourceOrder(p, v)
  BY <1>6, <1>8, <1>9 DEF InSourceOrder, Rises
<1> QED
  BY <1>7, <1>10 DEF v, S, x

Copies(p, S) ==
  [k \in 1 .. Cardinality(S) |-> CHOOSE msg \in ToSet(InitialView(p)) : msg.id = InOrder(S)[k]]

\* The copies put back for the sources in S are the sources' first messages, in order.
LEMMA CopiesAre ==
  ASSUME NEW p, Len(p.entries) \in Nat, NEW S, S \subseteq Normed(p)
  PROVE  Rises(Copies(p, S)) /\ ToSet(Copies(p, S)) = {SourceView(p, s) : s \in S}
<1> DEFINE n == Len(p.entries)
           in == InOrder(S)
           l == Cardinality(S)
           v == Copies(p, S)
           x(s) == SourceView(p, s)
<1>1. S \subseteq 0 .. n /\ n \in Nat /\ \A s \in S : s \in 1 .. n /\ s \in Normed(p)
  <2>1. n \in Nat /\ \A s \in S : s \in Normed(p)
    OBVIOUS
  <2>2. \A s \in Normed(p) : s \in 1 .. n
    BY DEF Normed
  <2> HIDE DEF n
  <2>3. \A s \in 1 .. n : s \in 0 .. n
    BY <2>1
  <2> QED
    BY <2>1, <2>2, <2>3
<1>2. \A s : x(s).id = s
  BY DEF SourceView
<1>3. ToSet(InitialView(p)) = {x(s) : s \in Normed(p)}
  BY InitialViewIs
<1> HIDE DEF n, in, l, v
<1>4. Ascends(in, S) /\ Len(in) = l
  BY <1>1, InOrderAscends DEF in, l
<1>5. /\ l \in Nat /\ \A k \in 1 .. l : in[k] \in S
      /\ \A s \in S : \E k \in 1 .. l : in[k] = s
      /\ \A k, m \in 1 .. l : k < m => in[k] < in[m]
  BY <1>4 DEF Ascends
<1>6. v = [k \in 1 .. l |-> CHOOSE msg \in ToSet(InitialView(p)) : msg.id = in[k]]
  BY DEF v, Copies, l, in
<1>7. ASSUME NEW k \in 1 .. l
      PROVE  (CHOOSE msg \in ToSet(InitialView(p)) : msg.id = in[k]) = x(in[k])
  <2>1. in[k] \in Normed(p)
    BY <1>1, <1>5
  <2> HIDE DEF x
  <2>2. x(in[k]) \in ToSet(InitialView(p)) /\ x(in[k]).id = in[k]
    BY <1>2, <1>3, <2>1
  <2>3. \A msg \in ToSet(InitialView(p)) : msg.id = in[k] => msg = x(in[k])
    BY <1>2, <1>3
  <2> QED
    BY <2>2, <2>3
<1> HIDE DEF x
<1>8. v = [k \in 1 .. l |-> x(in[k])]
  BY <1>6, <1>7
<1>9. Len(v) = l /\ Listed(v) /\ \A k \in 1 .. l : v[k] = x(in[k])
  <2>1. Len(v) = l /\ \A k \in 1 .. l : v[k] = x(in[k])
    BY <1>5, <1>8
  <2> QED
    BY <1>5, <1>8, <2>1 DEF Listed
<1>10. ToSet(v) = {x(s) : s \in S}
  <2>1. ToSet(v) = {v[k] : k \in 1 .. l}
    BY <1>9, SetOfListed
  <2>2. \A k \in 1 .. l : v[k] \in {x(s) : s \in S}
    BY <1>5, <1>9
  <2>3. ASSUME NEW s \in S
        PROVE  x(s) \in ToSet(v)
    <3>1. PICK k \in 1 .. l : in[k] = s
      BY <1>5
    <3>2. v[k] = x(s)
      BY <1>9, <3>1
    <3> QED
      BY <2>1, <3>2
  <2> QED
    BY <2>1, <2>2, <2>3
<1>11. ASSUME NEW k \in 1 .. l, NEW m \in 1 .. l, k < m
       PROVE  Over(v[k].id, v[m].id)
  <2>1. v[k].id = in[k] /\ v[m].id = in[m]
    BY <1>2, <1>9
  <2>2. in[k] \in Int /\ in[m] \in Int /\ in[k] < in[m]
    <3>1. in[k] \in S /\ in[m] \in S /\ in[k] < in[m]
      BY <1>5, <1>11
    <3>2. \A s \in 1 .. n : s \in Int
      BY <1>1
    <3> QED
      BY <1>1, <3>1, <3>2
  <2> QED
    BY <2>1, <2>2 DEF Over
<1>12. Rises(v)
  BY <1>9, <1>11 DEF Rises
<1> QED
  BY <1>10, <1>12 DEF v, x

-----------------------------------------------------------------------------
(* restoreMissingV2OpaqueSources.                                          *)

SourcesAt(p, v) == {k \in 1 .. Len(v) : IsSource(p, v[k])}
UpTo(p, v, k) == {s \in Missing(p, v) : /\ s < v[k].id
                                        /\ \A j \in SourcesAt(p, v) : j < k => s > v[j].id}
Rest(p, v, k) == {s \in Missing(p, v) : s > v[k].id}
Segment(p, v, k) ==
  (IF k \in SourcesAt(p, v) THEN Copies(p, UpTo(p, v, k)) ELSE <<>>) \o <<v[k]>>
  \o (IF k = Max(SourcesAt(p, v)) THEN Copies(p, Rest(p, v, k)) ELSE <<>>)

LEMMA RestoredAs ==
  ASSUME NEW p, NEW v
  PROVE  Restored(p, v) = IF SourcesAt(p, v) = {} THEN v \o Copies(p, Missing(p, v))
                          ELSE FlattenSeq([k \in 1 .. Len(v) |-> Segment(p, v, k)])
BY Zenon DEF Restored, SourcesAt, Segment, Copies, UpTo, Rest

\* The sources put back around view message k.
Around(p, v, k) ==
  (IF k \in SourcesAt(p, v) THEN UpTo(p, v, k) ELSE {})
  \cup (IF k = Max(SourcesAt(p, v)) THEN Rest(p, v, k) ELSE {})

LEMMA SegmentIs ==
  ASSUME NEW p, Listed(p.entries), NEW v, InSourceOrder(p, v), NEW k \in 1 .. Len(v),
         SourcesAt(p, v) # {}
  PROVE  /\ Rises(Segment(p, v, k))
         /\ ToSet(Segment(p, v, k)) = {v[k]} \cup {SourceView(p, s) : s \in Around(p, v, k)}
<1> DEFINE n == Len(p.entries)
           x(s) == SourceView(p, s)
           miss == Missing(p, v)
           at == SourcesAt(p, v)
           up == IF k \in at THEN UpTo(p, v, k) ELSE {}
           rest == IF k = Max(at) THEN Rest(p, v, k) ELSE {}
           a == IF k \in at THEN Copies(p, UpTo(p, v, k)) ELSE <<>>
           b == <<v[k]>>
           c == IF k = Max(at) THEN Copies(p, Rest(p, v, k)) ELSE <<>>
<1>1. n \in Nat /\ DOMAIN p.entries = 1 .. n
  BY SetOfListed DEF Listed
<1>2. miss \subseteq Normed(p) /\ \A s \in miss : s \in 1 .. n /\ s # Suffix /\ s \in Int
  BY <1>1 DEF Missing, Protected, Normed, Suffix
<1>3. \A s : x(s).id = s
  BY DEF SourceView
<1>4. Rises(<<>>) /\ ToSet(<<>>) = {}
  BY DEF Rises, Listed, ToSet
<1>5. Rises(b) /\ ToSet(b) = {v[k]}
  BY DEF Rises, Listed, ToSet
<1>6. Rises(a) /\ ToSet(a) = {x(s) : s \in up}
  <2>1. UpTo(p, v, k) \subseteq Normed(p)
    BY <1>2 DEF UpTo
  <2>2. Rises(Copies(p, UpTo(p, v, k))) /\ ToSet(Copies(p, UpTo(p, v, k))) = {x(s) : s \in UpTo(p, v, k)}
    BY <1>1, <2>1, CopiesAre
  <2> QED
    BY <1>4, <2>2
<1>7. Rises(c) /\ ToSet(c) = {x(s) : s \in rest}
  <2>1. Rest(p, v, k) \subseteq Normed(p)
    BY <1>2 DEF Rest
  <2>2. Rises(Copies(p, Rest(p, v, k))) /\ ToSet(Copies(p, Rest(p, v, k))) = {x(s) : s \in Rest(p, v, k)}
    BY <1>1, <2>1, CopiesAre
  <2> QED
    BY <1>4, <2>2
<1>8. at \subseteq 0 .. Len(v) /\ Len(v) \in Nat
  BY DEF SourcesAt, InSourceOrder, Rises, Listed
<1>9. k = Max(at) => k \in at
  BY <1>8, Extremes
<1>10. k \in at => v[k].id \in 1 .. n
  BY <1>1 DEF SourcesAt, IsSource
<1>11. /\ \A s \in up : s \in 1 .. n /\ s < v[k].id /\ k \in at
       /\ \A s \in rest : s \in 1 .. n /\ s > v[k].id /\ k \in at
  BY <1>2, <1>9 DEF UpTo, Rest
<1> HIDE DEF n, x, miss, at, up, rest, a, b, c
<1>12. \A s \in up : Over(s, v[k].id)
  BY <1>1, <1>10, <1>11 DEF Over
<1>13. \A s \in rest : Over(v[k].id, s)
  BY <1>1, <1>10, <1>11 DEF Over
<1>14. \A s \in up, t \in rest : Over(s, t)
  BY <1>1, <1>10, <1>11 DEF Over
<1>15. Rises(a \o b)
  BY <1>3, <1>5, <1>6, <1>12, JoinRises
<1>16. ToSet(a \o b) = {x(s) : s \in up} \cup {v[k]}
  BY <1>5, <1>6, JoinedElements DEF Rises
<1>17. Rises((a \o b) \o c)
  <2>1. \A y \in ToSet(a \o b), z \in ToSet(c) : Over(y.id, z.id)
    BY <1>3, <1>7, <1>13, <1>14, <1>16
  <2> QED
    BY <1>7, <1>15, <2>1, JoinRises
<1>18. ToSet((a \o b) \o c) = {x(s) : s \in up} \cup {v[k]} \cup {x(s) : s \in rest}
  BY <1>7, <1>15, <1>16, JoinedElements DEF Rises
<1>19. Segment(p, v, k) = (a \o b) \o c
  BY DEF Segment, a, b, c, at
<1>20. Around(p, v, k) = up \cup rest
  BY DEF Around, up, rest, at
<1> QED
  BY <1>17, <1>18, <1>19, <1>20 DEF x

\* Every missing source is put back around some message.
LEMMA AroundCovers ==
  ASSUME NEW p, Listed(p.entries), NEW v, InSourceOrder(p, v), SourcesAt(p, v) # {},
         NEW s \in Missing(p, v)
  PROVE  \E k \in 1 .. Len(v) : s \in Around(p, v, k)
<1> DEFINE n == Len(p.entries)
           at == SourcesAt(p, v)
           above == {k \in at : s < v[k].id}
<1>1. n \in Nat /\ DOMAIN p.entries = 1 .. n
  BY SetOfListed DEF Listed
<1>2. at \subseteq 0 .. Len(v) /\ Len(v) \in Nat /\ \A k \in at : k \in 1 .. Len(v)
  BY DEF SourcesAt, InSourceOrder, Rises, Listed
<1>3. \A k \in at : v[k].id \in 1 .. n /\ v[k].id # s
  BY <1>1 DEF SourcesAt, IsSource, Missing
<1>4. s \in 1 .. n
  BY <1>1 DEF Missing, Protected
<1>5. CASE above # {}
  <2> DEFINE k == Min(above)
  <2>1. above \subseteq 0 .. Len(v)
    BY <1>2
  <2> HIDE DEF above
  <2>2. k \in above /\ \A j \in above : k <= j
    BY <1>2, <1>5, <2>1, Extremes
  <2> HIDE DEF k
  <2>3. k \in at /\ s < v[k].id
    BY <2>2 DEF above
  <2>4. ASSUME NEW j \in at, j < k
        PROVE  s > v[j].id
    <3>1. j \notin above
      <4>1. j \in Int /\ k \in Int /\ ~(k <= j)
        BY <1>2, <2>3, <2>4
      <4> QED
        BY <2>2, <4>1
    <3>2. ~(s < v[j].id)
      BY <3>1 DEF above
    <3>3. v[j].id \in 1 .. n /\ v[j].id # s
      BY <1>3
    <3> QED
      BY <1>1, <1>4, <3>2, <3>3
  <2>5. s \in UpTo(p, v, k)
    BY <2>3, <2>4 DEF UpTo
  <2>6. s \in Around(p, v, k)
    BY <2>3, <2>5 DEF Around
  <2> QED
    BY <1>2, <2>3, <2>6
<1>6. CASE above = {}
  <2> DEFINE k == Max(at)
  <2>1. k \in at
    <3> HIDE DEF at
    <3> QED
      BY <1>2, Extremes DEF at
  <2>2. ~(s < v[k].id)
    BY <1>6, <2>1
  <2> HIDE DEF k, at, above
  <2>3. s > v[k].id
    BY <1>1, <1>3, <1>4, <2>1, <2>2
  <2>4. s \in Rest(p, v, k)
    BY <2>3 DEF Rest
  <2>5. s \in Around(p, v, k)
    BY <2>4 DEF Around, k, at
  <2> QED
    BY <1>2, <2>1, <2>5
<1> QED
  BY <1>5, <1>6

\* Restoring adds the missing sources, each in its place.
LEMMA RestoredIs ==
  ASSUME NEW p, Listed(p.entries), NEW v, InSourceOrder(p, v)
  PROVE  /\ InSourceOrder(p, Restored(p, v))
         /\ ToSet(Restored(p, v)) = ToSet(v) \cup {SourceView(p, s) : s \in Missing(p, v)}
<1> DEFINE n == Len(p.entries)
           x(s) == SourceView(p, s)
           miss == Missing(p, v)
           at == SourcesAt(p, v)
           t == Restored(p, v)
<1>1. n \in Nat /\ DOMAIN p.entries = 1 .. n
  BY SetOfListed DEF Listed
<1>2. miss \subseteq Normed(p) /\ \A s \in miss : s \in 1 .. n /\ p.entries[s].norm
  BY <1>1 DEF Missing, Protected, Normed
<1>3. \A s : x(s).id = s
  BY DEF SourceView
<1>4. Rises(v) /\ Listed(v) /\ Len(v) \in Nat /\ \A k \in 1 .. Len(v) : SourceId(p, v[k].id)
  BY DEF InSourceOrder, Rises, Listed
<1>5. ToSet(v) = {v[k] : k \in 1 .. Len(v)}
  BY <1>4, SetOfListed
<1>6. Rises(t) /\ ToSet(t) = ToSet(v) \cup {x(s) : s \in miss}
  <2>1. CASE at = {}
    <3> DEFINE c == Copies(p, miss)
    <3>1. t = v \o c
      BY <2>1, RestoredAs
    <3>2. Rises(c) /\ ToSet(c) = {x(s) : s \in miss}
      BY <1>1, <1>2, CopiesAre
    <3>3. \A k \in 1 .. Len(v) : v[k].id = Suffix
      BY <1>1, <1>4, <2>1 DEF SourceId, SourcesAt, IsSource
    <3>4. \A s \in miss : Over(Suffix, s)
      BY <1>1, <1>2 DEF Over, Suffix
    <3> HIDE DEF c, t, miss, x
    <3>5. \A y \in ToSet(v), z \in ToSet(c) : Over(y.id, z.id)
      BY <1>3, <1>5, <3>2, <3>3, <3>4
    <3>6. Rises(v \o c)
      BY <1>4, <3>2, <3>5, JoinRises
    <3>7. ToSet(v \o c) = ToSet(v) \cup ToSet(c)
      BY <1>4, <3>2, JoinedElements DEF Rises
    <3> QED
      BY <3>1, <3>2, <3>6, <3>7
  <2>2. CASE at # {}
    <3> DEFINE ss == [k \in 1 .. Len(v) |-> Segment(p, v, k)]
               around(k) == Around(p, v, k)
    <3>1. t = FlattenSeq(ss)
      BY <2>2, RestoredAs
    <3>2. Listed(ss) /\ Len(ss) = Len(v) /\ \A k \in 1 .. Len(v) : ss[k] = Segment(p, v, k)
      <4>1. Len(ss) = Len(v) /\ \A k \in 1 .. Len(v) : ss[k] = Segment(p, v, k)
        BY <1>4
      <4>2. ss = [k \in 1 .. Len(v) |-> ss[k]]
        OBVIOUS
      <4> HIDE DEF ss
      <4> QED
        BY <1>4, <4>1, <4>2 DEF Listed
    <3>3. ASSUME NEW k \in 1 .. Len(v)
          PROVE  Rises(ss[k]) /\ ToSet(ss[k]) = {v[k]} \cup {x(s) : s \in around(k)}
      <4>1. Rises(Segment(p, v, k)) /\ ToSet(Segment(p, v, k)) = {v[k]} \cup {x(s) : s \in around(k)}
        BY <2>2, SegmentIs
      <4> QED
        BY <3>2, <4>1
    <3>4. at \subseteq 0 .. Len(v) /\ \A k \in at : k \in 1 .. Len(v)
      BY <1>4 DEF SourcesAt
    <3>5. Max(at) \in at /\ \A k \in at : k <= Max(at)
      <4> HIDE DEF at
      <4> QED
        BY <1>4, <2>2, <3>4, Extremes
    <3>6. ASSUME NEW k \in 1 .. Len(v), NEW s \in around(k)
          PROVE  /\ s \in miss /\ k \in at
                 /\ \/ s < v[k].id /\ \A j \in at : j < k => s > v[j].id
                    \/ k = Max(at) /\ s > v[k].id
      <4> HIDE DEF around, at, miss
      <4>1. CASE k \in at /\ s \in UpTo(p, v, k)
        BY <4>1 DEF UpTo, at, miss
      <4>2. CASE k = Max(at) /\ s \in Rest(p, v, k)
        BY <3>5, <4>2 DEF Rest, miss
      <4> QED
        BY <4>1, <4>2 DEF Around, around, at
    <3>7. \A k \in 1 .. Len(v) : k \in at <=> v[k].id \in 1 .. n
      BY <1>1 DEF SourcesAt, IsSource
    <3> HIDE DEF ss, around, at, miss, x, t
    <3>8. ASSUME NEW k \in 1 .. Len(v), NEW l \in 1 .. Len(v), k < l,
                 NEW y \in ToSet(ss[k]), NEW z \in ToSet(ss[l])
          PROVE  Over(y.id, z.id)
      <4>1. y = v[k] \/ \E s \in around(k) : y = x(s)
        BY <3>3
      <4>2. z = v[l] \/ \E s \in around(l) : z = x(s)
        BY <3>3
      <4>3. Over(v[k].id, v[l].id)
        BY <1>4, <3>8 DEF Rises
      <4>4. Suffix \notin 1 .. n /\ \A i \in 1 .. n : i \in Int
        BY <1>1 DEF Suffix
      <4>5. \A i \in 1 .. Len(v) : i \in at => v[i].id \in 1 .. n
        BY <3>7
      <4>6. \A i \in 1 .. Len(v) : i \notin at => v[i].id = Suffix
        BY <1>4, <3>7 DEF SourceId, n
      <4>7. CASE k \notin at
        <5>1. y = v[k] /\ v[k].id = Suffix
          BY <3>6, <4>1, <4>6, <4>7
        <5>2. CASE z = v[l]
          BY <4>3, <5>1, <5>2
        <5>3. CASE \E s \in around(l) : z = x(s)
          <6>1. z.id \in 1 .. n
            BY <1>2, <1>3, <3>6, <5>3
          <6> QED
            BY <4>4, <5>1, <6>1 DEF Over
        <5> QED
          BY <4>2, <5>2, <5>3
      <4>8. CASE k \in at /\ l \notin at
        <5>1. z = v[l] /\ v[l].id = Suffix
          BY <3>6, <4>2, <4>6, <4>8
        <5>2. y.id \in 1 .. n
          <6>1. CASE y = v[k]
            BY <4>5, <4>8, <6>1
          <6>2. CASE \E s \in around(k) : y = x(s)
            BY <1>2, <1>3, <3>6, <6>2
          <6> QED
            BY <4>1, <6>1, <6>2
        <5> QED
          BY <4>4, <5>1, <5>2 DEF Over
      <4>9. CASE k \in at /\ l \in at
        <5>1. k # Max(at)
          BY <3>5, <3>8, <4>9
        <5>2. v[k].id \in 1 .. n /\ v[l].id \in 1 .. n /\ v[k].id < v[l].id
          BY <4>3, <4>4, <4>5, <4>9 DEF Over
        <5>3. y.id \in 1 .. n /\ y.id <= v[k].id
          <6>1. CASE y = v[k]
            BY <4>4, <5>2, <6>1
          <6>2. CASE \E s \in around(k) : y = x(s)
            <7>1. PICK s \in around(k) : y = x(s)
              BY <6>2
            <7>2. s \in miss /\ s < v[k].id
              BY <3>6, <5>1
            <7>3. y.id = s /\ s \in 1 .. n
              BY <1>2, <1>3, <7>1, <7>2
            <7> QED
              BY <4>4, <5>2, <7>2, <7>3
          <6> QED
            BY <4>1, <6>1, <6>2
        <5>4. z.id \in 1 .. n /\ v[k].id < z.id
          <6>1. CASE z = v[l]
            BY <5>2, <6>1
          <6>2. CASE \E s \in around(l) : z = x(s)
            <7>1. PICK s \in around(l) : z = x(s)
              BY <6>2
            <7>2. /\ s \in miss
                  /\ \/ s < v[l].id /\ \A j \in at : j < l => s > v[j].id
                     \/ l = Max(at) /\ s > v[l].id
              BY <3>6
            <7>3. z.id = s /\ s \in 1 .. n
              BY <1>2, <1>3, <7>1, <7>2
            <7>4. s > v[k].id
              BY <3>8, <4>4, <4>9, <5>2, <7>2, <7>3
            <7> QED
              BY <4>4, <5>2, <7>3, <7>4
          <6> QED
            BY <4>2, <6>1, <6>2
        <5>5. y.id < z.id
          BY <4>4, <5>2, <5>3, <5>4
        <5> QED
          BY <4>4, <5>3, <5>4, <5>5 DEF Over
      <4> QED
        BY <4>7, <4>8, <4>9
    <3>9. Stairs(ss)
      BY <3>2, <3>3, <3>8 DEF Stairs
    <3>10. Rises(t)
      BY <3>1, <3>9, FlattenRises
    <3>11. ToSet(t) = UNION {ToSet(ss[k]) : k \in 1 .. Len(ss)}
      BY <3>1, <3>2, <3>3, FlattenElements DEF Rises
    <3>12. ToSet(t) \subseteq ToSet(v) \cup {x(s) : s \in miss}
      <4>1. ASSUME NEW k \in 1 .. Len(v)
            PROVE  ToSet(ss[k]) \subseteq ToSet(v) \cup {x(s) : s \in miss}
        <5>1. ToSet(ss[k]) = {v[k]} \cup {x(s) : s \in around(k)}
          BY <3>3
        <5>2. v[k] \in ToSet(v)
          BY <1>5
        <5>3. \A s \in around(k) : s \in miss
          BY <3>6
        <5> QED
          BY <5>1, <5>2, <5>3
      <4> QED
        BY <3>2, <3>11, <4>1
    <3>13. ToSet(v) \subseteq ToSet(t)
      <4>1. ASSUME NEW k \in 1 .. Len(v)
            PROVE  v[k] \in ToSet(t)
        <5>1. v[k] \in ToSet(ss[k]) /\ k \in 1 .. Len(ss)
          BY <3>2, <3>3
        <5> QED
          BY <3>11, <5>1
      <4> QED
        BY <1>5, <4>1
    <3>14. {x(s) : s \in miss} \subseteq ToSet(t)
      <4>1. ASSUME NEW s \in miss
            PROVE  x(s) \in ToSet(t)
        <5>1. PICK k \in 1 .. Len(v) : s \in around(k)
          BY <2>2, AroundCovers DEF at, miss, around
        <5>2. x(s) \in ToSet(ss[k]) /\ k \in 1 .. Len(ss)
          BY <3>2, <3>3, <5>1
        <5> QED
          BY <3>11, <5>2
      <4> QED
        BY <4>1
    <3> QED
      BY <3>10, <3>12, <3>13, <3>14
  <2> QED
    BY <2>1, <2>2
<1>7. ASSUME NEW k \in 1 .. Len(t)
      PROVE  SourceId(p, t[k].id)
  <2>1. t[k] \in ToSet(t)
    BY <1>6, SetOfListed DEF Rises
  <2> HIDE DEF t
  <2>2. CASE t[k] \in ToSet(v)
    BY <1>4, <1>5, <2>2
  <2>3. CASE t[k] \in {x(s) : s \in miss}
    <3>1. PICK s \in miss : t[k] = x(s)
      BY <2>3
    <3>2. t[k].id = s
      BY <1>3, <3>1
    <3> QED
      BY <1>2, <3>2 DEF SourceId
  <2> QED
    BY <1>6, <2>1, <2>2, <2>3
<1> QED
  BY <1>6, <1>7 DEF InSourceOrder

-----------------------------------------------------------------------------
(* The transform keeps the order of the sources.                           *)

ViewPartType == [key : Nat \X Nat, kind : Word, val : Word, opaque : BOOLEAN, st : Word,
                 tag : BOOLEAN, inp : BOOLEAN]
ViewMessage == [id : Int, role : Word, notice : BOOLEAN, parts : Seq(ViewPartType)]
Viewed(p, v) == InSourceOrder(p, v) /\ \A k \in 1 .. Len(v) : v[k] \in ViewMessage

\* A view whose messages have the ids of another's is in order if that one is.
LEMMA SameIds ==
  ASSUME NEW p, NEW v, Viewed(p, v), NEW t, t = [k \in 1 .. Len(v) |-> t[k]],
         \A k \in 1 .. Len(v) : t[k] \in ViewMessage /\ t[k].id = v[k].id
  PROVE  Viewed(p, t) /\ Len(t) = Len(v) /\ Len(v) \in Nat
<1> DEFINE n == Len(v)
<1>1. n \in Nat
  BY DEF Viewed, InSourceOrder, Rises, Listed
<1>2. Len(t) = n /\ Listed(t)
  <2> HIDE DEF n
  <2>1. t = [k \in 1 .. n |-> t[k]]
    BY DEF n
  <2>2. Len(t) = n
    BY <1>1, <2>1
  <2> QED
    BY <1>1, <2>1, <2>2 DEF Listed
<1>3. /\ \A k, l \in 1 .. n : k < l => Over(v[k].id, v[l].id)
      /\ \A k \in 1 .. n : SourceId(p, v[k].id)
  BY DEF Viewed, InSourceOrder, Rises
<1>4. \A k, l \in 1 .. n : k < l => Over(t[k].id, t[l].id)
  BY <1>3
<1>5. \A k \in 1 .. n : SourceId(p, t[k].id)
  BY <1>3
<1> QED
  BY <1>1, <1>2, <1>4, <1>5 DEF Viewed, InSourceOrder, Rises

\* So is a part of a view in order.
LEMMA SomeIds ==
  ASSUME NEW p, NEW v, Viewed(p, v), NEW S, S \subseteq 1 .. Len(v)
  PROVE  Viewed(p, At(v, S)) /\ \A k \in 1 .. Len(At(v, S)) : At(v, S)[k] \in ToSet(v)
<1> DEFINE X == {v[k] : k \in 1 .. Len(v)}
           t == At(v, S)
           f == InOrder(S)
<1>1. Listed(v) /\ v \in Seq(X)
  BY ListedSeq DEF Viewed, InSourceOrder, Rises
<1>2. ToSet(v) = X
  BY <1>1, SetOfListed
<1> HIDE DEF X, t, f
<1>3. t \in Seq(X) /\ Picks(t, v, S, f)
  BY <1>1, AtPicks DEF t, f
<1>4. /\ Listed(t) /\ Len(t) = Len(f) /\ \A k \in 1 .. Len(t) : f[k] \in S /\ t[k] = v[f[k]]
      /\ \A k, l \in 1 .. Len(t) : k < l => f[k] < f[l]
  <2>1. Listed(t)
    BY <1>3, SeqListed
  <2> QED
    BY <1>3, <2>1 DEF Picks, Ascends
<1>5. \A k \in S : k \in 1 .. Len(v)
  OBVIOUS
<1>6. /\ \A k, l \in 1 .. Len(v) : k < l => Over(v[k].id, v[l].id)
      /\ \A k \in 1 .. Len(v) : SourceId(p, v[k].id) /\ v[k] \in ViewMessage
  BY DEF Viewed, InSourceOrder, Rises
<1>7. \A k, l \in 1 .. Len(t) : k < l => Over(t[k].id, t[l].id)
  BY <1>4, <1>5, <1>6
<1>8. \A k \in 1 .. Len(t) : SourceId(p, t[k].id) /\ t[k] \in ViewMessage /\ t[k] \in X
  <2>1. \A k \in 1 .. Len(v) : v[k] \in X
    BY DEF X
  <2> QED
    BY <1>4, <1>5, <1>6, <2>1
<1>9. Viewed(p, t)
  BY <1>4, <1>7, <1>8 DEF Viewed, InSourceOrder, Rises
<1> QED
  BY <1>2, <1>8, <1>9 DEF t

\* Other parts leave a message its id.
LEMMA WithParts ==
  ASSUME NEW msg \in ViewMessage, NEW parts \in Seq(ViewPartType)
  PROVE  [msg EXCEPT !.parts = parts] \in ViewMessage /\ [msg EXCEPT !.parts = parts].id = msg.id
BY DEF ViewMessage

LEMMA TaggedIs ==
  ASSUME NEW msg \in ViewMessage, NEW chosen
  PROVE  Tagged(msg, chosen) \in ViewMessage /\ Tagged(msg, chosen).id = msg.id
<1> DEFINE n == Len(msg.parts)
           x(j) == IF j \in chosen THEN [msg.parts[j] EXCEPT !.tag = TRUE] ELSE msg.parts[j]
           parts == [j \in 1 .. n |-> x(j)]
<1>1. n \in Nat /\ \A j \in 1 .. n : msg.parts[j] \in ViewPartType
  BY DEF ViewMessage
<1>2. \A j \in 1 .. n : x(j) \in ViewPartType
  BY <1>1 DEF ViewPartType
<1>3. Tagged(msg, chosen) = [msg EXCEPT !.parts = parts]
  BY DEF Tagged
<1> HIDE DEF n, x
<1>4. parts \in [1 .. n -> ViewPartType]
  BY <1>2
<1> HIDE DEF parts
<1>5. parts \in Seq(ViewPartType)
  BY <1>1, <1>4
<1> QED
  BY <1>3, <1>5, WithParts

LEMMA ViewPartIs ==
  ASSUME NEW key \in Nat \X Nat, NEW kind \in Word, NEW val \in Word, NEW op \in BOOLEAN,
         NEW st \in Word
  PROVE  [key |-> key, kind |-> kind, val |-> val, opaque |-> op, st |-> st, tag |-> FALSE, inp |-> FALSE]
           \in ViewPartType
BY DEF ViewPartType

LEMMA AcpPartIs == AcpPart \in ViewPartType
<1>1. NoPtr \in Nat \X Nat
  BY DEF NoPtr
<1>2. "acp" \in Word /\ "none" \in Word /\ FALSE \in BOOLEAN
  BY DEF Word
<1>3. [key |-> NoPtr, kind |-> "acp", val |-> "acp", opaque |-> FALSE, st |-> "none", tag |-> FALSE,
       inp |-> FALSE] \in ViewPartType
  BY ONLY <1>1, <1>2, ViewPartIs
<1> QED
  BY <1>3 DEF AcpPart

LEMMA WithAcpPartIs ==
  ASSUME NEW msg \in ViewMessage
  PROVE  WithAcpPart(msg) \in ViewMessage /\ WithAcpPart(msg).id = msg.id
<1> DEFINE tool == SelectInSeq(msg.parts, LAMBDA p : p.kind = "tool")
           n == Len(msg.parts)
           I == {i \in 1 .. n : msg.parts[i].kind = "tool"}
<1>0. msg.parts \in Seq(ViewPartType)
  BY ONLY msg \in ViewMessage DEF ViewMessage
<1>1. msg.parts \in Seq(ViewPartType) /\ n \in Nat
  <2> HIDE DEF tool
  <2>1. \A q \in Seq(ViewPartType) : Len(q) \in Nat
    OBVIOUS
  <2> QED
    BY ONLY <1>0, <2>1 DEF n
<1>2. AcpPart \in ViewPartType
  BY AcpPartIs
<1>3. tool # 0 => tool \in 1 .. n
  <2>1. tool = IF I # {} THEN Min(I) ELSE 0
    BY DEF SelectInSeq
  <2>2. I \subseteq 0 .. n /\ I \subseteq 1 .. n
    BY <1>1
  <2> HIDE DEF I, tool, n
  <2>3. I # {} => Min(I) \in I
    BY <1>1, <2>2, Extremes
  <2> QED
    BY <2>1, <2>2, <2>3
<1> HIDE DEF tool
<1>4. tool # 0 => InsertAt(msg.parts, tool, AcpPart) \in Seq(ViewPartType)
  <2>1. ASSUME tool # 0
        PROVE  tool \in 1 .. Len(msg.parts) + 1
    BY <1>1, <1>3, <2>1
  <2> QED
    BY <1>1, <1>2, <2>1, InsertedIs
<1>5. Append(msg.parts, AcpPart) \in Seq(ViewPartType)
  BY <1>1, <1>2
<1>6. \/ tool # 0 /\ WithAcpPart(msg) = [msg EXCEPT !.parts = InsertAt(msg.parts, tool, AcpPart)]
      \/ WithAcpPart(msg) = [msg EXCEPT !.parts = Append(msg.parts, AcpPart)]
  BY DEF WithAcpPart, tool, ViewMessage
<1> QED
  BY <1>4, <1>5, <1>6, WithParts

LEMMA NudgedIs ==
  ASSUME NEW msg \in ViewMessage
  PROVE  InjectAnchoredNudge(msg) \in ViewMessage /\ InjectAnchoredNudge(msg).id = msg.id
<1>1. \/ InjectAnchoredNudge(msg) = msg \/ InjectAnchoredNudge(msg) = WithAcpPart(msg)
      \/ \E S : InjectAnchoredNudge(msg) = Tagged(msg, S)
  BY Zenon DEF InjectAnchoredNudge
<1> QED
  BY <1>1, WithAcpPartIs, TaggedIs

LEMMA ReferencedIs ==
  ASSUME NEW msg \in ViewMessage
  PROVE  InjectMessageId(msg) \in ViewMessage /\ InjectMessageId(msg).id = msg.id
<1>1. \/ InjectMessageId(msg) = msg \/ InjectMessageId(msg) = WithAcpPart(msg)
      \/ \E S : InjectMessageId(msg) = Tagged(msg, S)
  BY Zenon DEF InjectMessageId
<1> QED
  BY <1>1, WithAcpPartIs, TaggedIs

LEMMA DroppedIs ==
  ASSUME NEW p, NEW v, Viewed(p, v), NEW edit, NEW st
  PROVE  /\ Viewed(p, Dropping(v, edit, st)) /\ Len(Dropping(v, edit, st)) = Len(v) /\ Len(v) \in Nat
         /\ \A k \in 1 .. Len(v) : Dropping(v, edit, st)[k].id = v[k].id
<1> DEFINE t == Dropping(v, edit, st)
           n == Len(v)
           S(k) == {j \in 1 .. Len(v[k].parts) : LET q == v[k].parts[j]
                      IN q.key # edit.key \/ ((q.st = "error") # (st = "error"))}
           parts(k) == At(v[k].parts, S(k))
<1>0. n \in Nat /\ v = [k \in 1 .. n |-> v[k]] /\ \A k \in 1 .. n : v[k] \in ViewMessage
  BY DEF Viewed, InSourceOrder, Rises, Listed
<1>1. t = IF edit.op # "drop" THEN v ELSE [k \in 1 .. n |-> [v[k] EXCEPT !.parts = parts(k)]]
  BY DEF Dropping
<1>2. \A k \in 1 .. n : parts(k) \in Seq(ViewPartType)
  <2>1. ASSUME NEW k \in 1 .. n
        PROVE  parts(k) \in Seq(ViewPartType)
    <3>1. v[k].parts \in Seq(ViewPartType)
      BY <1>0 DEF ViewMessage
    <3>2. S(k) \subseteq 1 .. Len(v[k].parts)
      OBVIOUS
    <3> HIDE DEF S
    <3> QED
      BY <3>1, <3>2, AtPicks
  <2> QED
    BY <2>1
<1> HIDE DEF parts, n
<1>3. \A k \in 1 .. n : /\ [v[k] EXCEPT !.parts = parts(k)] \in ViewMessage
                        /\ [v[k] EXCEPT !.parts = parts(k)].id = v[k].id
  BY <1>0, <1>2, WithParts
<1>4. /\ t = [k \in 1 .. n |-> t[k]]
      /\ \A k \in 1 .. n : t[k] \in ViewMessage /\ t[k].id = v[k].id
  <2>1. CASE edit.op # "drop"
    <3>1. t = v
      BY <1>1, <2>1
    <3> HIDE DEF t
    <3> QED
      BY <1>0, <3>1
  <2>2. CASE edit.op = "drop"
    <3>1. t = [k \in 1 .. n |-> [v[k] EXCEPT !.parts = parts(k)]]
      BY <1>1, <2>2
    <3> HIDE DEF t
    <3> QED
      BY <1>3, <3>1
  <2> QED
    BY <2>1, <2>2
<1> HIDE DEF t
<1>5. Viewed(p, t) /\ Len(t) = n
  BY <1>4, SameIds DEF n
<1> QED
  BY <1>0, <1>4, <1>5 DEF t, n

LEMMA EditingIs ==
  ASSUME NEW p, NEW v, Viewed(p, v), NEW edit
  PROVE  Viewed(p, Editing(v, edit))
<1> DEFINE t == Editing(v, edit)
           n == Len(v)
           x(k, j) == LET q == v[k].parts[j]
                      IN IF q.key # edit.key THEN q
                         ELSE CASE edit.op = "output" -> [q EXCEPT !.val = "short"]
                                [] edit.op = "input" -> [q EXCEPT !.inp = TRUE]
                                [] OTHER -> q
           parts(k) == [j \in 1 .. Len(v[k].parts) |-> x(k, j)]
<1>0. n \in Nat /\ \A k \in 1 .. n : v[k] \in ViewMessage
  BY DEF Viewed, InSourceOrder, Rises, Listed
<1>1. t = [k \in 1 .. n |-> [v[k] EXCEPT !.parts = parts(k)]]
  BY DEF Editing
<1>2. ASSUME NEW k \in 1 .. n
      PROVE  parts(k) \in Seq(ViewPartType)
  <2> DEFINE s == v[k].parts
  <2>1. s \in Seq(ViewPartType)
    BY <1>0 DEF ViewMessage
  <2>2. Len(s) \in Nat /\ \A j \in 1 .. Len(s) : s[j] \in ViewPartType
    <3> HIDE DEF s
    <3> QED
      BY <2>1
  <2>3. ASSUME NEW j \in 1 .. Len(s)
        PROVE  x(k, j) \in ViewPartType
    <3> DEFINE q == s[j]
    <3>1. q \in ViewPartType
      BY <2>2
    <3>2. x(k, j) = q \/ x(k, j) = [q EXCEPT !.val = "short"] \/ x(k, j) = [q EXCEPT !.inp = TRUE]
      OBVIOUS
    <3> HIDE DEF q, x
    <3>3. [q EXCEPT !.val = "short"] \in ViewPartType
      <4>1. "short" \in Word
        BY DEF Word
      <4> QED
        BY <3>1, <4>1 DEF ViewPartType
    <3>4. [q EXCEPT !.inp = TRUE] \in ViewPartType
      BY <3>1 DEF ViewPartType
    <3> QED
      BY <3>1, <3>2, <3>3, <3>4
  <2> HIDE DEF x
  <2>4. parts(k) \in [1 .. Len(s) -> ViewPartType]
    BY <2>3
  <2> HIDE DEF parts
  <2> QED
    BY <2>2, <2>4
<1> HIDE DEF parts, n
<1>3. \A k \in 1 .. n : /\ [v[k] EXCEPT !.parts = parts(k)] \in ViewMessage
                        /\ [v[k] EXCEPT !.parts = parts(k)].id = v[k].id
  BY <1>0, <1>2, WithParts
<1> HIDE DEF t
<1>4. /\ t = [k \in 1 .. n |-> t[k]]
      /\ \A k \in 1 .. n : t[k] \in ViewMessage /\ t[k].id = v[k].id
  BY <1>1, <1>3
<1>5. Viewed(p, t)
  BY <1>4, SameIds DEF n
<1> QED
  BY <1>5 DEF t

\* A view without a message of ACP's own.
Sourced(p, v) == Viewed(p, v) /\ \A k \in 1 .. Len(v) : v[k].id # Suffix

LEMMA KeptSome ==
  ASSUME NEW p, NEW v, Viewed(p, v), NEW S, S \subseteq 1 .. Len(v)
  PROVE  /\ Viewed(p, At(v, S))
         /\ Sourced(p, v) => Sourced(p, At(v, S))
<1>1. /\ Viewed(p, At(v, S))
      /\ \A k \in 1 .. Len(At(v, S)) : At(v, S)[k] \in ToSet(v)
  BY SomeIds
<1>2. ToSet(v) = {v[k] : k \in 1 .. Len(v)}
  BY SetOfListed DEF Viewed, InSourceOrder, Rises
<1> QED
  BY <1>1, <1>2 DEF Sourced

LEMMA WithSuffix ==
  ASSUME NEW p, NEW v, Sourced(p, v)
  PROVE  Viewed(p, v \o <<SuffixMessage>>)
<1> DEFINE b == <<SuffixMessage>>
           t == v \o b
           X == {v[k] : k \in 1 .. Len(v)}
<1>1. SuffixMessage \in ViewMessage /\ SuffixMessage.id = Suffix
  <2>1. <<AcpPart>> \in Seq(ViewPartType)
    BY AcpPartIs
  <2>2. "user" \in Word /\ Suffix \in Int
    BY DEF Word, Suffix
  <2>3. \A q \in Seq(ViewPartType), i \in Int, w \in Word :
          [id |-> i, role |-> w, notice |-> FALSE, parts |-> q] \in ViewMessage
    BY DEF ViewMessage
  <2> QED
    BY <2>1, <2>2, <2>3 DEF SuffixMessage
<1> HIDE DEF X
<1>2. Listed(v) /\ Rises(v) /\ ToSet(v) = {v[k] : k \in 1 .. Len(v)}
  BY SetOfListed DEF Sourced, Viewed, InSourceOrder, Rises
<1>3. Len(b) = 1 /\ b[1] = SuffixMessage /\ Listed(b)
  BY DEF Listed
<1>4. ToSet(b) = {SuffixMessage}
  BY <1>3, SetOfListed
<1> HIDE DEF b, t
<1>5. Rises(b)
  BY <1>3 DEF Rises
<1>6. \A x \in ToSet(v), y \in ToSet(b) : Over(x.id, y.id)
  BY <1>1, <1>2, <1>4 DEF Sourced, Over
<1>7. Rises(t)
  BY <1>2, <1>5, <1>6, JoinRises DEF t
<1>8. \A c \in 1 .. Len(t) : (c \in 1 .. Len(v) /\ t[c] = v[c]) \/ t[c] = SuffixMessage
  <2>1. /\ \A c \in 1 .. Len(v) : t[c] = v[c]
        /\ \A c \in 1 .. Len(t) : c \in 1 .. Len(v) \/ (c - Len(v) \in 1 .. Len(b) /\ t[c] = b[c - Len(v)])
    <3>1. Listed(v) /\ Listed(b)
      BY <1>2, <1>3
    <3> QED
      BY ONLY <3>1, JoinedListed DEF t
  <2> QED
    BY <1>3, <2>1
<1>9. \A c \in 1 .. Len(t) : t[c] \in ViewMessage /\ SourceId(p, t[c].id)
  BY <1>1, <1>8 DEF Sourced, Viewed, InSourceOrder, SourceId
<1> QED
  BY <1>7, <1>9 DEF Viewed, InSourceOrder, t, b

\* The transform leaves a view that is in order in order.
LEMMA TransformedIs ==
  ASSUME NEW p, NEW v, Sourced(p, v), NEW hidden, NEW edit, NEW nudged, NEW suffix
  PROVE  Viewed(p, Transformed(v, hidden, edit, nudged, suffix))
<1> DEFINE first == SelectInSeq(v, LAMBDA msg : msg.role = "user")
           shown == At(v, {k \in 1 .. Len(v) : v[k].id \notin hidden \/ k = first})
           dropped == Dropping(shown, edit, "completed")
           pruned == Kept(dropped)
           anchored == [k \in 1 .. Len(pruned) |->
             IF pruned[k].id = nudged THEN InjectAnchoredNudge(pruned[k]) ELSE pruned[k]]
           with == anchored \o (IF suffix /\ anchored # <<>> THEN <<SuffixMessage>> ELSE <<>>)
           edited == Editing(with, edit)
           tagged == [k \in 1 .. Len(edited) |-> InjectMessageId(edited[k])]
           unpaired == Dropping(tagged, edit, "error")
           pairless == Kept(unpaired)
           last == At(pairless, {k \in 1 .. Len(pairless) : ~pairless[k].notice})
<1>1. Transformed(v, hidden, edit, nudged, suffix) = last
  BY Zenon DEF Transformed
<1> HIDE DEF first
<1>2. Sourced(p, shown)
  BY KeptSome DEF Sourced
<1> HIDE DEF shown
<1>3. Sourced(p, dropped)
  BY <1>2, DroppedIs DEF Sourced
<1> HIDE DEF dropped
<1>4. Sourced(p, pruned)
  BY <1>3, KeptSome DEF Sourced, Kept
<1> HIDE DEF pruned
<1>5. Sourced(p, anchored)
  <2>1. \A k \in 1 .. Len(pruned) : pruned[k] \in ViewMessage /\ pruned[k].id # Suffix
    BY <1>4 DEF Sourced, Viewed
  <2>2. \A k \in 1 .. Len(pruned) : anchored[k] \in ViewMessage /\ anchored[k].id = pruned[k].id
    BY <2>1, NudgedIs
  <2>3. anchored = [k \in 1 .. Len(pruned) |-> anchored[k]]
    OBVIOUS
  <2> HIDE DEF anchored
  <2>4. Viewed(p, anchored) /\ Len(anchored) = Len(pruned)
    BY <1>4, <2>2, <2>3, SameIds DEF Sourced
  <2> QED
    BY <2>1, <2>2, <2>4 DEF Sourced
<1> HIDE DEF anchored
<1>6. Viewed(p, with)
  <2>1. anchored \o <<>> = anchored
    <3>1. Listed(anchored)
      BY <1>5 DEF Sourced, Viewed, InSourceOrder, Rises
    <3>2. anchored \in Seq({anchored[i] : i \in 1 .. Len(anchored)})
      BY <3>1, ListedSeq
    <3> QED
      BY <3>2
  <2> QED
    BY <1>5, <2>1, WithSuffix DEF Sourced
<1> HIDE DEF with
<1>7. Viewed(p, edited)
  BY <1>6, EditingIs
<1> HIDE DEF edited
<1>8. Viewed(p, tagged)
  <2>1. \A k \in 1 .. Len(edited) : tagged[k] \in ViewMessage /\ tagged[k].id = edited[k].id
    BY <1>7, ReferencedIs DEF Viewed
  <2>2. tagged = [k \in 1 .. Len(edited) |-> tagged[k]]
    OBVIOUS
  <2> HIDE DEF tagged
  <2> QED
    BY <1>7, <2>1, <2>2, SameIds
<1> HIDE DEF tagged
<1>9. Viewed(p, unpaired)
  BY <1>8, DroppedIs
<1> HIDE DEF unpaired
<1>10. Viewed(p, pairless)
  BY <1>9, KeptSome DEF Kept
<1> HIDE DEF pairless
<1>11. Viewed(p, last)
  BY <1>10, KeptSome
<1> QED
  BY <1>1, <1>11

-----------------------------------------------------------------------------
(* The requests of the host.                                               *)

\* A part and a message as the host lowers them.
FreshPart == {q \in RequestPart : q.gen = 0 /\ q.tag = FALSE}
FreshMessage == [id : Nat, role : Word, parts : Seq(FreshPart), gen : {0}]
\* A part of a message of source s: a call or a result is one of the source's.
ToolPart(q) == q.type \in {"tool-call", "tool-result"}
PartOf(s) == {q \in FreshPart : ToolPart(q) => q.call[1] = s}
\* A message has the parts of one source, a tool message no calls.
Lowers == {x \in FreshMessage :
             /\ x.role = "tool" => \A c \in 1 .. Len(x.parts) : x.parts[c].type # "tool-call"
             /\ \E s \in Nat : x.id \in {0, s} /\ x.parts \in Seq(PartOf(s))}
Typed(h) == h \in Seq([type : STRING, items : Seq(Item)])

LEMMA PartIs ==
  ASSUME NEW type \in Word, NEW call \in Nat \X Nat, NEW val \in Word, NEW form \in Word
  PROVE  /\ Part(type, call, val, form) \in FreshPart /\ Part(type, call, val, form).type = type
         /\ Part(type, call, val, form).call = call
<1>1. NoPtr \in Nat \X Nat
  BY DEF NoPtr
<1>2. Part(type, call, val, form) \in RequestPart /\ Part(type, call, val, form).gen = 0
  BY <1>1 DEF Part, RequestPart
<1>3. /\ Part(type, call, val, form).tag = FALSE /\ Part(type, call, val, form).type = type
      /\ Part(type, call, val, form).call = call
  BY DEF Part
<1> QED
  BY <1>2, <1>3 DEF FreshPart

LEMMA PartOfIs ==
  ASSUME NEW s \in Nat, NEW type \in Word, NEW call \in Nat \X Nat, NEW val \in Word,
         NEW form \in Word, type \in {"tool-call", "tool-result"} => call[1] = s
  PROVE  Part(type, call, val, form) \in PartOf(s)
<1>1. /\ Part(type, call, val, form) \in FreshPart /\ Part(type, call, val, form).type = type
      /\ Part(type, call, val, form).call = call
  BY PartIs
<1> QED
  BY <1>1 DEF PartOf, ToolPart

LEMMA ItemIs ==
  ASSUME NEW item \in Item
  PROVE  /\ item.kind \in {"text", "reasoning", "attachment", "tool"}
         /\ item.val \in Word /\ item.st \in Word /\ item.multi \in BOOLEAN /\ item.exec \in BOOLEAN
         /\ item.kind \in Word
<1>1. /\ item.kind \in {"text", "reasoning", "attachment", "tool"} /\ item.multi \in BOOLEAN
      /\ item.exec \in BOOLEAN
  BY DEF Item
<1>2. item.val \in STRING /\ item.st \in STRING
  BY DEF Item
<1>3. STRING \subseteq Word /\ {"text", "reasoning", "attachment", "tool"} \subseteq Word
  BY DEF Word
<1> QED
  BY ONLY <1>1, <1>2, <1>3

LEMMA ResultIs ==
  ASSUME NEW call \in Nat \X Nat, NEW item \in Item
  PROVE  /\ Result(call, item) \in FreshPart /\ Result(call, item).type = "tool-result"
         /\ Result(call, item).call = call
<1> DEFINE form == IF item.st = "error" THEN "error" ELSE IF item.multi THEN "content" ELSE "text"
<1>1. form \in Word /\ "tool-result" \in Word
  BY DEF Word
<1>2. item.val \in Word
  BY ItemIs
<1>3. Result(call, item) = Part("tool-result", call, item.val, form)
  BY DEF Result
<1> HIDE DEF form
<1> QED
  BY <1>1, <1>2, <1>3, PartIs

LEMMA LowerItemIs ==
  ASSUME NEW s \in Nat, NEW j \in Nat, NEW item \in Item
  PROVE  LowerItem(s, j, item) \in Seq(PartOf(s))
<1>1. /\ "text" \in Word /\ "reasoning" \in Word /\ "media" \in Word /\ "tool-call" \in Word
      /\ "call" \in Word
  BY DEF Word
<1>2. NoPtr \in Nat \X Nat /\ <<s, j>> \in Nat \X Nat
  BY DEF NoPtr
<1>3. item.val \in Word /\ item.kind \in {"text", "reasoning", "attachment", "tool"}
  BY ItemIs
<1>4. /\ Part("text", NoPtr, item.val, "text") \in PartOf(s)
      /\ Part("reasoning", NoPtr, item.val, "text") \in PartOf(s)
      /\ Part("media", NoPtr, item.val, "media") \in PartOf(s)
  BY <1>1, <1>2, <1>3, PartOfIs
<1>9. /\ Part("tool-call", <<s, j>>, item.val, "call") \in PartOf(s)
      /\ Result(<<s, j>>, item) \in PartOf(s)
  <2>1. <<s, j>>[1] = s
    OBVIOUS
  <2> DEFINE call == <<s, j>>
  <2> HIDE DEF call
  <2>2. call \in Nat \X Nat /\ call[1] = s
    BY <1>2, <2>1 DEF call
  <2>3. /\ Part("tool-call", call, item.val, "call") \in FreshPart
        /\ Part("tool-call", call, item.val, "call").call = call
    BY <1>1, <1>3, <2>2, PartIs
  <2>4. Result(call, item) \in FreshPart /\ Result(call, item).call = call
    BY <2>2, ResultIs
  <2>5. Part("tool-call", call, item.val, "call") \in PartOf(s) /\ Result(call, item) \in PartOf(s)
    BY <2>2, <2>3, <2>4 DEF PartOf
  <2> QED
    BY <2>5 DEF call
<1>5. CASE item.kind = "tool"
  <2>1. LowerItem(s, j, item) = <<Part("tool-call", <<s, j>>, item.val, "call")>>
            \o IF item.exec /\ item.st # "running" THEN <<Result(<<s, j>>, item)>> ELSE <<>>
    BY <1>5 DEF LowerItem
  <2>2. \A x \in PartOf(s), y \in PartOf(s) :
          <<x>> \o <<y>> \in Seq(PartOf(s)) /\ <<x>> \o <<>> \in Seq(PartOf(s))
    OBVIOUS
  <2> QED
    BY <1>9, <2>1, <2>2
<1>6. CASE item.kind = "text"
  BY <1>4, <1>6 DEF LowerItem
<1>7. CASE item.kind = "reasoning"
  BY <1>4, <1>7 DEF LowerItem
<1>8. CASE item.kind = "attachment"
  BY <1>4, <1>8 DEF LowerItem
<1> QED
  BY <1>3, <1>5, <1>6, <1>7, <1>8

\* A message that is no tool's, and a tool's with one result.
LEMMA MessageIs ==
  ASSUME NEW s \in Nat, NEW id \in {0, s}, NEW role \in Word, NEW parts \in Seq(PartOf(s)),
         role = "tool" => \A c \in 1 .. Len(parts) : parts[c].type # "tool-call"
  PROVE  Message(id, role, parts) \in Lowers
<1>1. PartOf(s) \subseteq FreshPart
  BY DEF PartOf
<1>2. parts \in Seq(FreshPart)
  BY <1>1, SeqWider
<1> QED
  BY <1>2 DEF Message, Lowers, FreshMessage

LEMMA FlattenSeqIs ==
  ASSUME NEW X, NEW n \in Nat, NEW ss, ss = [k \in 1 .. n |-> ss[k]], \A k \in 1 .. n : ss[k] \in Seq(X)
  PROVE  FlattenSeq(ss) \in Seq(X)
<1>1. ss \in [1 .. n -> Seq(X)]
  OBVIOUS
<1>2. ss \in Seq(Seq(X))
  BY <1>1
<1> QED
  BY <1>2, FlattenLays

LEMMA LowerSourceIs ==
  ASSUME NEW s \in Nat, NEW src \in [type : STRING, items : Seq(Item)]
  PROVE  LowerSource(s, src) \in Seq(Lowers)
<1> DEFINE n == Len(src.items)
           lowered == [j \in 1 .. n |-> LowerItem(s, j, src.items[j])]
           content == FlattenSeq(lowered)
           S == {j \in 1 .. n : /\ src.items[j].kind = "tool" /\ ~src.items[j].exec
                                /\ src.items[j].st # "running"}
           settled == InOrder(S)
           role == IF src.type = "assistant" THEN "assistant" ELSE "user"
           first == IF content = <<>> THEN <<>> ELSE <<Message(s, role, content)>>
           tool(k) == Message(0, "tool", <<Result(<<s, settled[k]>>, src.items[settled[k]])>>)
           rest == [k \in 1 .. Len(settled) |-> tool(k)]
           record == <<Message(0, "user", <<Part("text", NoPtr, "record", "text")>>),
                       Message(0, "assistant", <<Part("tool-call", <<s, 9>>, "record", "call")>>)>>
<1>0. n \in Nat /\ \A j \in 1 .. n : src.items[j] \in Item
  <2>1. src.items \in Seq(Item)
    OBVIOUS
  <2> QED
    BY <2>1
<1>1. LowerSource(s, src) = CASE src.type \in Controls -> <<>>
         [] src.type = "checkpoint" -> record
         [] src.type = "system" -> <<Message(0, "system", content)>>
         [] OTHER -> first \o rest
  BY DEF LowerSource
<1>2. content \in Seq(PartOf(s))
  <2>1. \A j \in 1 .. n : lowered[j] \in Seq(PartOf(s))
    <3>1. \A j \in 1 .. n : j \in Nat /\ lowered[j] = LowerItem(s, j, src.items[j])
      OBVIOUS
    <3> HIDE DEF lowered, n
    <3> QED
      BY <1>0, <3>1, LowerItemIs
  <2>2. lowered = [j \in 1 .. n |-> lowered[j]]
    OBVIOUS
  <2> HIDE DEF lowered, n
  <2> QED
    BY <1>0, <2>1, <2>2, FlattenSeqIs
<1> HIDE DEF content
<1>3. /\ "user" \in Word /\ "assistant" \in Word /\ "system" \in Word /\ "tool" \in Word
      /\ "text" \in Word /\ "record" \in Word /\ "tool-call" \in Word /\ "call" \in Word
  BY DEF Word
<1>4. record \in Seq(Lowers)
  <2>1. NoPtr \in Nat \X Nat /\ <<s, 9>> \in Nat \X Nat
    BY DEF NoPtr
  <2> DEFINE call == <<s, 9>>
  <2>2. call[1] = s
    OBVIOUS
  <2> HIDE DEF call
  <2>3. /\ Part("text", NoPtr, "record", "text") \in PartOf(s)
        /\ Part("tool-call", call, "record", "call") \in PartOf(s)
    <3>1. call \in Nat \X Nat
      BY <2>1 DEF call
    <3>2. Part("text", NoPtr, "record", "text") \in PartOf(s)
      BY <1>3, <2>1, PartOfIs
    <3>3. Part("tool-call", call, "record", "call") \in PartOf(s)
      BY <1>3, <2>2, <3>1, PartOfIs
    <3> QED
      BY <3>2, <3>3
  <2>4. /\ <<Part("text", NoPtr, "record", "text")>> \in Seq(PartOf(s))
        /\ <<Part("tool-call", <<s, 9>>, "record", "call")>> \in Seq(PartOf(s))
    BY <2>3 DEF call
  <2>5. Message(0, "user", <<Part("text", NoPtr, "record", "text")>>) \in Lowers
    BY <1>3, <2>4, MessageIs
  <2>6. Message(0, "assistant", <<Part("tool-call", <<s, 9>>, "record", "call")>>) \in Lowers
    BY <1>3, <2>4, MessageIs
  <2> QED
    BY <2>5, <2>6
<1> HIDE DEF record
<1>5. Message(0, "system", content) \in Lowers /\ Message(s, role, content) \in Lowers
  <2>1. role \in Word /\ role # "tool"
    BY <1>3
  <2> HIDE DEF role
  <2> QED
    BY <1>2, <1>3, <2>1, MessageIs
<1>6. first \in Seq(Lowers)
  BY <1>5
<1>7. rest \in Seq(Lowers)
  <2>1. S \subseteq 0 .. n /\ \A j \in S : j \in 1 .. n
    BY <1>0
  <2> HIDE DEF S, n
  <2>2. Len(settled) \in Nat /\ \A k \in 1 .. Len(settled) : settled[k] \in S
    <3>1. Ascends(settled, S) /\ Len(settled) = Cardinality(S)
      BY <1>0, <2>1, InOrderAscends
    <3> HIDE DEF settled
    <3> QED
      BY <3>1 DEF Ascends
  <2> HIDE DEF settled
  <2>3. ASSUME NEW k \in 1 .. Len(settled)
        PROVE  tool(k) \in Lowers
    <3> DEFINE call == <<s, settled[k]>>
               result == Result(call, src.items[settled[k]])
    <3>1. settled[k] \in 1 .. n
      BY <2>1, <2>2
    <3>2. src.items[settled[k]] \in Item /\ settled[k] \in Nat
      BY <1>0, <3>1
    <3>3. call \in Nat \X Nat
      BY <3>2
    <3> HIDE DEF call
    <3>4. result \in FreshPart /\ result.type = "tool-result"
      BY <3>2, <3>3, ResultIs
    <3> HIDE DEF result
    <3>7. result \in PartOf(s)
      <4>1. call[1] = s
        BY DEF call
      <4> QED
        BY <3>2, <3>3, <3>4, <4>1, ResultIs DEF PartOf, result
    <3>5. <<result>> \in Seq(PartOf(s)) /\ \A c \in 1 .. Len(<<result>>) : <<result>>[c].type # "tool-call"
      BY <3>4, <3>7
    <3>6. Message(0, "tool", <<result>>) \in Lowers
      BY <1>3, <3>5, MessageIs
    <3> QED
      BY <3>6 DEF result, call
  <2> HIDE DEF tool
  <2>4. rest \in [1 .. Len(settled) -> Lowers]
    BY <2>3
  <2> HIDE DEF rest
  <2> QED
    BY <2>2, <2>4
<1> HIDE DEF first, rest
<1>8. first \o rest \in Seq(Lowers) /\ <<>> \in Seq(Lowers) /\ <<Message(0, "system", content)>> \in Seq(Lowers)
  BY <1>5, <1>6, <1>7
<1> QED
  BY <1>1, <1>4, <1>8

LEMMA TypedAt ==
  ASSUME NEW h, Typed(h)
  PROVE  Len(h) \in Nat /\ \A s \in 1 .. Len(h) : h[s] \in [type : STRING, items : Seq(Item)]
<1> DEFINE R == [type : STRING, items : Seq(Item)]
<1>1. h \in Seq(R)
  BY DEF Typed
<1> HIDE DEF R
<1>2. Len(h) \in Nat /\ \A s \in 1 .. Len(h) : h[s] \in R
  BY <1>1
<1> QED
  BY <1>2 DEF R

LEMMA LoweredIs ==
  ASSUME NEW h, Typed(h)
  PROVE  Lowered(h) \in Seq(Lowers)
<1> DEFINE ss == [s \in 1 .. Len(h) |-> LowerSource(s, h[s])]
<1>1. Len(h) \in Nat /\ \A s \in 1 .. Len(h) : h[s] \in [type : STRING, items : Seq(Item)]
  BY TypedAt
<1>2. \A s \in 1 .. Len(h) : ss[s] \in Seq(Lowers)
  BY <1>1, LowerSourceIs
<1>3. ss = [s \in 1 .. Len(h) |-> ss[s]]
  OBVIOUS
<1> HIDE DEF ss
<1>4. FlattenSeq(ss) \in Seq(Lowers)
  BY <1>1, <1>2, <1>3, FlattenSeqIs
<1> QED
  BY <1>4 DEF ss, Lowered

OfSource(x, s) ==
  /\ x.id \in {0, s}
  /\ \A c \in 1 .. Len(x.parts) : ToolPart(x.parts[c]) => x.parts[c].call[1] = s
\* The parts of a request nobody has touched.
Fresh(out) ==
  /\ Placed(out)
  /\ \A m \in 1 .. Len(out) : \A c \in 1 .. Len(out[m].parts) :
       /\ out[m].parts[c].gen = 0 /\ out[m].parts[c].tag = FALSE
       /\ out[m].role = "tool" => out[m].parts[c].type # "tool-call"
  /\ \A m \in 1 .. Len(out) : \E s : OfSource(out[m], s)

LEMMA LowersAt ==
  ASSUME NEW x \in Lowers
  PROVE  /\ x \in FreshMessage /\ x.parts \in Seq(FreshPart) /\ Len(x.parts) \in Nat
         /\ \A c \in 1 .. Len(x.parts) : /\ x.parts[c] \in FreshPart
                                         /\ x.role = "tool" => x.parts[c].type # "tool-call"
         /\ \E s : OfSource(x, s)
<1>1. x \in FreshMessage
  BY DEF Lowers
<1>2. x.parts \in Seq(FreshPart)
  BY <1>1 DEF FreshMessage
<1>3. \A s \in Seq(FreshPart) : Len(s) \in Nat /\ \A c \in 1 .. Len(s) : s[c] \in FreshPart
  OBVIOUS
<1>4. PICK s \in Nat : x.id \in {0, s} /\ x.parts \in Seq(PartOf(s))
  BY DEF Lowers
<1>5. \A t \in Seq(PartOf(s)) : \A c \in 1 .. Len(t) : t[c] \in PartOf(s)
  OBVIOUS
<1>6. \A c \in 1 .. Len(x.parts) : ToolPart(x.parts[c]) => x.parts[c].call[1] = s
  BY <1>4, <1>5 DEF PartOf
<1>7. OfSource(x, s)
  BY <1>4, <1>6 DEF OfSource
<1> QED
  BY <1>1, <1>2, <1>3, <1>7 DEF Lowers

LEMMA IdentifiedIs ==
  ASSUME NEW r \in Seq(Lowers)
  PROVE  Fresh(Identified(r)) /\ Len(Identified(r)) = Len(r)
<1> DEFINE t == Identified(r)
           n == Len(r)
           x(m, c) == [r[m].parts[c] EXCEPT !.obj = <<m, c>>]
           parts(m) == [c \in 1 .. Len(r[m].parts) |-> x(m, c)]
<1>1. t = [m \in 1 .. n |-> [r[m] EXCEPT !.parts = parts(m)]]
  BY DEF Identified
<1>2. n \in Nat /\ \A m \in 1 .. n : r[m] \in Lowers
  OBVIOUS
<1>3. ASSUME NEW m \in 1 .. n
      PROVE  /\ t[m] \in RequestMessage /\ Len(t[m].parts) = Len(r[m].parts) /\ t[m].role = r[m].role
             /\ t[m].id = r[m].id
             /\ \A c \in 1 .. Len(r[m].parts) :
                  /\ t[m].parts[c].obj = <<m, c>> /\ t[m].parts[c].gen = 0
                  /\ t[m].parts[c].tag = FALSE /\ t[m].parts[c].type = r[m].parts[c].type /\ t[m].parts[c].call = r[m].parts[c].call
  <2> DEFINE l == Len(r[m].parts)
  <2>1. /\ r[m] \in FreshMessage /\ l \in Nat
        /\ \A c \in 1 .. l : r[m].parts[c] \in FreshPart
    BY <1>2, LowersAt
  <2>2. ASSUME NEW c \in 1 .. l
        PROVE  /\ x(m, c) \in RequestPart /\ x(m, c).obj = <<m, c>> /\ x(m, c).gen = 0
               /\ x(m, c).tag = FALSE /\ x(m, c).type = r[m].parts[c].type /\ x(m, c).call = r[m].parts[c].call
    <3> DEFINE q == r[m].parts[c]
               place == <<m, c>>
    <3>1. q \in FreshPart /\ place \in Nat \X Nat
      BY <1>2, <2>1
    <3> HIDE DEF q, place
    <3>2. /\ [q EXCEPT !.obj = place] \in RequestPart /\ [q EXCEPT !.obj = place].obj = place
          /\ [q EXCEPT !.obj = place].gen = 0 /\ [q EXCEPT !.obj = place].tag = FALSE
          /\ [q EXCEPT !.obj = place].type = q.type /\ [q EXCEPT !.obj = place].call = q.call
      <4>1. q \in RequestPart
        BY <3>1 DEF FreshPart
      <4>2. q.gen = 0
        BY <3>1 DEF FreshPart
      <4>3. q.tag = FALSE
        BY <3>1 DEF FreshPart
      <4>4. /\ [q EXCEPT !.obj = place] \in RequestPart /\ [q EXCEPT !.obj = place].obj = place
            /\ [q EXCEPT !.obj = place].gen = q.gen /\ [q EXCEPT !.obj = place].type = q.type /\ [q EXCEPT !.obj = place].call = q.call
        BY <3>1, <4>1 DEF RequestPart
      <4>5. [q EXCEPT !.obj = place].tag = q.tag
        BY <4>1 DEF RequestPart
      <4> QED
        BY <4>2, <4>3, <4>4, <4>5
    <3> QED
      BY <3>2 DEF q, place
  <2> HIDE DEF x
  <2>3. Len(parts(m)) = l /\ \A c \in 1 .. l : parts(m)[c] = x(m, c)
    BY <2>1
  <2>4. parts(m) \in Seq(RequestPart)
    <3>1. parts(m) \in [1 .. l -> RequestPart]
      BY <2>2
    <3> HIDE DEF parts, l
    <3> QED
      BY <2>1, <3>1
  <2> HIDE DEF parts
  <2>5. /\ [r[m] EXCEPT !.parts = parts(m)] \in RequestMessage
        /\ [r[m] EXCEPT !.parts = parts(m)].parts = parts(m)
        /\ [r[m] EXCEPT !.parts = parts(m)].role = r[m].role
        /\ [r[m] EXCEPT !.parts = parts(m)].id = r[m].id
    BY <2>1, <2>4, SMTT(20) DEF FreshMessage, RequestMessage
  <2>6. t[m] = [r[m] EXCEPT !.parts = parts(m)]
    BY <1>1
  <2> HIDE DEF t
  <2>7. /\ t[m] \in RequestMessage /\ t[m].parts = parts(m) /\ t[m].role = r[m].role /\ t[m].id = r[m].id
    BY <2>5, <2>6
  <2>8. \A c \in 1 .. l : t[m].parts[c] = x(m, c)
    BY <2>3, <2>7
  <2> HIDE DEF l
  <2>9. \A c \in 1 .. l : /\ t[m].parts[c].obj = <<m, c>> /\ t[m].parts[c].gen = 0
                          /\ t[m].parts[c].tag = FALSE /\ t[m].parts[c].type = r[m].parts[c].type /\ t[m].parts[c].call = r[m].parts[c].call
    BY <2>2, <2>8, Zenon
  <2> QED
    BY <2>3, <2>7, <2>9 DEF l
<1>4. Len(t) = n /\ t \in Seq(RequestMessage)
  <2>1. t \in [1 .. n -> RequestMessage]
    <3> HIDE DEF x
    <3>1. t = [m \in 1 .. n |-> t[m]]
      BY <1>1
    <3> HIDE DEF t, n
    <3> QED
      BY <1>3, <3>1
  <2> HIDE DEF t, n
  <2> QED
    BY <1>2, <2>1
<1>5. \A m \in 1 .. n : \A c \in 1 .. Len(r[m].parts) : r[m].role = "tool" => r[m].parts[c].type # "tool-call"
  BY <1>2, LowersAt
<1> HIDE DEF t, n
<1>6. ASSUME NEW m \in 1 .. Len(t), NEW c \in 1 .. Len(t[m].parts)
      PROVE  /\ t[m].parts[c].obj = <<m, c>> /\ t[m].parts[c].gen = 0 /\ t[m].parts[c].tag = FALSE
             /\ t[m].role = "tool" => t[m].parts[c].type # "tool-call"
  <2>1. m \in 1 .. n
    BY <1>4
  <2>2. c \in 1 .. Len(r[m].parts) /\ t[m].role = r[m].role
    BY <1>3, <2>1
  <2>3. /\ t[m].parts[c].obj = <<m, c>> /\ t[m].parts[c].gen = 0 /\ t[m].parts[c].tag = FALSE
        /\ t[m].parts[c].type = r[m].parts[c].type
    BY <1>3, <2>1, <2>2, Zenon
  <2> QED
    BY <1>5, <2>1, <2>2, <2>3
<1>8. ASSUME NEW m \in 1 .. Len(t)
      PROVE  \E s : OfSource(t[m], s)
  <2>1. m \in 1 .. n
    BY <1>4
  <2>2. PICK s : OfSource(r[m], s)
    BY <1>2, <2>1, LowersAt
  <2>3. /\ Len(t[m].parts) = Len(r[m].parts) /\ t[m].id = r[m].id
        /\ \A c \in 1 .. Len(r[m].parts) : /\ t[m].parts[c].type = r[m].parts[c].type
                                            /\ t[m].parts[c].call = r[m].parts[c].call
    BY <1>3, <2>1
  <2>4. OfSource(t[m], s)
    BY <2>2, <2>3 DEF OfSource, ToolPart
  <2> QED
    BY <2>4
<1>7. Fresh(t)
  BY <1>4, <1>6, <1>8 DEF Fresh, Placed
<1> QED
  BY <1>4, <1>7 DEF t, n

LEMMA HostMessageIs == HostMessage \in Lowers
<1>1. "text" \in Word /\ "host" \in Word /\ "user" \in Word /\ NoPtr \in Nat \X Nat /\ 0 \in Nat
  BY DEF Word, NoPtr
<1>2. <<Part("text", NoPtr, "host", "text")>> \in Seq(PartOf(0))
  <2>1. Part("text", NoPtr, "host", "text") \in PartOf(0)
    BY <1>1, PartOfIs
  <2> QED
    BY <2>1
<1>3. Message(0, "user", <<Part("text", NoPtr, "host", "text")>>) \in Lowers
  <2>1. 0 \in {0, 0} /\ "user" # "tool"
    OBVIOUS
  <2> QED
    BY <1>1, <1>2, <2>1, MessageIs
<1> QED
  BY <1>3 DEF HostMessage

LEMMA PartsLowered ==
  ASSUME NEW x \in Lowers, NEW s \in Nat, x.id \in {0, s}, NEW t \in Seq(PartOf(s)),
         x.role = "tool" => \A c \in 1 .. Len(t) : t[c].type # "tool-call"
  PROVE  [x EXCEPT !.parts = t] \in Lowers
<1>1. x \in FreshMessage
  BY LowersAt
<1>2. t \in Seq(FreshPart)
  <2>1. PartOf(s) \subseteq FreshPart
    BY DEF PartOf
  <2> QED
    BY <2>1, SeqWider
<1>3. [x EXCEPT !.parts = t] \in FreshMessage /\ [x EXCEPT !.parts = t].parts = t
      /\ [x EXCEPT !.parts = t].role = x.role /\ [x EXCEPT !.parts = t].id = x.id
  BY <1>1, <1>2 DEF FreshMessage
<1> QED
  BY <1>3 DEF Lowers

LEMMA PartsOfLowered ==
  ASSUME NEW x \in Lowers
  PROVE  \E s \in Nat : /\ x.id \in {0, s} /\ x.parts \in Seq(PartOf(s)) /\ Len(x.parts) \in Nat
                        /\ \A c \in 1 .. Len(x.parts) : /\ x.parts[c] \in PartOf(s)
                                                        /\ x.role = "tool" => x.parts[c].type # "tool-call"
<1>1. PICK s \in Nat : x.id \in {0, s} /\ x.parts \in Seq(PartOf(s))
  BY DEF Lowers
<1>2. \A t \in Seq(PartOf(s)) : Len(t) \in Nat /\ \A c \in 1 .. Len(t) : t[c] \in PartOf(s)
  OBVIOUS
<1>3. \A c \in 1 .. Len(x.parts) : x.role = "tool" => x.parts[c].type # "tool-call"
  BY DEF Lowers
<1> QED
  BY <1>1, <1>2, <1>3

LEMMA AlteredIs ==
  ASSUME NEW x \in Lowers, x.parts # <<>>
  PROVE  [x EXCEPT !.parts[1].val = "host"] \in Lowers
<1> DEFINE w == x.parts
           q == [w[1] EXCEPT !.val = "host"]
           t == [w EXCEPT ![1] = q]
<1>1. PICK s \in Nat : /\ x.id \in {0, s} /\ w \in Seq(PartOf(s)) /\ Len(w) \in Nat
                      /\ \A c \in 1 .. Len(w) : /\ w[c] \in PartOf(s)
                                                 /\ x.role = "tool" => w[c].type # "tool-call"
  BY PartsOfLowered
<1>2. 1 \in 1 .. Len(w)
  <2> HIDE DEF w, q, t
  <2>1. w # <<>>
    BY DEF w
  <2> QED
    BY <1>1, <2>1
<1>3. q \in PartOf(s) /\ q.type = w[1].type
  <2>1. "host" \in Word /\ w[1] \in PartOf(s)
    BY <1>1, <1>2 DEF Word
  <2> DEFINE z == w[1]
  <2> HIDE DEF w, z
  <2>2. z \in RequestPart /\ z.gen = 0 /\ z.tag = FALSE /\ (ToolPart(z) => z.call[1] = s)
    BY <2>1 DEF FreshPart, PartOf, z
  <2>3. /\ [z EXCEPT !.val = "host"] \in RequestPart /\ [z EXCEPT !.val = "host"].gen = z.gen
        /\ [z EXCEPT !.val = "host"].type = z.type /\ [z EXCEPT !.val = "host"].call = z.call
    BY <2>1, <2>2 DEF RequestPart
  <2>4. [z EXCEPT !.val = "host"].tag = z.tag
    BY <2>2 DEF RequestPart
  <2> QED
    BY <2>2, <2>3, <2>4 DEF FreshPart, PartOf, ToolPart, z
<1> HIDE DEF w, q
<1>4. /\ t \in Seq(PartOf(s)) /\ Len(t) = Len(w)
      /\ \A c \in 1 .. Len(w) : t[c] = IF c = 1 THEN q ELSE w[c]
  BY <1>1, <1>2, <1>3
<1> HIDE DEF t
<1>5. \A c \in 1 .. Len(t) : x.role = "tool" => t[c].type # "tool-call"
  BY <1>1, <1>2, <1>3, <1>4
<1>6. [x EXCEPT !.parts[1].val = "host"] = [x EXCEPT !.parts = t]
  BY DEF t, q, w
<1> QED
  BY <1>1, <1>4, <1>5, <1>6, PartsLowered

LEMMA ExtendedIs ==
  ASSUME NEW x \in Lowers
  PROVE  [x EXCEPT !.parts = Append(@, Part("media", NoPtr, "host", "media"))] \in Lowers
<1> DEFINE w == x.parts
           q == Part("media", NoPtr, "host", "media")
           t == Append(w, q)
<1>1. PICK s \in Nat : /\ x.id \in {0, s} /\ w \in Seq(PartOf(s)) /\ Len(w) \in Nat
                      /\ \A c \in 1 .. Len(w) : /\ w[c] \in PartOf(s)
                                                 /\ x.role = "tool" => w[c].type # "tool-call"
  BY PartsOfLowered
<1>2. q \in PartOf(s) /\ q.type # "tool-call"
  <2>1. "media" \in Word /\ "host" \in Word /\ NoPtr \in Nat \X Nat
    BY DEF Word, NoPtr
  <2> QED
    BY <2>1, PartIs, PartOfIs
<1>4. [x EXCEPT !.parts = Append(@, Part("media", NoPtr, "host", "media"))] = [x EXCEPT !.parts = t]
  BY DEF t, q, w
<1> HIDE DEF w, q
<1>3. /\ t \in Seq(PartOf(s)) /\ Len(t) = Len(w) + 1
      /\ \A c \in 1 .. Len(w) + 1 : t[c] = IF c = Len(w) + 1 THEN q ELSE w[c]
  BY <1>1, <1>2
<1> HIDE DEF t
<1>5. \A c \in 1 .. Len(t) : x.role = "tool" => t[c].type # "tool-call"
  BY <1>1, <1>2, <1>3
<1> QED
  BY <1>1, <1>3, <1>4, <1>5, PartsLowered

LEMMA RemovedAtIs ==
  ASSUME NEW X, NEW s \in Seq(X), NEW m \in 1 .. Len(s)
  PROVE  RemoveAt(s, m) \in Seq(X)
<1>1. SubSeq(s, 1, m - 1) \in Seq(X) /\ SubSeq(s, m + 1, Len(s)) \in Seq(X)
  OBVIOUS
<1> QED
  BY <1>1 DEF RemoveAt

\* Every request for a history is one nobody has touched yet.
LEMMA RequestsForIs ==
  ASSUME NEW h, Typed(h), NEW out, out \in RequestsFor(h) \/ out = Identified(Lowered(h))
  PROVE  Fresh(out)
<1> DEFINE l == Lowered(h)
           R == {l} \cup Altered(l) \cup Extended(l)
                  \cup {InsertAt(l, m, HostMessage) : m \in 1 .. (Len(l) + 1)}
                  \cup {RemoveAt(l, m) : m \in 1 .. Len(l)}
                  \cup {InsertAt(l, m, l[m]) : m \in 1 .. Len(l)}
<1>1. l \in Seq(Lowers)
  BY LoweredIs
<1>2. out \in {Identified(r) : r \in R} \/ out = Identified(l)
  <2>1. RequestsFor(h) = {Identified(r) : r \in R}
    BY Zenon DEF RequestsFor
  <2> QED
    BY <2>1
<1> HIDE DEF l
<1>3. Len(l) \in Nat /\ \A m \in 1 .. Len(l) : l[m] \in Lowers
  BY <1>1
<1>4. \A m \in 1 .. Len(l), x \in Lowers : ReplaceAt(l, m, x) \in Seq(Lowers)
  BY <1>1 DEF ReplaceAt
<1>5. Altered(l) \subseteq Seq(Lowers)
  <2>1. \A m \in 1 .. Len(l) : l[m].parts # <<>> => [l[m] EXCEPT !.parts[1].val = "host"] \in Lowers
    BY <1>3, AlteredIs
  <2> QED
    BY <1>4, <2>1 DEF Altered
<1>6. Extended(l) \subseteq Seq(Lowers)
  <2>1. \A m \in 1 .. Len(l) :
          [l[m] EXCEPT !.parts = Append(@, Part("media", NoPtr, "host", "media"))] \in Lowers
    BY <1>3, ExtendedIs
  <2> QED
    BY <1>4, <2>1 DEF Extended
<1>7. \A m \in 1 .. (Len(l) + 1) : InsertAt(l, m, HostMessage) \in Seq(Lowers)
  BY <1>1, HostMessageIs, InsertedIs
<1>8. \A m \in 1 .. Len(l) : RemoveAt(l, m) \in Seq(Lowers)
  BY <1>1, RemovedAtIs
<1>9. \A m \in 1 .. Len(l) : InsertAt(l, m, l[m]) \in Seq(Lowers)
  <2>1. \A m \in 1 .. Len(l) : m \in 1 .. Len(l) + 1
    BY <1>3
  <2> QED
    BY <1>1, <1>3, <2>1, InsertedIs
<1>10. \A r \in R : r \in Seq(Lowers)
  BY <1>1, <1>5, <1>6, <1>7, <1>8, <1>9
<1> HIDE DEF R
<1> QED
  BY <1>1, <1>2, <1>10, IdentifiedIs

-----------------------------------------------------------------------------
(* The messages each source claims.                                        *)

OwnTools(out, m, s) ==
  \A c \in 1 .. Len(out[m].parts) : ToolPart(out[m].parts[c]) => out[m].parts[c].call[1] = s

\* Each source its own messages; behind the first one tool messages; and but for the messages
\* of a checkpoint or a system source with the calls and results of no other source.
Claiming(M, h, out) ==
  /\ M \in [1 .. Len(h) -> Seq(1 .. Len(out))]
  /\ \A s, t \in 1 .. Len(h) : s # t => ToSet(M[s]) \cap ToSet(M[t]) = {}
  /\ \A s \in 1 .. Len(h) : h[s].type # "checkpoint" => \A k \in 1 .. Len(M[s]) :
        /\ k # 1 => out[M[s][k]].role = "tool"
        /\ h[s].type # "system" => OwnTools(out, M[s][k], s)

LEMMA FreshAt ==
  ASSUME NEW out, Fresh(out)
  PROVE  /\ Len(out) \in Nat
         /\ \A m \in 1 .. Len(out) : Len(out[m].parts) \in Nat /\ \E s : OfSource(out[m], s)
<1>1. Placed(out) /\ \A m \in 1 .. Len(out) : \E s : OfSource(out[m], s)
  BY DEF Fresh
<1>2. out \in Seq(RequestMessage)
  BY <1>1 DEF Placed
<1> QED
  BY <1>1, <1>2, RequestAt

\* A message with an id is its source's, and one with a source's call or result.
LEMMA OwnToolsIs ==
  ASSUME NEW out, Fresh(out), NEW m \in 1 .. Len(out), NEW s \in Nat, s # 0,
         \/ out[m].id = s
         \/ \E c \in 1 .. Len(out[m].parts) : ToolPart(out[m].parts[c]) /\ out[m].parts[c].call[1] = s
  PROVE  OwnTools(out, m, s)
<1>1. PICK z : OfSource(out[m], z)
  BY FreshAt
<1>2. z = s
  BY <1>1 DEF OfSource
<1> QED
  BY <1>1, <1>2 DEF OfSource, OwnTools

LEMMA PlacesAre ==
  ASSUME NEW out, Fresh(out), NEW ms, ms \subseteq 1 .. Len(out), NEW type, NEW call,
         NEW p \in Places(out, ms, type, call)
  PROVE  /\ p = <<p[1], p[2]>> /\ p[1] \in ms /\ p[1] \in Nat /\ p[2] \in Nat /\ p # NoPtr
         /\ p[2] \in 1 .. Len(out[p[1]].parts)
         /\ out[p[1]].parts[p[2]].type = type /\ out[p[1]].parts[p[2]].call = call
<1>1. PICK m \in ms : p \in {<<m, c>> : c \in 1 .. Len(out[m].parts)}
  BY DEF Places
<1>2. PICK c \in 1 .. Len(out[m].parts) : p = <<m, c>>
  BY <1>1
<1>3. out[p[1]].parts[p[2]].type = type /\ out[p[1]].parts[p[2]].call = call
  BY DEF Places
<1>4. Len(out) \in Nat /\ m \in 1 .. Len(out) /\ Len(out[m].parts) \in Nat
  BY FreshAt
<1>5. p[1] = m /\ p[2] = c
  BY <1>2
<1> QED
  BY <1>2, <1>3, <1>4, <1>5 DEF NoPtr

LEMMA FirstOfIs ==
  ASSUME NEW places, \A p \in places : p = <<p[1], p[2]>> /\ p[1] \in Nat /\ p[2] \in Nat,
         places # {}
  PROVE  FirstOf(places) \in places /\ \A q \in places \ {FirstOf(places)} : Earlier(FirstOf(places), q)
<1> DEFINE A == {p[1] : p \in places}
           B(a) == {p[2] : p \in {q \in places : q[1] = a}}
<1>1. PICK a \in A : \A y \in A : a <= y
  <2>1. A \subseteq Nat /\ A # {}
    OBVIOUS
  <2> HIDE DEF A
  <2> QED
    BY <2>1, NatMin
<1>2. PICK b \in B(a) : \A y \in B(a) : b <= y
  <2>1. B(a) \subseteq Nat /\ B(a) # {}
    BY <1>1
  <2> HIDE DEF B
  <2> QED
    BY <2>1, NatMin
<1>3. PICK w \in places : w[1] = a /\ w[2] = b
  BY <1>2
<1>4. ASSUME NEW q \in places, q # w
      PROVE  Earlier(w, q)
  <2>1. q = <<q[1], q[2]>> /\ q[1] \in Nat /\ q[2] \in Nat /\ w = <<a, b>> /\ a \in Nat /\ b \in Nat
    BY <1>3
  <2>2. a <= q[1]
    BY <1>1
  <2>3. q[1] = a => b <= q[2]
    BY <1>2
  <2> QED
    BY <1>3, <1>4, <2>1, <2>2, <2>3 DEF Earlier
<1>5. \E p \in places : \A q \in places \ {p} : Earlier(p, q)
  BY <1>4
<1>6. FirstOf(places) = CHOOSE p \in places : \A q \in places \ {p} : Earlier(p, q)
  BY DEF FirstOf
<1> QED
  BY <1>5, <1>6

LEMMA ResultPlaceIs ==
  ASSUME NEW out, Fresh(out), NEW ms, ms \subseteq 1 .. Len(out), NEW call, NEW prefer
  PROVE  /\ \/ ResultPlace(out, ms, call, prefer) = NoPtr /\ Places(out, ms, "tool-result", call) = {}
            \/ ResultPlace(out, ms, call, prefer) \in Places(out, ms, "tool-result", call)
<1> DEFINE all == Places(out, ms, "tool-result", call)
           first == {p \in all : (out[p[1]].role = "tool") = prefer}
           some == IF first # {} THEN first ELSE all
<1>1. ResultPlace(out, ms, call, prefer) = FirstOf(some)
  BY DEF ResultPlace
<1>2. \A p \in all : p = <<p[1], p[2]>> /\ p[1] \in Nat /\ p[2] \in Nat
  BY PlacesAre
<1>3. some \subseteq all /\ (some = {} => all = {})
  OBVIOUS
<1> HIDE DEF some, all
<1>4. CASE some = {}
  BY <1>1, <1>3, <1>4 DEF FirstOf, all
<1>5. CASE some # {}
  BY <1>1, <1>2, <1>3, <1>5, FirstOfIs DEF all
<1> QED
  BY <1>4, <1>5

\* A source takes messages that are free.
LEMMA Reclaimed ==
  ASSUME NEW h, NEW out, NEW M, Claiming(M, h, out), NEW n \in 1 .. Len(h),
         NEW q \in Seq(1 .. Len(out)), ToSet(q) \cap (Taken(M) \ ToSet(M[n])) = {},
         h[n].type # "checkpoint" => \A k \in 1 .. Len(q) :
            /\ k # 1 => out[q[k]].role = "tool"
            /\ h[n].type # "system" => OwnTools(out, q[k], n)
  PROVE  Claiming([M EXCEPT ![n] = q], h, out)
<1> DEFINE L == [M EXCEPT ![n] = q]
<1>1. /\ M \in [1 .. Len(h) -> Seq(1 .. Len(out))]
      /\ \A s, t \in 1 .. Len(h) : s # t => ToSet(M[s]) \cap ToSet(M[t]) = {}
      /\ \A s \in 1 .. Len(h) : h[s].type # "checkpoint" => \A k \in 1 .. Len(M[s]) :
           /\ k # 1 => out[M[s][k]].role = "tool"
           /\ h[s].type # "system" => OwnTools(out, M[s][k], s)
  BY DEF Claiming
<1>2. /\ L \in [1 .. Len(h) -> Seq(1 .. Len(out))] /\ L[n] = q
      /\ \A s \in 1 .. Len(h) : s # n => L[s] = M[s]
  BY <1>1
<1>3. \A s \in 1 .. Len(h) : s # n => ToSet(M[s]) \subseteq Taken(M) \ ToSet(M[n])
  BY <1>1 DEF Taken
<1> HIDE DEF L
<1>4. \A s, t \in 1 .. Len(h) : s # t => ToSet(L[s]) \cap ToSet(L[t]) = {}
  <2>1. ASSUME NEW s \in 1 .. Len(h), NEW t \in 1 .. Len(h), s # t
        PROVE  ToSet(L[s]) \cap ToSet(L[t]) = {}
    <3>1. CASE s # n /\ t # n
      BY <1>1, <1>2, <2>1, <3>1
    <3>2. CASE s = n
      BY <1>2, <1>3, <2>1, <3>2
    <3>3. CASE t = n
      BY <1>2, <1>3, <2>1, <3>3
    <3> QED
      BY <3>1, <3>2, <3>3
  <2> QED
    BY <2>1
<1>5. \A s \in 1 .. Len(h) : h[s].type # "checkpoint" => \A k \in 1 .. Len(L[s]) :
           /\ k # 1 => out[L[s][k]].role = "tool"
           /\ h[s].type # "system" => OwnTools(out, L[s][k], s)
  <2>1. ASSUME NEW s \in 1 .. Len(h), h[s].type # "checkpoint", NEW k \in 1 .. Len(L[s])
        PROVE  /\ k # 1 => out[L[s][k]].role = "tool"
               /\ h[s].type # "system" => OwnTools(out, L[s][k], s)
    <3>1. CASE s = n
      BY <1>2, <2>1, <3>1
    <3>2. CASE s # n
      BY <1>1, <1>2, <2>1, <3>2
    <3> QED
      BY <3>1, <3>2
  <2> QED
    BY <2>1
<1> QED
  BY <1>2, <1>4, <1>5 DEF Claiming, L

LEMMA SetOfSeq ==
  ASSUME NEW X, NEW s \in Seq(X)
  PROVE  ToSet(s) \subseteq X /\ ToSet(s) = {s[i] : i \in 1 .. Len(s)}
<1>1. ToSet(s) = {s[i] : i \in 1 .. Len(s)}
  BY SeqListed, SetOfListed
<1>2. \A i \in 1 .. Len(s) : s[i] \in X
  OBVIOUS
<1> QED
  BY <1>1, <1>2

LEMMA SetOfOne ==
  ASSUME NEW x
  PROVE  ToSet(<<x>>) = {x}
<1>1. <<x>> \in Seq({x}) /\ Len(<<x>>) = 1 /\ <<x>>[1] = x
  OBVIOUS
<1>2. ToSet(<<x>>) = {<<x>>[i] : i \in 1 .. Len(<<x>>)}
  BY <1>1, SetOfSeq
<1> QED
  BY <1>1, <1>2

ClaimMaps(h, out) == {M \in [1 .. Len(h) -> Seq(1 .. Len(out))] : Claiming(M, h, out)}
Claimings(h, out) == [msgs : ClaimMaps(h, out), clear : BOOLEAN]

LEMMA ClaimedIs ==
  ASSUME NEW h, Typed(h), NEW out, Fresh(out), NEW acc \in Claimings(h, out), NEW n \in 1 .. Len(h)
  PROVE  Claimed(h, out, acc, n) \in Claimings(h, out)
<1> DEFINE all == IF h[n].type = "system" THEN ByText(out, h[n].items[1].val) ELSE ById(out, n)
           free == all \ Taken(acc.msgs)
           M == acc.msgs
           q == <<Min(free)>>
           L == [M EXCEPT ![n] = q]
           clear == acc.clear /\ (h[n].type = "system" => Cardinality(free) = 1)
           c == Claimed(h, out, acc, n)
<1>1. c = IF ~Expected(h[n].type) \/ h[n].type = "checkpoint" \/ free = {} THEN acc
          ELSE [msgs |-> L, clear |-> clear]
  BY DEF Claimed
<1>2. Claiming(M, h, out)
  BY DEF Claimings, ClaimMaps
<1>3. clear \in BOOLEAN
  OBVIOUS
<1>4. ASSUME free # {}
      PROVE  L \in ClaimMaps(h, out)
  <2>1. Len(out) \in Nat /\ Len(h) \in Nat
    BY FreshAt, TypedAt
  <2>2. all \subseteq 1 .. Len(out)
    BY DEF ByText, ById
  <2>3. free \subseteq 1 .. Len(out) /\ free \subseteq 0 .. Len(out) /\ free \cap Taken(M) = {}
    BY <2>1, <2>2
  <2> DEFINE m == Min(free)
  <2>4. m \in free
    <3> HIDE DEF free
    <3> QED
      BY <1>4, <2>1, <2>3, Extremes
  <2>5. h[n].type # "system" => out[m].id = n
    BY <2>4 DEF ById
  <2> HIDE DEF free, m
  <2>6. m \in 1 .. Len(out) /\ m \notin Taken(M)
    BY <2>3, <2>4
  <2> DEFINE s == <<m>>
  <2>7. s \in Seq(1 .. Len(out)) /\ Len(s) = 1 /\ s[1] = m
    BY <2>6
  <2>8. ToSet(s) = {m}
    BY SetOfOne
  <2>9. h[n].type # "system" => OwnTools(out, m, n)
    BY <2>1, <2>5, <2>6, OwnToolsIs
  <2> HIDE DEF s
  <2>10. Claiming([M EXCEPT ![n] = s], h, out)
    <3>1. ToSet(s) \cap (Taken(M) \ ToSet(M[n])) = {}
      BY <2>6, <2>8
    <3>2. h[n].type # "checkpoint" => \A k \in 1 .. Len(s) :
            /\ k # 1 => out[s[k]].role = "tool"
            /\ h[n].type # "system" => OwnTools(out, s[k], n)
      BY <2>7, <2>9
    <3> HIDE DEF M
    <3> QED
      BY <1>2, <2>7, <3>1, <3>2, Reclaimed
  <2>11. L = [M EXCEPT ![n] = s]
    BY DEF s, m
  <2> HIDE DEF L
  <2> QED
    BY <2>10, <2>11 DEF ClaimMaps, Claiming
<1> HIDE DEF free, L, clear, c
<1> QED
  BY <1>1, <1>3, <1>4 DEF Claimings, c

LEMMA ClaimsAre ==
  ASSUME NEW h, Typed(h), NEW out, Fresh(out)
  PROVE  Claiming(Claims(h, out).msgs, h, out)
<1> DEFINE N == Len(h)
           A == Claimings(h, out)
           start == [msgs |-> [s \in 1 .. N |-> <<>>], clear |-> TRUE]
           stepOf == [n \in 1 .. N |-> [acc \in A |-> Claimed(h, out, acc, n)]]
           claim == CHOOSE f : f = [n \in 0 .. N |-> IF n = 0 THEN start ELSE Claimed(h, out, f[n - 1], n)]
<1>0. N \in Nat
  BY TypedAt
<1>1. start \in A
  <2> DEFINE M == [s \in 1 .. N |-> <<>>]
  <2>1. M \in [1 .. N -> Seq(1 .. Len(out))] /\ \A s \in 1 .. N : M[s] = <<>>
    OBVIOUS
  <2> HIDE DEF M
  <2>2. ToSet(<<>>) = {} /\ Len(<<>>) = 0
    BY DEF ToSet
  <2>3. Claiming(M, h, out)
    BY <2>1, <2>2 DEF Claiming
  <2> QED
    BY <2>1, <2>3 DEF Claimings, ClaimMaps, M
<1>2. stepOf \in [1 .. N -> [A -> A]]
  <2>1. \A n \in 1 .. N : \A acc \in A : Claimed(h, out, acc, n) \in A
    BY ClaimedIs
  <2> HIDE DEF A, N
  <2> QED
    BY <2>1
<1> HIDE DEF A, N, start
<1>3. PICK g : Runs(g, N, A, start, stepOf)
  <2> HIDE DEF stepOf
  <2> QED
    BY <1>0, <1>1, <1>2, Recursion
<1>4. /\ g \in [0 .. N -> A] /\ g[0] = start
      /\ \A n \in 1 .. N : g[n] = Claimed(h, out, g[n - 1], n) /\ g[n - 1] \in A
  <2>1. g \in [0 .. N -> A] /\ g[0] = start /\ \A n \in 1 .. N : g[n] = stepOf[n][g[n - 1]]
    BY <1>3 DEF Runs
  <2>2. \A n \in 1 .. N : n - 1 \in 0 .. N
    BY <1>0
  <2>3. \A n \in 1 .. N : g[n - 1] \in A
    BY <2>1, <2>2
  <2> QED
    BY <2>1, <2>3
<1> HIDE DEF stepOf
<1>5. g = [n \in 0 .. N |-> IF n = 0 THEN start ELSE Claimed(h, out, g[n - 1], n)]
  <2>1. g = [n \in 0 .. N |-> g[n]]
    BY <1>4
  <2>2. \A n \in 0 .. N : g[n] = IF n = 0 THEN start ELSE Claimed(h, out, g[n - 1], n)
    <3>1. \A n \in 0 .. N : n = 0 \/ n \in 1 .. N
      BY <1>0
    <3> QED
      BY <1>4, <3>1
  <2> QED
    BY <2>1, <2>2
<1>6. claim = [n \in 0 .. N |-> IF n = 0 THEN start ELSE Claimed(h, out, claim[n - 1], n)]
  BY <1>5, Zenon
<1>7. Claims(h, out) = claim[N]
  BY DEF Claims, start, N
<1> HIDE DEF claim
<1> DEFINE P == {k \in 0 .. N : claim[k] \in A}
<1>8. 0 \in P
  BY <1>0, <1>1, <1>6
<1>9. ASSUME NEW k \in 1 .. N, k - 1 \in P
      PROVE  k \in P
  <2>1. k \in 0 .. N /\ k # 0 /\ claim[k - 1] \in A
    BY <1>0, <1>9
  <2>2. claim[k] = Claimed(h, out, claim[k - 1], k)
    BY <1>6, <2>1
  <2> QED
    BY <2>1, <2>2, ClaimedIs DEF A, N
<1> HIDE DEF P
<1>10. \A k \in 0 .. N : k \in P
  BY <1>0, <1>8, <1>9, NatSteps
<1>11. claim[N] \in A
  BY <1>0, <1>10 DEF P
<1> QED
  BY <1>7, <1>11 DEF A, Claimings, ClaimMaps

LEMMA CheckpointClaimedIs ==
  ASSUME NEW h, Typed(h), NEW out, Fresh(out), NEW acc \in ClaimMaps(h, out), NEW n \in 1 .. Len(h)
  PROVE  CheckpointClaimed(h, out, acc, n) \in ClaimMaps(h, out)
<1> DEFINE before == UNION {ToSet(acc[t]) : t \in 1 .. (n - 1)}
           after == UNION {ToSet(acc[t]) : t \in (n + 1) .. Len(h)}
           from == IF before = {} THEN 1 ELSE Max(before) + 1
           to == IF after = {} THEN Len(out) ELSE Min(after) - 1
           S == (from .. to) \ Taken(acc)
           q == InOrder(S)
           l == Len(out)
<1>1. CheckpointClaimed(h, out, acc, n) = IF h[n].type # "checkpoint" THEN acc ELSE [acc EXCEPT ![n] = q]
  BY DEF CheckpointClaimed
<1>2. Claiming(acc, h, out) /\ acc \in [1 .. Len(h) -> Seq(1 .. l)]
  BY DEF ClaimMaps
<1>3. l \in Nat /\ Len(h) \in Nat
  BY FreshAt, TypedAt
<1>4. \A t \in 1 .. Len(h) : ToSet(acc[t]) \subseteq 1 .. l
  <2>1. ASSUME NEW t \in 1 .. Len(h)
        PROVE  ToSet(acc[t]) \subseteq 1 .. l
    <3> HIDE DEF l
    <3>1. acc[t] \in Seq(1 .. l)
      BY <1>2
    <3> QED
      BY ONLY <3>1, SetOfSeq
  <2> QED
    BY <2>1
<1> HIDE DEF l
<1>5. before \subseteq 1 .. l /\ after \subseteq 1 .. l /\ before \subseteq 0 .. l /\ after \subseteq 0 .. l
  <2>1. before \subseteq 1 .. l
    <3>1. \A t \in 1 .. (n - 1) : t \in 1 .. Len(h)
      BY <1>3
    <3> QED
      BY <1>4, <3>1
  <2>2. after \subseteq 1 .. l
    <3>1. \A t \in (n + 1) .. Len(h) : t \in 1 .. Len(h)
      BY <1>3
    <3> QED
      BY <1>4, <3>1
  <2> HIDE DEF before, after
  <2>3. \A x \in 1 .. l : x \in 0 .. l
    OBVIOUS
  <2> QED
    BY <2>1, <2>2, <2>3
<1> HIDE DEF before, after
<1>6. before # {} => Max(before) \in 1 .. l
  BY <1>3, <1>5, Extremes
<1>7. after # {} => Min(after) \in 1 .. l
  BY <1>3, <1>5, Extremes
<1>8. from \in 1 .. l + 1 /\ to \in 0 .. l
  BY <1>3, <1>6, <1>7 DEF l
<1> HIDE DEF from, to
<1>9. S \subseteq 1 .. l /\ S \subseteq 0 .. l /\ S \cap Taken(acc) = {}
  BY <1>3, <1>8
<1> HIDE DEF S
<1>10. Ascends(q, S)
  BY <1>3, <1>9, InOrderAscends
<1> HIDE DEF q
<1>11. q \in Seq(S) /\ q \in Seq(1 .. l)
  <2>1. q \in Seq(S)
    BY <1>10 DEF Ascends
  <2> QED
    BY <1>9, <2>1, SeqWider
<1>12. ToSet(q) \subseteq S
  <2>1. ToSet(q) = {q[i] : i \in 1 .. Len(q)}
    BY <1>11, SeqListed, SetOfListed
  <2> QED
    BY <1>11, <2>1
<1>13. ASSUME h[n].type = "checkpoint"
       PROVE  [acc EXCEPT ![n] = q] \in ClaimMaps(h, out)
  <2>1. ToSet(q) \cap (Taken(acc) \ ToSet(acc[n])) = {}
    BY <1>9, <1>12
  <2>2. Claiming([acc EXCEPT ![n] = q], h, out)
    BY <1>2, <1>11, <1>13, <2>1, Reclaimed DEF l
  <2> QED
    BY <2>2 DEF ClaimMaps, Claiming
<1> QED
  BY <1>1, <1>13

LEMMA CheckpointClaimsAre ==
  ASSUME NEW h, Typed(h), NEW out, Fresh(out), NEW msgs \in ClaimMaps(h, out)
  PROVE  CheckpointClaims(h, out, msgs) \in ClaimMaps(h, out)
<1> DEFINE N == Len(h)
           A == ClaimMaps(h, out)
           stepOf == [n \in 1 .. N |-> [acc \in A |-> CheckpointClaimed(h, out, acc, n)]]
           claim == CHOOSE f : f = [n \in 0 .. N |->
                      IF n = 0 THEN msgs ELSE CheckpointClaimed(h, out, f[n - 1], n)]
<1>0. N \in Nat
  BY TypedAt
<1>2. stepOf \in [1 .. N -> [A -> A]]
  <2>1. \A n \in 1 .. N : \A acc \in A : CheckpointClaimed(h, out, acc, n) \in A
    BY CheckpointClaimedIs
  <2> HIDE DEF A, N
  <2> QED
    BY <2>1
<1> HIDE DEF A, N
<1>1. msgs \in A
  BY DEF A
<1>3. PICK g : Runs(g, N, A, msgs, stepOf)
  <2> HIDE DEF stepOf
  <2> QED
    BY <1>0, <1>1, <1>2, Recursion
<1>4. /\ g \in [0 .. N -> A] /\ g[0] = msgs
      /\ \A n \in 1 .. N : g[n] = CheckpointClaimed(h, out, g[n - 1], n) /\ g[n - 1] \in A
  <2>1. g \in [0 .. N -> A] /\ g[0] = msgs /\ \A n \in 1 .. N : g[n] = stepOf[n][g[n - 1]]
    BY <1>3 DEF Runs
  <2>2. \A n \in 1 .. N : n - 1 \in 0 .. N
    BY <1>0
  <2>3. \A n \in 1 .. N : g[n - 1] \in A
    BY <2>1, <2>2
  <2> QED
    BY <2>1, <2>3
<1> HIDE DEF stepOf
<1>5. g = [n \in 0 .. N |-> IF n = 0 THEN msgs ELSE CheckpointClaimed(h, out, g[n - 1], n)]
  <2>1. g = [n \in 0 .. N |-> g[n]]
    BY <1>4
  <2>2. \A n \in 0 .. N : g[n] = IF n = 0 THEN msgs ELSE CheckpointClaimed(h, out, g[n - 1], n)
    <3>1. \A n \in 0 .. N : n = 0 \/ n \in 1 .. N
      BY <1>0
    <3> QED
      BY <1>4, <3>1
  <2> QED
    BY <2>1, <2>2
<1>6. claim = [n \in 0 .. N |-> IF n = 0 THEN msgs ELSE CheckpointClaimed(h, out, claim[n - 1], n)]
  BY <1>5, Zenon
<1>7. CheckpointClaims(h, out, msgs) = claim[N]
  BY DEF CheckpointClaims, N
<1> HIDE DEF claim
<1> DEFINE P == {k \in 0 .. N : claim[k] \in A}
<1>8. 0 \in P
  BY <1>0, <1>1, <1>6
<1>9. ASSUME NEW k \in 1 .. N, k - 1 \in P
      PROVE  k \in P
  <2>1. k \in 0 .. N /\ k # 0 /\ claim[k - 1] \in A
    BY <1>0, <1>9
  <2>2. claim[k] = CheckpointClaimed(h, out, claim[k - 1], k)
    BY <1>6, <2>1
  <2> QED
    BY <2>1, <2>2, CheckpointClaimedIs DEF A, N
<1> HIDE DEF P
<1>10. \A k \in 0 .. N : k \in P
  BY <1>0, <1>8, <1>9, NatSteps
<1>11. claim[N] \in A
  BY <1>0, <1>10 DEF P
<1> QED
  BY <1>7, <1>11 DEF A

\* The calls whose results are looked for.
CallPlaces(h) == {z \in Nat \X Nat : z[1] \in 1 .. Len(h) /\ h[z[1]].type = "assistant"}

LEMMA ResultClaimedIs ==
  ASSUME NEW h, Typed(h), NEW out, Fresh(out), NEW acc \in ClaimMaps(h, out), NEW call \in CallPlaces(h)
  PROVE  ResultClaimed(h, out, acc, call) \in ClaimMaps(h, out)
<1> DEFINE s == call[1]
           own == ToSet(acc[s])
           item == h[s].items[call[2]]
           free == {m \in 1 .. Len(out) : out[m].role = "tool"} \ Taken(acc)
           place == ResultPlace(out, free \cup own, call, TRUE)
           m == place[1]
           q == Append(acc[s], m)
           c == ResultClaimed(h, out, acc, call)
           L == [acc EXCEPT ![s] = Append(@, m)]
<1>1. c = IF item.kind # "tool" \/ item.exec \/ place = NoPtr \/ m \in own THEN acc ELSE L
  BY DEF ResultClaimed
<1>2. Claiming(acc, h, out) /\ acc \in [1 .. Len(h) -> Seq(1 .. Len(out))]
  BY DEF ClaimMaps
<1>3. s \in 1 .. Len(h) /\ h[s].type = "assistant" /\ Len(h) \in Nat
  BY TypedAt DEF CallPlaces
<1>4. L = [acc EXCEPT ![s] = q]
  BY <1>2, <1>3
<1> HIDE DEF c, L
<1>5. acc[s] \in Seq(1 .. Len(out)) /\ own \subseteq 1 .. Len(out)
  <2> HIDE DEF s
  <2>1. acc[s] \in Seq(1 .. Len(out))
    BY <1>2, <1>3
  <2> QED
    BY <2>1, SetOfSeq
<1> HIDE DEF own
<1>6. free \subseteq 1 .. Len(out) /\ free \cap Taken(acc) = {} /\ \A k \in free : out[k].role = "tool"
  OBVIOUS
<1> HIDE DEF free, item
<1>7. ASSUME place # NoPtr, m \notin own
      PROVE  L \in ClaimMaps(h, out)
  <2>0. free \cup own \subseteq 1 .. Len(out)
    BY <1>5, <1>6
  <2>1. place \in Places(out, free \cup own, "tool-result", call)
    <3> HIDE DEF m
    <3> QED
      BY <1>7, <2>0, ResultPlaceIs DEF place
  <2>2. /\ m \in free \cup own /\ place[2] \in 1 .. Len(out[m].parts)
        /\ out[m].parts[place[2]].type = "tool-result" /\ out[m].parts[place[2]].call = call
    <3> HIDE DEF place
    <3> QED
      BY <2>0, <2>1, PlacesAre
  <2>3. m \in free /\ m \in 1 .. Len(out) /\ out[m].role = "tool" /\ m \notin Taken(acc)
    BY <1>6, <1>7, <2>2
  <2> HIDE DEF place
  <2>4. OwnTools(out, m, s)
    <3>1. ToolPart(out[m].parts[place[2]])
      BY <2>2 DEF ToolPart
    <3>2. s \in Nat /\ s # 0 /\ out[m].parts[place[2]].call[1] = s
      BY <1>3, <2>2
    <3> HIDE DEF m, s
    <3> QED
      BY <2>2, <2>3, <3>1, <3>2, OwnToolsIs
  <2> HIDE DEF m
  <2> DEFINE l == Len(acc[s])
  <2>5. /\ q \in Seq(1 .. Len(out)) /\ l \in Nat /\ Len(q) = l + 1
        /\ \A k \in 1 .. l + 1 : q[k] = IF k = l + 1 THEN m ELSE acc[s][k]
    <3> HIDE DEF s
    <3> QED
      BY <1>5, <2>3
  <2> HIDE DEF q
  <2>6. ToSet(q) \subseteq own \cup {m}
    <3>1. ToSet(q) = {q[k] : k \in 1 .. Len(q)} /\ own = {acc[s][k] : k \in 1 .. l}
      <4>1. ToSet(q) = {q[k] : k \in 1 .. Len(q)}
        BY <2>5, SetOfSeq
      <4> DEFINE x == acc[s]
      <4>2. x \in Seq(1 .. Len(out)) /\ own = ToSet(x) /\ l = Len(x)
        BY <1>5 DEF own
      <4> HIDE DEF x, l
      <4>3. own = {x[k] : k \in 1 .. l}
        BY <4>2, SetOfSeq
      <4> QED
        BY <4>1, <4>3 DEF x
    <3> HIDE DEF l
    <3>2. \A k \in 1 .. l + 1 : k = l + 1 \/ k \in 1 .. l
      BY <2>5
    <3> QED
      BY <2>5, <3>1, <3>2
  <2>7. ToSet(q) \cap (Taken(acc) \ ToSet(acc[s])) = {}
    BY <2>3, <2>6 DEF own
  <2>8. ASSUME NEW k \in 1 .. Len(q)
        PROVE  (k # 1 => out[q[k]].role = "tool") /\ OwnTools(out, q[k], s)
    <3>1. CASE k = l + 1
      BY <2>3, <2>4, <2>5, <3>1
    <3>2. CASE k # l + 1
      <4>1. k \in 1 .. l /\ q[k] = acc[s][k]
        BY <2>5, <3>2
      <4>2. "assistant" # "checkpoint" /\ "assistant" # "system"
        OBVIOUS
      <4> HIDE DEF l, s
      <4> QED
        BY <1>2, <1>3, <4>1, <4>2 DEF Claiming, l
    <3> QED
      BY <3>1, <3>2
  <2> HIDE DEF s
  <2>9. Claiming([acc EXCEPT ![s] = q], h, out)
    BY <1>2, <1>3, <2>5, <2>7, <2>8, Reclaimed
  <2> QED
    BY <1>4, <2>9 DEF ClaimMaps, Claiming
<1> HIDE DEF place, m
<1> QED
  BY <1>1, <1>7 DEF c

LEMMA ResultClaimsAre ==
  ASSUME NEW h, Typed(h), NEW out, Fresh(out), NEW msgs \in ClaimMaps(h, out)
  PROVE  ResultClaims(h, out, msgs) \in ClaimMaps(h, out)
<1> DEFINE per == [s \in 1 .. Len(h) |->
                     IF h[s].type = "assistant" THEN [j \in 1 .. Len(h[s].items) |-> <<s, j>>] ELSE <<>>]
           calls == FlattenSeq(per)
           N == Len(calls)
           A == ClaimMaps(h, out)
           stepOf == [n \in 1 .. N |-> [acc \in A |-> ResultClaimed(h, out, acc, calls[n])]]
           claim == CHOOSE f : f = [n \in 0 .. N |->
                      IF n = 0 THEN msgs ELSE ResultClaimed(h, out, f[n - 1], calls[n])]
<1>7. ResultClaims(h, out, msgs) = claim[N]
  BY DEF ResultClaims
<1>a. calls \in Seq(CallPlaces(h))
  <2>1. ASSUME NEW s \in 1 .. Len(h)
        PROVE  per[s] \in Seq(CallPlaces(h))
    <3>1. Len(h) \in Nat /\ h[s] \in [type : STRING, items : Seq(Item)]
      BY TypedAt
    <3> DEFINE n == Len(h[s].items)
               q == [j \in 1 .. n |-> <<s, j>>]
    <3>2. n \in Nat
      <4>1. h[s].items \in Seq(Item)
        BY <3>1
      <4> QED
        BY <4>1
    <3>3. per[s] = IF h[s].type = "assistant" THEN q ELSE <<>>
      OBVIOUS
    <3> HIDE DEF per, n
    <3>4. ASSUME h[s].type = "assistant"
          PROVE  q \in Seq(CallPlaces(h))
      <4>1. \A j \in 1 .. n : <<s, j>> \in CallPlaces(h)
        BY <3>1, <3>2, <3>4 DEF CallPlaces
      <4>2. q \in [1 .. n -> CallPlaces(h)]
        BY <4>1
      <4> HIDE DEF q
      <4> QED
        BY <3>2, <4>2
    <3> HIDE DEF q
    <3> QED
      BY <3>3, <3>4
  <2>2. per = [s \in 1 .. Len(h) |-> per[s]] /\ Len(h) \in Nat
    BY TypedAt
  <2> HIDE DEF per
  <2> QED
    BY <2>1, <2>2, FlattenSeqIs
<1> HIDE DEF calls
<1>0. N \in Nat /\ \A n \in 1 .. N : calls[n] \in CallPlaces(h)
  BY <1>a
<1>2. stepOf \in [1 .. N -> [A -> A]]
  <2>1. \A n \in 1 .. N : \A acc \in A : ResultClaimed(h, out, acc, calls[n]) \in A
    BY <1>0, ResultClaimedIs
  <2> HIDE DEF A, N
  <2> QED
    BY <2>1
<1>b. \A n \in 1 .. N : \A acc \in A : ResultClaimed(h, out, acc, calls[n]) \in A
  BY <1>0, ResultClaimedIs
<1> HIDE DEF A, N
<1>1. msgs \in A
  BY DEF A
<1>3. PICK g : Runs(g, N, A, msgs, stepOf)
  <2> HIDE DEF stepOf
  <2> QED
    BY <1>0, <1>1, <1>2, Recursion
<1>4. /\ g \in [0 .. N -> A] /\ g[0] = msgs
      /\ \A n \in 1 .. N : g[n] = ResultClaimed(h, out, g[n - 1], calls[n]) /\ g[n - 1] \in A
  <2>1. g \in [0 .. N -> A] /\ g[0] = msgs /\ \A n \in 1 .. N : g[n] = stepOf[n][g[n - 1]]
    BY <1>3 DEF Runs
  <2>2. \A n \in 1 .. N : n - 1 \in 0 .. N
    BY <1>0
  <2>3. \A n \in 1 .. N : g[n - 1] \in A
    BY <2>1, <2>2
  <2> QED
    BY <2>1, <2>3
<1> HIDE DEF stepOf
<1>5. g = [n \in 0 .. N |-> IF n = 0 THEN msgs ELSE ResultClaimed(h, out, g[n - 1], calls[n])]
  <2>1. g = [n \in 0 .. N |-> g[n]]
    BY <1>4
  <2>2. \A n \in 0 .. N : g[n] = IF n = 0 THEN msgs ELSE ResultClaimed(h, out, g[n - 1], calls[n])
    <3>1. \A n \in 0 .. N : n = 0 \/ n \in 1 .. N
      BY <1>0
    <3> QED
      BY <1>4, <3>1
  <2> QED
    BY <2>1, <2>2
<1>6. claim = [n \in 0 .. N |-> IF n = 0 THEN msgs ELSE ResultClaimed(h, out, claim[n - 1], calls[n])]
  BY <1>5, Zenon
<1> HIDE DEF claim
<1> DEFINE P == {k \in 0 .. N : claim[k] \in A}
<1>8. 0 \in P
  BY <1>0, <1>1, <1>6
<1>9. ASSUME NEW k \in 1 .. N, k - 1 \in P
      PROVE  k \in P
  <2>1. k \in 0 .. N /\ k # 0 /\ claim[k - 1] \in A
    BY <1>0, <1>9
  <2>2. claim[k] = ResultClaimed(h, out, claim[k - 1], calls[k])
    BY <1>6, <2>1
  <2> QED
    BY <1>b, <2>1, <2>2
<1> HIDE DEF P
<1>10. \A k \in 0 .. N : k \in P
  BY <1>0, <1>8, <1>9, NatSteps
<1>11. claim[N] \in A
  BY <1>0, <1>10 DEF P
<1> QED
  BY <1>7, <1>11 DEF A

-----------------------------------------------------------------------------
(* The places of a source's items.                                         *)

TextAccs == [at : Seq(Nat \X Nat), cursor : Nat \ {0}]
\* ptr is the place of the text item in message m.
FoundAt(ptr, item, out, m) ==
  /\ item.kind \notin {"tool", "attachment"}
  /\ ptr = <<m, ptr[2]>> /\ ptr[2] \in 1 .. Len(out[m].parts)
  /\ out[m].parts[ptr[2]].type \in {"text", "reasoning"} /\ out[m].parts[ptr[2]].val = item.val
\* The places of the first n items, each behind the one before and before the cursor.
PlacedTexts(at, src, out, m, n, cursor) ==
  /\ at \in Seq(Nat \X Nat) /\ Len(at) = n
  /\ \A j \in 1 .. n : at[j] = NoPtr \/ (FoundAt(at[j], src.items[j], out, m) /\ at[j][2] < cursor)
  /\ \A i, j \in 1 .. n : i < j /\ at[i] # NoPtr /\ at[j] # NoPtr => at[i][2] < at[j][2]

LEMMA TextPlacedIs ==
  ASSUME NEW src, NEW out, Fresh(out), NEW m \in 1 .. Len(out), NEW acc \in TextAccs, NEW n \in Nat \ {0}
  PROVE  /\ TextPlaced(src, out, m, acc, n) \in TextAccs
         /\ PlacedTexts(acc.at, src, out, m, n - 1, acc.cursor) =>
              PlacedTexts(TextPlaced(src, out, m, acc, n).at, src, out, m, n,
                          TextPlaced(src, out, m, acc, n).cursor)
<1> DEFINE item == src.items[n]
           l == Len(out[m].parts)
           types == IF item.kind = "reasoning" THEN {"text", "reasoning"} ELSE {"text"}
           hits == {c \in acc.cursor .. l :
                      out[m].parts[c].type \in types /\ out[m].parts[c].val = item.val}
           none == item.kind \in {"tool", "attachment"} \/ hits = {}
           x == IF none THEN NoPtr ELSE <<m, Min(hits)>>
           cursor == IF none THEN acc.cursor ELSE Min(hits) + 1
           at == Append(acc.at, x)
           t == TextPlaced(src, out, m, acc, n)
<1>0. l \in Nat /\ m \in Nat
  BY FreshAt
<1>1. acc.at \in Seq(Nat \X Nat) /\ acc.cursor \in Nat /\ acc.cursor # 0
      /\ acc = [at |-> acc.at, cursor |-> acc.cursor]
  BY DEF TextAccs
<1>2. t = [at |-> at, cursor |-> cursor]
  <2>1. t = IF none THEN [at |-> Append(acc.at, NoPtr), cursor |-> acc.cursor]
            ELSE [at |-> Append(acc.at, <<m, Min(hits)>>), cursor |-> Min(hits) + 1]
    BY DEF TextPlaced
  <2> HIDE DEF none, hits, t
  <2>2. CASE none
    BY <2>1, <2>2
  <2>3. CASE ~none
    BY <2>1, <2>3
  <2> QED
    BY <2>2, <2>3
<1> HIDE DEF t
<1>3. ASSUME ~none
      PROVE  /\ Min(hits) \in hits /\ Min(hits) \in acc.cursor .. l /\ Min(hits) \in Nat
             /\ FoundAt(<<m, Min(hits)>>, item, out, m)
  <2> DEFINE k == Min(hits)
  <2>1. hits \subseteq 0 .. l /\ hits # {}
    <3>1. hits # {} /\ hits \subseteq acc.cursor .. l
      BY <1>3
    <3> HIDE DEF hits
    <3> QED
      BY <1>0, <1>1, <3>1
  <2>2. k \in hits
    <3> HIDE DEF hits
    <3> QED
      BY <1>0, <2>1, Extremes
  <2>3. /\ k \in acc.cursor .. l /\ out[m].parts[k].type \in types /\ out[m].parts[k].val = item.val
    BY <2>2
  <2>4. item.kind \notin {"tool", "attachment"}
    BY <1>3
  <2> HIDE DEF k, hits, item
  <2>5. k \in Nat /\ k \in 1 .. l
    BY <1>0, <1>1, <2>3
  <2>6. out[m].parts[k].type \in {"text", "reasoning"}
    BY <2>3
  <2> HIDE DEF types
  <2>7. FoundAt(<<m, k>>, item, out, m)
    BY <2>3, <2>4, <2>5, <2>6 DEF FoundAt
  <2> QED
    BY <2>2, <2>3, <2>5, <2>7 DEF k
<1> HIDE DEF none, hits, item
<1>4. /\ x \in Nat \X Nat /\ cursor \in Nat \ {0}
      /\ x = NoPtr \/ (FoundAt(x, item, out, m) /\ acc.cursor <= x[2] /\ x[2] < cursor)
      /\ acc.cursor <= cursor
  <2>1. CASE none
    BY <1>1, <2>1 DEF NoPtr
  <2>2. CASE ~none
    <3> DEFINE k == Min(hits)
    <3>1. k \in Nat /\ k \in acc.cursor .. l /\ x = <<m, k>> /\ cursor = k + 1
      BY <1>3, <2>2
    <3>2. FoundAt(x, item, out, m)
      BY <1>3, <2>2
    <3> HIDE DEF k
    <3> QED
      BY <1>0, <1>1, <3>1, <3>2
  <2> QED
    BY <2>1, <2>2
<1> HIDE DEF x, cursor
<1>5. at \in Seq(Nat \X Nat)
  BY <1>1, <1>4
<1>6. t \in TextAccs
  BY <1>2, <1>4, <1>5 DEF TextAccs
<1>7. ASSUME PlacedTexts(acc.at, src, out, m, n - 1, acc.cursor)
      PROVE  PlacedTexts(at, src, out, m, n, cursor)
  <2> DEFINE a == acc.at
  <2>1. /\ a \in Seq(Nat \X Nat) /\ Len(a) = n - 1
        /\ \A j \in 1 .. n - 1 : a[j] = NoPtr \/ (FoundAt(a[j], src.items[j], out, m) /\ a[j][2] < acc.cursor)
        /\ \A i, j \in 1 .. n - 1 : i < j /\ a[i] # NoPtr /\ a[j] # NoPtr => a[i][2] < a[j][2]
    BY <1>7 DEF PlacedTexts
  <2>2. at = Append(a, x)
    OBVIOUS
  <2> HIDE DEF a, at
  <2>3. Len(at) = n /\ at[n] = x /\ \A j \in 1 .. n - 1 : at[j] = a[j]
    BY <1>4, <2>1, <2>2
  <2>4. \A j \in 1 .. n : j = n \/ j \in 1 .. n - 1
    OBVIOUS
  <2>5. \A j \in 1 .. n : at[j] = NoPtr \/ (FoundAt(at[j], src.items[j], out, m) /\ at[j][2] < cursor)
    <3>1. ASSUME NEW j \in 1 .. n - 1
          PROVE  at[j] = NoPtr \/ (FoundAt(at[j], src.items[j], out, m) /\ at[j][2] < cursor)
      <4>1. a[j][2] \in Nat
        BY <2>1
      <4>2. at[j] = a[j]
        BY <2>3
      <4>3. CASE a[j] = NoPtr
        BY <4>2, <4>3
      <4>4. CASE FoundAt(a[j], src.items[j], out, m) /\ a[j][2] < acc.cursor
        <5>1. a[j][2] < cursor
          BY <1>1, <1>4, <4>1, <4>4
        <5> QED
          BY <4>2, <4>4, <5>1
      <4> QED
        BY <2>1, <4>3, <4>4
    <3> QED
      BY <1>4, <2>3, <2>4, <3>1 DEF item
  <2>6. \A i, j \in 1 .. n : i < j /\ at[i] # NoPtr /\ at[j] # NoPtr => at[i][2] < at[j][2]
    <3>1. ASSUME NEW i \in 1 .. n, NEW j \in 1 .. n, i < j, at[i] # NoPtr, at[j] # NoPtr
          PROVE  at[i][2] < at[j][2]
      <4>1. i \in 1 .. n - 1 /\ a[i][2] \in Nat
        BY <2>1, <3>1
      <4>2. CASE j = n
        <5>1. at[j] = x /\ acc.cursor <= x[2] /\ a[i][2] < acc.cursor /\ x[2] \in Nat
          BY <1>4, <2>1, <2>3, <3>1, <4>1, <4>2
        <5> QED
          BY <1>1, <2>3, <4>1, <5>1
      <4>3. CASE j # n
        BY <2>1, <2>3, <2>4, <3>1, <4>1, <4>3
      <4> QED
        BY <4>2, <4>3
    <3> QED
      BY <3>1
  <2>7. at \in Seq(Nat \X Nat)
    BY <1>5 DEF at
  <2> QED
    BY <2>3, <2>5, <2>6, <2>7 DEF PlacedTexts
<1> HIDE DEF at
<1> QED
  BY <1>2, <1>6, <1>7 DEF t

LEMMA TextPlacesAre ==
  ASSUME NEW src \in [type : STRING, items : Seq(Item)], NEW out, Fresh(out), NEW m \in 1 .. Len(out)
  PROVE  \E cursor : PlacedTexts(TextPlaces(src, out, m), src, out, m, Len(src.items), cursor)
<1> DEFINE N == Len(src.items)
           A == TextAccs
           start == [at |-> <<>>, cursor |-> 1]
           stepOf == [n \in 1 .. N |-> [acc \in A |-> TextPlaced(src, out, m, acc, n)]]
           place == CHOOSE f : f = [n \in 0 .. N |->
                      IF n = 0 THEN start ELSE TextPlaced(src, out, m, f[n - 1], n)]
<1>0. N \in Nat
  <2>1. src.items \in Seq(Item)
    OBVIOUS
  <2> QED
    BY <2>1
<1>1. start \in A /\ PlacedTexts(start.at, src, out, m, 0, start.cursor)
  BY DEF TextAccs, PlacedTexts
<1>a. \A n \in 1 .. N : \A acc \in A :
        /\ TextPlaced(src, out, m, acc, n) \in A
        /\ PlacedTexts(acc.at, src, out, m, n - 1, acc.cursor) =>
             PlacedTexts(TextPlaced(src, out, m, acc, n).at, src, out, m, n,
                         TextPlaced(src, out, m, acc, n).cursor)
  <2>1. \A n \in 1 .. N : n \in Nat \ {0}
    BY <1>0
  <2> QED
    BY <2>1, TextPlacedIs
<1>2. stepOf \in [1 .. N -> [A -> A]]
  <2> HIDE DEF A, N
  <2> QED
    BY <1>a
<1>7. TextPlaces(src, out, m) = place[N].at
  BY DEF TextPlaces
<1> HIDE DEF A, N, start
<1>3. PICK g : Runs(g, N, A, start, stepOf)
  <2> HIDE DEF stepOf
  <2> QED
    BY <1>0, <1>1, <1>2, Recursion
<1>4. /\ g \in [0 .. N -> A] /\ g[0] = start
      /\ \A n \in 1 .. N : g[n] = TextPlaced(src, out, m, g[n - 1], n) /\ g[n - 1] \in A
  <2>1. g \in [0 .. N -> A] /\ g[0] = start /\ \A n \in 1 .. N : g[n] = stepOf[n][g[n - 1]]
    BY <1>3 DEF Runs
  <2>2. \A n \in 1 .. N : n - 1 \in 0 .. N
    BY <1>0
  <2>3. \A n \in 1 .. N : g[n - 1] \in A
    BY <2>1, <2>2
  <2> QED
    BY <2>1, <2>3
<1> HIDE DEF stepOf
<1>5. g = [n \in 0 .. N |-> IF n = 0 THEN start ELSE TextPlaced(src, out, m, g[n - 1], n)]
  <2>1. g = [n \in 0 .. N |-> g[n]]
    BY <1>4
  <2>2. \A n \in 0 .. N : g[n] = IF n = 0 THEN start ELSE TextPlaced(src, out, m, g[n - 1], n)
    <3>1. \A n \in 0 .. N : n = 0 \/ n \in 1 .. N
      BY <1>0
    <3> QED
      BY <1>4, <3>1
  <2> QED
    BY <2>1, <2>2
<1>6. place = [n \in 0 .. N |-> IF n = 0 THEN start ELSE TextPlaced(src, out, m, place[n - 1], n)]
  BY <1>5, Zenon
<1> HIDE DEF place
<1> DEFINE P == {k \in 0 .. N : place[k] \in A /\ PlacedTexts(place[k].at, src, out, m, k, place[k].cursor)}
<1>8. 0 \in P
  BY <1>0, <1>1, <1>6
<1>9. ASSUME NEW k \in 1 .. N, k - 1 \in P
      PROVE  k \in P
  <2>1. /\ k \in 0 .. N /\ k # 0 /\ place[k - 1] \in A
        /\ PlacedTexts(place[k - 1].at, src, out, m, k - 1, place[k - 1].cursor)
    BY <1>0, <1>9
  <2>2. place[k] = TextPlaced(src, out, m, place[k - 1], k)
    BY <1>6, <2>1
  <2> QED
    BY <1>a, <2>1, <2>2
<1> HIDE DEF P
<1>10. \A k \in 0 .. N : k \in P
  BY <1>0, <1>8, <1>9, NatSteps
<1>11. PlacedTexts(place[N].at, src, out, m, N, place[N].cursor)
  BY <1>0, <1>10 DEF P
<1> QED
  BY <1>7, <1>11 DEF N

-----------------------------------------------------------------------------
(* The origins.                                                            *)

LEMMA SomeIs ==
  ASSUME NEW X, NEW s \in Seq(X)
  PROVE  Listed(Some(s)) /\ ToSet(Some(s)) = {x \in ToSet(s) : x # NoPtr}
<1> DEFINE S == {i \in DOMAIN s : s[i] # NoPtr}
           t == Some(s)
           f == InOrder(S)
<1>1. DOMAIN s = 1 .. Len(s) /\ S \subseteq 1 .. Len(s)
  OBVIOUS
<1>2. t = At(s, S)
  BY DEF Some
<1> HIDE DEF t, f
<1>3. t \in Seq(X) /\ Picks(t, s, S, f)
  <2> HIDE DEF S
  <2> QED
    BY <1>1, <1>2, AtPicks DEF f
<1>4. Listed(t) /\ ToSet(t) = {t[k] : k \in 1 .. Len(t)} /\ ToSet(s) = {s[i] : i \in 1 .. Len(s)}
  BY <1>3, SeqListed, SetOfSeq
<1>5. /\ Len(t) = Len(f) /\ \A k \in 1 .. Len(t) : f[k] \in S /\ t[k] = s[f[k]]
      /\ \A i \in S : \E k \in 1 .. Len(f) : f[k] = i
  BY <1>3 DEF Picks, Ascends
<1>6. \A k \in 1 .. Len(t) : t[k] \in {x \in ToSet(s) : x # NoPtr}
  BY <1>1, <1>4, <1>5
<1>7. \A i \in 1 .. Len(s) : s[i] # NoPtr => s[i] \in ToSet(t)
  <2>1. ASSUME NEW i \in 1 .. Len(s), s[i] # NoPtr
        PROVE  s[i] \in ToSet(t)
    <3>1. i \in S
      BY <1>1, <2>1
    <3>2. PICK k \in 1 .. Len(t) : f[k] = i
      BY <1>5, <3>1
    <3> QED
      BY <1>4, <1>5, <3>2
  <2> QED
    BY <2>1
<1>8. ToSet(t) = {x \in ToSet(s) : x # NoPtr}
  BY <1>4, <1>6, <1>7
<1> QED
  BY <1>4, <1>8 DEF t

PtrIs(ptr, out, ms) == ptr = <<ptr[1], ptr[2]>> /\ ptr[1] \in ms /\ ptr[2] \in 1 .. Len(out[ptr[1]].parts)
\* What an origin of source s, whose messages are ms, notes.
OriginIs(o, out, ms, s) ==
  /\ o.key \in Nat \X Nat /\ o.key[1] = s
  /\ o.kind \in Word /\ o.val \in Word /\ o.st \in Word /\ o.opaque \in BOOLEAN
  /\ Listed(o.ptrs) /\ \A ptr \in ToSet(o.ptrs) : PtrIs(ptr, out, ms)
  /\ o.kind # "tool" => o.call = NoPtr /\ o.result = NoPtr
  /\ o.call # NoPtr => o.call \in ToSet(o.ptrs) /\ PartAt(out, o.call).type = "tool-call"
  /\ o.result # NoPtr => o.result \in ToSet(o.ptrs) /\ PartAt(out, o.result).type = "tool-result"
\* But for a checkpoint's, the parts it points at are those of its item.
OriginTraced(o, out, ms) ==
  /\ o.kind = "tool" =>
       /\ \A ptr \in ToSet(o.ptrs) : ToolPart(PartAt(out, ptr)) /\ PartAt(out, ptr).call = o.key
       /\ Places(out, ms, "tool-result", o.key) # {} => o.result # NoPtr
  /\ o.kind = "attachment" => o.opaque /\ \A ptr \in ToSet(o.ptrs) : PartAt(out, ptr).type = "media"
  /\ o.kind \notin {"tool", "attachment"} => \A ptr \in ToSet(o.ptrs) :
       PartAt(out, ptr).type \in {"text", "reasoning"} /\ PartAt(out, ptr).val = o.val

\* What Origin(key, item, op, ptrs) is.
MadeOf(o, key, item, op, ptrs) ==
  /\ o.key = key /\ o.kind = item.kind /\ o.opaque = op /\ o.ptrs = ptrs /\ o.val = item.val
  /\ o.st = item.st

Keyed(o, key, kind) == o.key = key /\ o.kind = kind

LEMMA OriginMade ==
  ASSUME NEW key \in Nat \X Nat, NEW item, item.kind \in Word, item.val \in Word, item.st \in Word, NEW op \in BOOLEAN, NEW ptrs, Listed(ptrs),
         NEW out, NEW ms, \A ptr \in ToSet(ptrs) : PtrIs(ptr, out, ms),
         NEW o, o = Origin(key, item, op, ptrs)
  PROVE  /\ OriginIs(o, out, ms, key[1]) /\ MadeOf(o, key, item, op, ptrs)
         /\ o.call = NoPtr /\ o.result = NoPtr
<1>2. /\ o.key = key /\ o.kind = item.kind /\ o.opaque = op /\ o.ptrs = ptrs /\ o.call = NoPtr
      /\ o.result = NoPtr /\ o.val = item.val /\ o.st = item.st
  BY DEF Origin
<1>3. OriginIs(o, out, ms, key[1])
  BY <1>2 DEF OriginIs
<1> QED
  BY <1>2, <1>3 DEF MadeOf

LEMMA TextOriginIs ==
  ASSUME NEW s \in Nat, NEW j \in Nat, NEW item \in Item, item.kind \notin {"tool", "attachment"},
         NEW op \in BOOLEAN, NEW out, NEW ms, NEW x,
         x = NoPtr \/ \E m \in ms : FoundAt(x, item, out, m), NEW o, o = Origin(<<s, j>>, item, op, Some(<<x>>))
  PROVE  /\ OriginIs(o, out, ms, s) /\ OriginTraced(o, out, ms)
         /\ Keyed(o, <<s, j>>, item.kind) /\ ToSet(o.ptrs) = {x} \ {NoPtr}
<1> DEFINE w == <<x>>
           ptrs == Some(w)
<1>1. w \in Seq({x}) /\ ToSet(w) = {x}
  BY SetOfOne
<1> HIDE DEF w
<1>2. Listed(ptrs) /\ ToSet(ptrs) = {x} \ {NoPtr}
  <2>1. Listed(ptrs) /\ ToSet(ptrs) = {y \in ToSet(w) : y # NoPtr}
    BY <1>1, SomeIs
  <2> QED
    BY <1>1, <2>1
<1>3. o = Origin(<<s, j>>, item, op, ptrs)
  BY DEF w
<1> HIDE DEF ptrs
<1>4. \A ptr \in ToSet(ptrs) : /\ PtrIs(ptr, out, ms) /\ PartAt(out, ptr).type \in {"text", "reasoning"}
                               /\ PartAt(out, ptr).val = item.val
  <2>1. ASSUME x # NoPtr
        PROVE  /\ PtrIs(x, out, ms) /\ PartAt(out, x).type \in {"text", "reasoning"}
               /\ PartAt(out, x).val = item.val
    <3>1. PICK m \in ms : FoundAt(x, item, out, m)
      BY <2>1
    <3>2. x[1] = m
      <4>1. x = <<m, x[2]>>
        BY <3>1 DEF FoundAt
      <4> QED
        BY <4>1
    <3> QED
      BY <3>1, <3>2 DEF FoundAt, PtrIs, PartAt
  <2> QED
    BY <1>2, <2>1
<1>5. /\ OriginIs(o, out, ms, s) /\ o.ptrs = ptrs /\ o.key = <<s, j>> /\ o.kind = item.kind
      /\ o.val = item.val
  <2> DEFINE key == <<s, j>>
  <2>1. key \in Nat \X Nat /\ key[1] = s
    OBVIOUS
  <2>2. o = Origin(key, item, op, ptrs)
    BY <1>3
  <2> HIDE DEF key
  <2>3. \A ptr \in ToSet(ptrs) : PtrIs(ptr, out, ms)
    BY <1>4
  <2>4. OriginIs(o, out, ms, key[1]) /\ MadeOf(o, key, item, op, ptrs)
    BY <1>2, <2>1, <2>2, <2>3, ItemIs, OriginMade
  <2> QED
    BY <2>1, <2>4 DEF MadeOf, key
<1> QED
  BY <1>2, <1>4, <1>5 DEF OriginTraced, Keyed

LEMMA SetOfTwo ==
  ASSUME NEW x, NEW y
  PROVE  ToSet(<<x, y>>) = {x, y}
<1> DEFINE w == <<x, y>>
<1>1. w \in Seq({x, y}) /\ Len(w) = 2 /\ w[1] = x /\ w[2] = y
  OBVIOUS
<1> HIDE DEF w
<1>2. ToSet(w) = {w[i] : i \in 1 .. Len(w)}
  BY <1>1, SetOfSeq
<1>3. 1 .. Len(w) = {1, 2}
  BY <1>1
<1>4. ToSet(w) = {x, y}
  BY <1>1, <1>2, <1>3
<1> QED
  BY <1>4 DEF w

LEMMA ToolOriginIs ==
  ASSUME NEW key \in Nat \X Nat, NEW item \in Item, item.kind = "tool", NEW out, Fresh(out),
         NEW ms, ms \subseteq 1 .. Len(out), NEW o, o = ToolOrigin(key, item, out, ms)
  PROVE  /\ OriginIs(o, out, ms, key[1]) /\ OriginTraced(o, out, ms)
         /\ Keyed(o, key, "tool")
<1> DEFINE calls == Places(out, ms, "tool-call", key)
           call == FirstOf(calls)
           prefer == ~item.exec
           result == ResultPlace(out, ms, key, prefer)
           w == <<call, result>>
           ptrs == Some(w)
           op == OpaqueTool(item)
           base == Origin(key, item, op, ptrs)
<1>1. o = [base EXCEPT !.call = call, !.result = result]
  BY DEF ToolOrigin
<1>2. op \in BOOLEAN
  <2>1. op <=> item.st = "error" \/ (item.st = "completed" /\ item.multi)
    BY DEF OpaqueTool
  <2>2. item.multi \in BOOLEAN
    BY ItemIs
  <2> QED
    BY <2>2 DEF OpaqueTool
<1>3. \A p \in calls : PtrIs(p, out, ms) /\ p # NoPtr /\ p \in Nat \X Nat
                       /\ PartAt(out, p).type = "tool-call" /\ PartAt(out, p).call = key
  <2>1. ASSUME NEW p \in calls
        PROVE  /\ PtrIs(p, out, ms) /\ p # NoPtr /\ p \in Nat \X Nat
               /\ PartAt(out, p).type = "tool-call" /\ PartAt(out, p).call = key
    <3>1. /\ p = <<p[1], p[2]>> /\ p[1] \in ms /\ p[1] \in Nat /\ p[2] \in Nat /\ p # NoPtr
          /\ p[2] \in 1 .. Len(out[p[1]].parts)
          /\ out[p[1]].parts[p[2]].type = "tool-call" /\ out[p[1]].parts[p[2]].call = key
      BY PlacesAre
    <3>2. p \in Nat \X Nat
      BY <3>1
    <3> QED
      BY <3>1, <3>2 DEF PtrIs, PartAt
  <2> QED
    BY <2>1
<1>4. call = NoPtr \/ call \in calls
  <2>1. CASE calls = {}
    BY <2>1 DEF FirstOf
  <2>2. CASE calls # {}
    <3>1. \A p \in calls : p = <<p[1], p[2]>> /\ p[1] \in Nat /\ p[2] \in Nat
      BY <1>3
    <3> HIDE DEF calls
    <3> QED
      BY <2>2, <3>1, FirstOfIs
  <2> QED
    BY <2>1, <2>2
<1> HIDE DEF calls, call, prefer
<1>5. \/ result = NoPtr /\ Places(out, ms, "tool-result", key) = {}
      \/ result \in Places(out, ms, "tool-result", key)
  BY ResultPlaceIs
<1> HIDE DEF result
<1>6. result # NoPtr => /\ PtrIs(result, out, ms) /\ PartAt(out, result).type = "tool-result"
                        /\ PartAt(out, result).call = key
  <2>1. ASSUME result # NoPtr
        PROVE  /\ PtrIs(result, out, ms) /\ PartAt(out, result).type = "tool-result"
               /\ PartAt(out, result).call = key
    <3>1. result \in Places(out, ms, "tool-result", key)
      BY <1>5, <2>1
    <3>2. /\ result = <<result[1], result[2]>> /\ result[1] \in ms
          /\ result[2] \in 1 .. Len(out[result[1]].parts)
          /\ out[result[1]].parts[result[2]].type = "tool-result" /\ out[result[1]].parts[result[2]].call = key
      BY <3>1, PlacesAre
    <3> QED
      BY <3>2 DEF PtrIs, PartAt
  <2> QED
    BY <2>1
<1>7. call # NoPtr => /\ PtrIs(call, out, ms) /\ PartAt(out, call).type = "tool-call"
                      /\ PartAt(out, call).call = key
  BY <1>3, <1>4
<1>8. w \in Seq({call, result}) /\ ToSet(w) = {call, result}
  BY SetOfTwo
<1> HIDE DEF w
<1>9. Listed(ptrs) /\ ToSet(ptrs) = {call, result} \ {NoPtr}
  <2>1. Listed(ptrs) /\ ToSet(ptrs) = {x \in ToSet(w) : x # NoPtr}
    BY <1>8, SomeIs
  <2> QED
    BY <1>8, <2>1
<1> HIDE DEF ptrs, op
<1>10. \A ptr \in ToSet(ptrs) : /\ PtrIs(ptr, out, ms) /\ ToolPart(PartAt(out, ptr))
                                /\ PartAt(out, ptr).call = key
  BY <1>6, <1>7, <1>9 DEF ToolPart
<1>11. OriginIs(base, out, ms, key[1]) /\ MadeOf(base, key, item, op, ptrs)
  <2> HIDE DEF base
  <2>1. \A ptr \in ToSet(ptrs) : PtrIs(ptr, out, ms)
    BY <1>10
  <2>2. base = Origin(key, item, op, ptrs)
    BY DEF base
  <2> QED
    BY <1>2, <1>9, <2>1, <2>2, ItemIs, OriginMade
<1>12. /\ o.key = base.key /\ o.kind = base.kind /\ o.opaque = base.opaque /\ o.ptrs = base.ptrs
       /\ o.call = call /\ o.result = result /\ o.val = base.val /\ o.st = base.st
  BY <1>1 DEF Origin
<1> HIDE DEF base
<1>13. o.ptrs = ptrs /\ o.key = key /\ o.kind = "tool"
  BY <1>11, <1>12 DEF MadeOf
<1>14. OriginIs(o, out, ms, key[1])
  <2>1. o.call # NoPtr => o.call \in ToSet(o.ptrs) /\ PartAt(out, o.call).type = "tool-call"
    BY <1>7, <1>9, <1>12, <1>13
  <2>2. o.result # NoPtr => o.result \in ToSet(o.ptrs) /\ PartAt(out, o.result).type = "tool-result"
    BY <1>6, <1>9, <1>12, <1>13
  <2> QED
    BY <1>11, <1>12, <1>13, <2>1, <2>2 DEF OriginIs
<1>15. OriginTraced(o, out, ms)
  <2>1. Places(out, ms, "tool-result", o.key) # {} => o.result # NoPtr
    <3>1. ASSUME Places(out, ms, "tool-result", key) # {}
          PROVE  result # NoPtr
      <4>1. result \in Places(out, ms, "tool-result", key)
        BY <1>5, <3>1
      <4> QED
        BY <4>1, PlacesAre
    <3> QED
      BY <1>12, <1>13, <3>1
  <2> QED
    BY <1>10, <1>13, <2>1 DEF OriginTraced
<1> QED
  BY <1>13, <1>14, <1>15 DEF Keyed

LEMMA MediaAre ==
  ASSUME NEW out, Fresh(out), NEW m \in 1 .. Len(out), NEW val
  PROVE  /\ Listed(Media(out, m, val))
         /\ \A ptr \in ToSet(Media(out, m, val)) :
              PtrIs(ptr, out, {m}) /\ PartAt(out, ptr).type = "media"
<1> DEFINE S == {c \in 1..Len(out[m].parts) : out[m].parts[c].type = "media" /\ out[m].parts[c].val = val}
           f == InOrder(S)
           t == [k \in 1..Len(f) |-> <<m, f[k]>>]
<1>1. Media(out, m, val) = t
  BY DEF Media
<1>2. Len(out[m].parts) \in Nat /\ S \subseteq 0 .. Len(out[m].parts)
  BY FreshAt
<1>3. Ascends(f, S)
  <2> HIDE DEF S
  <2> QED
    BY <1>2, InOrderAscends
<1> HIDE DEF f
<1>4. /\ Len(f) \in Nat /\ \A k \in 1 .. Len(f) : f[k] \in S
  BY <1>3 DEF Ascends
<1>5. Listed(t) /\ Len(t) = Len(f)
  BY <1>4 DEF Listed
<1>6. ToSet(t) = {t[k] : k \in 1 .. Len(t)}
  <2> HIDE DEF t
  <2> QED
    BY <1>5, SetOfListed
<1>7. \A k \in 1 .. Len(t) : PtrIs(t[k], out, {m}) /\ PartAt(out, t[k]).type = "media"
  <2>1. ASSUME NEW k \in 1 .. Len(t)
        PROVE  PtrIs(t[k], out, {m}) /\ PartAt(out, t[k]).type = "media"
    <3>1. t[k] = <<m, f[k]>> /\ f[k] \in S
      BY <1>4, <1>5
    <3>2. t[k][1] = m /\ t[k][2] = f[k]
      BY <3>1
    <3> QED
      BY <3>1, <3>2 DEF PtrIs, PartAt
  <2> QED
    BY <2>1
<1> HIDE DEF t, S
<1>8. \A ptr \in ToSet(t) : PtrIs(ptr, out, {m}) /\ PartAt(out, ptr).type = "media"
  BY <1>6, <1>7
<1> QED
  BY ONLY <1>1, <1>5, <1>8

\* What the origins of source s are, when M are the claims.
SourceOrigins(os, h, out, M, s) ==
  /\ Listed(os)
  /\ \A j \in 1 .. Len(os) : OriginIs(os[j], out, ToSet(M[s]), s) /\ os[j].key = <<s, j>>
  /\ h[s].type = "checkpoint" => \A j \in 1 .. Len(os) : os[j].opaque /\ os[j].kind = "text"
  /\ h[s].type # "checkpoint" =>
       /\ \A j \in 1 .. Len(os) : /\ OriginTraced(os[j], out, ToSet(M[s]))
                                  /\ os[j].call # NoPtr => os[j].call[1] = M[s][1]
       /\ \A i, j \in 1 .. Len(os) :
            i # j => \/ os[i].kind = "attachment" /\ os[j].kind = "attachment"
                     \/ ToSet(os[i].ptrs) \cap ToSet(os[j].ptrs) = {}

LEMMA MapsAre ==
  ASSUME NEW h, NEW out, NEW M \in ClaimMaps(h, out), NEW s \in 1 .. Len(h)
  PROVE  /\ M[s] \in Seq(1 .. Len(out)) /\ Listed(M[s])
         /\ \A k \in 1 .. Len(M[s]) : M[s][k] \in ToSet(M[s])
         /\ \A m \in ToSet(M[s]) : \E k \in 1 .. Len(M[s]) : m = M[s][k]
         /\ ToSet(M[s]) \subseteq 1 .. Len(out) /\ Claiming(M, h, out)
         /\ M[s] # <<>> => Len(M[s]) >= 1 /\ M[s][1] \in ToSet(M[s])
<1>1. Claiming(M, h, out) /\ M[s] \in Seq(1 .. Len(out))
  BY DEF ClaimMaps
<1> DEFINE q == M[s]
<1>2. q \in Seq(1 .. Len(out))
  BY <1>1
<1> HIDE DEF q
<1>3. /\ Listed(q) /\ ToSet(q) = {q[k] : k \in 1 .. Len(q)} /\ ToSet(q) \subseteq 1 .. Len(out)
  BY <1>2, SeqListed, SetOfSeq
<1>4. q # <<>> => Len(q) >= 1
  BY <1>2
<1> QED
  BY <1>1, <1>2, <1>3, <1>4 DEF q

LEMMA ListedAs ==
  ASSUME NEW n \in Nat, NEW f, f = [i \in 1 .. n |-> f[i]]
  PROVE  Listed(f) /\ Len(f) = n
BY DEF Listed

LEMMA CheckpointOriginsAre ==
  ASSUME NEW h, Typed(h), NEW out, Fresh(out), NEW M \in ClaimMaps(h, out), NEW s \in 1 .. Len(h),
         h[s].type = "checkpoint"
  PROVE  SourceOrigins(Origins(h, out, M, s), h, out, M, s)
<1> DEFINE os == Origins(h, out, M, s)
           ms == ToSet(M[s])
           ptrs(k) == [c \in 1..Len(out[M[s][k]].parts) |-> <<M[s][k], c>>]
           record == Text("record")
<1>1. os = [k \in 1..Len(M[s]) |-> Origin(<<s, k>>, record, TRUE, ptrs(k))]
  BY DEF Origins
<1>2. /\ M[s] \in Seq(1 .. Len(out)) /\ \A k \in 1 .. Len(M[s]) : M[s][k] \in ToSet(M[s])
      /\ ToSet(M[s]) \subseteq 1 .. Len(out)
  <2> HIDE DEF os, ms, ptrs, record
  <2> QED
    BY MapsAre
<1>3. Len(M[s]) \in Nat /\ s \in Nat
  BY <1>2
<1>4. record.kind \in Word /\ record.val \in Word /\ record.st \in Word /\ record.kind = "text"
  BY DEF Text, Word
<1>5. ASSUME NEW k \in 1 .. Len(M[s])
      PROVE  /\ Listed(ptrs(k)) /\ \A ptr \in ToSet(ptrs(k)) : PtrIs(ptr, out, ms)
  <2>1. M[s][k] \in ms /\ M[s][k] \in 1 .. Len(out)
    BY <1>2
  <2>2. Len(out[M[s][k]].parts) \in Nat
    BY <2>1, FreshAt
  <2>3. Listed(ptrs(k)) /\ Len(ptrs(k)) = Len(out[M[s][k]].parts)
    BY <2>2 DEF Listed
  <2>4. \A c \in 1 .. Len(ptrs(k)) : PtrIs(ptrs(k)[c], out, ms)
    BY <2>1, <2>3 DEF PtrIs
  <2>5. ToSet(ptrs(k)) = {ptrs(k)[c] : c \in 1 .. Len(ptrs(k))}
    <3> HIDE DEF ptrs
    <3> QED
      BY <2>3, SetOfListed
  <2> HIDE DEF ptrs
  <2> QED
    BY <2>3, <2>4, <2>5
<1> HIDE DEF ptrs, record
<1>6. ASSUME NEW k \in 1 .. Len(M[s]), NEW o, o = Origin(<<s, k>>, record, TRUE, ptrs(k))
      PROVE  OriginIs(o, out, ms, s) /\ o.key = <<s, k>> /\ o.opaque /\ o.kind = "text"
  <2> DEFINE key == <<s, k>>
  <2>1. key \in Nat \X Nat /\ key[1] = s
    BY <1>3
  <2>2. o = Origin(key, record, TRUE, ptrs(k))
    BY <1>6
  <2> HIDE DEF key
  <2>3. OriginIs(o, out, ms, key[1]) /\ MadeOf(o, key, record, TRUE, ptrs(k))
    BY <1>4, <1>5, <2>1, <2>2, OriginMade
  <2>4. o.key = key /\ o.opaque = TRUE /\ o.kind = "text"
    BY <1>4, <2>3 DEF MadeOf
  <2>5. OriginIs(o, out, ms, s)
    BY <2>1, <2>3
  <2> QED
    BY <2>4, <2>5 DEF key
<1>7. Listed(os) /\ Len(os) = Len(M[s])
  <2>1. os = [k \in 1..Len(M[s]) |-> os[k]]
    BY <1>1
  <2> HIDE DEF os
  <2> QED
    BY <1>3, <2>1, ListedAs
<1>8. \A j \in 1 .. Len(os) : os[j] = Origin(<<s, j>>, record, TRUE, ptrs(j))
  BY <1>1, <1>7
<1> HIDE DEF os
<1>9. \A j \in 1 .. Len(os) : /\ OriginIs(os[j], out, ms, s) /\ os[j].key = <<s, j>>
                              /\ os[j].opaque /\ os[j].kind = "text"
  BY <1>6, <1>7, <1>8
<1> QED
  BY <1>7, <1>9 DEF SourceOrigins, os

\* The origin of item j of a source that is no checkpoint: its texts are at `at`.
ItemOrigin(h, out, M, s, at, j) ==
  LET item == h[s].items[j]
  IN CASE item.kind = "tool" -> ToolOrigin(<<s, j>>, item, out, ToSet(M[s]))
       [] item.kind = "attachment" ->
              Origin(<<s, j>>, item, TRUE,
                  IF M[s] = <<>> THEN <<>> ELSE Media(out, M[s][1], item.val))
       [] OTHER -> Origin(<<s, j>>, item, h[s].type \in Opaques, Some(<<at[j]>>))
ItemTexts(h, out, M, s) ==
  IF M[s] = <<>> THEN [j \in 1..Len(h[s].items) |-> NoPtr] ELSE TextPlaces(h[s], out, M[s][1])

\* The texts of a source are at different places, each in its first message.
TextsAt(at, h, out, M, s) ==
  /\ \A j \in 1 .. Len(h[s].items) : at[j] = NoPtr \/ \E m \in ToSet(M[s]) : FoundAt(at[j], h[s].items[j], out, m)
  /\ \A i, j \in 1 .. Len(h[s].items) : i # j /\ at[i] # NoPtr => at[i] # at[j]

LEMMA ItemTextsAre ==
  ASSUME NEW h, Typed(h), NEW out, Fresh(out), NEW M \in ClaimMaps(h, out), NEW s \in 1 .. Len(h)
  PROVE  TextsAt(ItemTexts(h, out, M, s), h, out, M, s)
<1>1. h[s] \in [type : STRING, items : Seq(Item)] /\ Len(h[s].items) \in Nat
  <2>1. h[s] \in [type : STRING, items : Seq(Item)]
    BY TypedAt
  <2> QED
    BY <2>1
<1>2. CASE M[s] = <<>>
  <2>1. \A j \in 1 .. Len(h[s].items) : ItemTexts(h, out, M, s)[j] = NoPtr
    BY <1>1, <1>2 DEF ItemTexts
  <2> QED
    BY <2>1 DEF TextsAt
<1>3. CASE M[s] # <<>>
  <2> DEFINE m == M[s][1]
             at == TextPlaces(h[s], out, m)
  <2>1. m \in ToSet(M[s]) /\ m \in 1 .. Len(out)
    BY <1>3, MapsAre
  <2> HIDE DEF m
  <2>2. PICK cursor : PlacedTexts(at, h[s], out, m, Len(h[s].items), cursor)
    BY <1>1, <2>1, TextPlacesAre
  <2>3. ItemTexts(h, out, M, s) = at
    BY <1>3 DEF ItemTexts, m
  <2> HIDE DEF at
  <2>4. \A i, j \in 1 .. Len(h[s].items) : i # j /\ at[i] # NoPtr => at[i] # at[j]
    <3>1. ASSUME NEW i \in 1 .. Len(h[s].items), NEW j \in 1 .. Len(h[s].items), i < j,
                 at[i] # NoPtr, at[i] = at[j]
          PROVE  FALSE
      <4>1. at[i][2] < at[j][2] /\ FoundAt(at[i], h[s].items[i], out, m)
        BY <2>2, <3>1 DEF PlacedTexts
      <4>2. at[i][2] \in Nat
        BY <4>1 DEF FoundAt
      <4> QED
        BY <3>1, <4>1, <4>2
    <3>2. ASSUME NEW i \in 1 .. Len(h[s].items), NEW j \in 1 .. Len(h[s].items), i # j,
                 at[i] # NoPtr, at[i] = at[j]
          PROVE  FALSE
      <4>1. i < j \/ j < i
        BY <1>1, <3>2
      <4> QED
        BY <3>1, <3>2, <4>1
    <3> QED
      BY <3>2
  <2>5. \A j \in 1 .. Len(h[s].items) : at[j] = NoPtr \/ FoundAt(at[j], h[s].items[j], out, m)
    BY <2>2 DEF PlacedTexts
  <2> QED
    BY <2>1, <2>3, <2>4, <2>5 DEF TextsAt
<1> QED
  BY <1>2, <1>3

\* The origin of an item is of that item: a text's points at its text, if it has one.
OfItem(o, item, out, ms, s, j, x) ==
  /\ OriginIs(o, out, ms, s) /\ OriginTraced(o, out, ms) /\ o.key = <<s, j>> /\ o.kind = item.kind
  /\ item.kind \notin {"tool", "attachment"} => ToSet(o.ptrs) = {x} \ {NoPtr}

LEMMA ItemOriginIs ==
  ASSUME NEW h, Typed(h), NEW out, Fresh(out), NEW M \in ClaimMaps(h, out), NEW s \in 1 .. Len(h),
         NEW at, TextsAt(at, h, out, M, s), NEW j \in 1 .. Len(h[s].items)
  PROVE  OfItem(ItemOrigin(h, out, M, s, at, j), h[s].items[j], out, ToSet(M[s]), s, j, at[j])
<1> DEFINE item == h[s].items[j]
           ms == ToSet(M[s])
           o == ItemOrigin(h, out, M, s, at, j)
           x == at[j]
<1>1. item \in Item
  <2>1. h[s] \in [type : STRING, items : Seq(Item)]
    BY TypedAt
  <2> QED
    BY <2>1
<1>2. s \in Nat /\ j \in Nat
  <2>1. h[s] \in [type : STRING, items : Seq(Item)] /\ Len(h) \in Nat
    BY TypedAt
  <2>2. Len(h[s].items) \in Nat
    BY <2>1
  <2> QED
    BY <2>1, <2>2
<1>3. ms \subseteq 1 .. Len(out)
  BY MapsAre
<1>4. x = NoPtr \/ \E m \in ms : FoundAt(x, item, out, m)
  BY DEF TextsAt
<1>5. CASE item.kind = "tool"
  <2> DEFINE key == <<s, j>>
  <2>1. o = ToolOrigin(key, item, out, ms)
    BY <1>5 DEF ItemOrigin
  <2>2. key \in Nat \X Nat /\ key[1] = s
    BY <1>2
  <2> HIDE DEF key, o, ms, item
  <2>3. OriginIs(o, out, ms, key[1]) /\ OriginTraced(o, out, ms) /\ Keyed(o, key, "tool")
    BY <1>1, <1>3, <1>5, <2>1, <2>2, ToolOriginIs
  <2>4. OriginIs(o, out, ms, s)
    BY <2>2, <2>3
  <2>5. OfItem(o, item, out, ms, s, j, x)
    BY <1>5, <2>3, <2>4 DEF OfItem, Keyed, key
  <2> QED
    BY <2>5 DEF o, ms, item
<1>6. CASE item.kind = "attachment"
  <2> DEFINE key == <<s, j>>
             ptrs == IF M[s] = <<>> THEN <<>> ELSE Media(out, M[s][1], item.val)
  <2>1. o = Origin(key, item, TRUE, ptrs)
    BY <1>6 DEF ItemOrigin
  <2>2. key \in Nat \X Nat /\ key[1] = s
    BY <1>2
  <2>3. /\ Listed(ptrs)
        /\ \A ptr \in ToSet(ptrs) : PtrIs(ptr, out, ms) /\ PartAt(out, ptr).type = "media"
    <3>1. CASE M[s] = <<>>
      <4>1. ptrs = <<>>
        BY <3>1
      <4>2. Listed(<<>>) /\ ToSet(<<>>) = {}
        BY DEF Listed, ToSet
      <4> QED
        BY <4>1, <4>2
    <3>2. CASE M[s] # <<>>
      <4> DEFINE m == M[s][1]
                 val == item.val
      <4>1. m \in ms /\ m \in 1 .. Len(out)
        BY <3>2, MapsAre
      <4>2. ptrs = Media(out, m, val)
        BY <3>2
      <4> HIDE DEF m, ptrs, ms, val
      <4>3. /\ Listed(ptrs) /\ \A ptr \in ToSet(ptrs) : PtrIs(ptr, out, {m}) /\ PartAt(out, ptr).type = "media"
        BY <4>1, <4>2, MediaAre
      <4>4. \A ptr \in ToSet(ptrs) : PtrIs(ptr, out, ms)
        BY <4>1, <4>3 DEF PtrIs
      <4> QED
        BY <4>3, <4>4
    <3> QED
      BY <3>1, <3>2
  <2> HIDE DEF key, o, ms, item, ptrs
  <2>4. OriginIs(o, out, ms, key[1]) /\ MadeOf(o, key, item, TRUE, ptrs)
    <3>1. \A ptr \in ToSet(ptrs) : PtrIs(ptr, out, ms)
      BY <2>3
    <3> QED
      BY <1>1, <2>1, <2>2, <2>3, <3>1, ItemIs, OriginMade
  <2>5. OriginIs(o, out, ms, s)
    BY <2>2, <2>4
  <2>6. /\ o.key = key /\ o.kind = "attachment" /\ o.opaque = TRUE /\ o.ptrs = ptrs
    BY <1>6, <2>4 DEF MadeOf
  <2>7. OriginTraced(o, out, ms)
    BY <2>3, <2>6 DEF OriginTraced
  <2>8. OfItem(o, item, out, ms, s, j, x)
    BY <1>6, <2>5, <2>6, <2>7 DEF OfItem, key
  <2> QED
    BY <2>8 DEF o, ms, item
<1>7. CASE item.kind \notin {"tool", "attachment"}
  <2> DEFINE op == h[s].type \in Opaques
  <2>1. o = Origin(<<s, j>>, item, op, Some(<<x>>))
    BY <1>7 DEF ItemOrigin
  <2>2. op \in BOOLEAN
    OBVIOUS
  <2> HIDE DEF o, ms, item, op, x
  <2>3. /\ OriginIs(o, out, ms, s) /\ OriginTraced(o, out, ms)
        /\ Keyed(o, <<s, j>>, item.kind) /\ ToSet(o.ptrs) = {x} \ {NoPtr}
    BY <1>1, <1>2, <1>4, <1>7, <2>1, <2>2, TextOriginIs
  <2>4. OfItem(o, item, out, ms, s, j, x)
    BY <2>3 DEF OfItem, Keyed
  <2> QED
    BY <2>4 DEF o, ms, item, x
<1> QED
  BY <1>5, <1>6, <1>7

LEMMA ElementAt ==
  ASSUME NEW q, Listed(q), NEW m \in ToSet(q)
  PROVE  \E k \in 1 .. Len(q) : m = q[k]
BY SetOfListed

\* An origin of a tool points at its call and result, any other at texts or at media.
PointsAt(o, out, x) ==
  \A ptr \in ToSet(o.ptrs) :
    /\ o.kind = "tool" => ToolPart(PartAt(out, ptr)) /\ PartAt(out, ptr).call = o.key
    /\ o.kind = "attachment" => PartAt(out, ptr).type = "media"
    /\ o.kind \notin {"tool", "attachment"} =>
         PartAt(out, ptr).type \in {"text", "reasoning"} /\ ptr = x /\ ptr # NoPtr

LEMMA ItemsApart ==
  ASSUME NEW out, NEW o, NEW q, NEW x, NEW y, PointsAt(o, out, x), PointsAt(q, out, y),
         o.key # q.key, x # NoPtr => x # y
  PROVE  \/ o.kind = "attachment" /\ q.kind = "attachment"
         \/ ToSet(o.ptrs) \cap ToSet(q.ptrs) = {}
<1> SUFFICES ASSUME NEW ptr \in ToSet(o.ptrs), ptr \in ToSet(q.ptrs),
                    ~(o.kind = "attachment" /\ q.kind = "attachment")
             PROVE  FALSE
  OBVIOUS
<1> DEFINE part == PartAt(out, ptr)
<1>1. /\ o.kind = "tool" => ToolPart(part) /\ part.call = o.key
      /\ o.kind = "attachment" => part.type = "media"
      /\ o.kind \notin {"tool", "attachment"} => part.type \in {"text", "reasoning"} /\ ptr = x /\ ptr # NoPtr
  BY DEF PointsAt
<1>2. /\ q.kind = "tool" => ToolPart(part) /\ part.call = q.key
      /\ q.kind = "attachment" => part.type = "media"
      /\ q.kind \notin {"tool", "attachment"} => part.type \in {"text", "reasoning"} /\ ptr = y
  BY DEF PointsAt
<1> HIDE DEF part
<1>3. ToolPart(part) => part.type \in {"tool-call", "tool-result"}
  BY DEF ToolPart
<1> QED
  BY <1>1, <1>2, <1>3

LEMMA OriginsAre ==
  ASSUME NEW h, Typed(h), NEW out, Fresh(out), NEW M \in ClaimMaps(h, out), NEW s \in 1 .. Len(h)
  PROVE  SourceOrigins(Origins(h, out, M, s), h, out, M, s)
<1>1. CASE h[s].type = "checkpoint"
  BY <1>1, CheckpointOriginsAre
<1>2. CASE h[s].type # "checkpoint"
  <2> DEFINE os == Origins(h, out, M, s)
             at == ItemTexts(h, out, M, s)
             ms == ToSet(M[s])
             N == Len(h[s].items)
  <2>1. N \in Nat
    <3>1. h[s] \in [type : STRING, items : Seq(Item)]
      BY TypedAt
    <3> QED
      BY <3>1
  <2>2. os = [j \in 1 .. N |-> ItemOrigin(h, out, M, s, at, j)]
    BY <1>2 DEF Origins, ItemOrigin, ItemTexts
  <2>3. Listed(os) /\ Len(os) = N /\ \A j \in 1 .. N : os[j] = ItemOrigin(h, out, M, s, at, j)
    <3>1. \A j \in 1 .. N : os[j] = ItemOrigin(h, out, M, s, at, j)
      BY <2>2
    <3>2. os = [j \in 1 .. N |-> os[j]]
      BY <2>2
    <3> HIDE DEF os, N
    <3>3. Listed(os) /\ Len(os) = N
      BY <2>1, <3>2, ListedAs
    <3> QED
      BY <3>1, <3>3
  <2>4. TextsAt(at, h, out, M, s)
    BY ItemTextsAre
  <2> HIDE DEF os, at, ms
  <2>5. \A j \in 1 .. N : OfItem(os[j], h[s].items[j], out, ms, s, j, at[j])
    BY <2>3, <2>4, ItemOriginIs DEF ms
  <2>6. ASSUME NEW j \in 1 .. N
        PROVE  /\ OriginIs(os[j], out, ms, s) /\ OriginTraced(os[j], out, ms) /\ os[j].key = <<s, j>>
               /\ PointsAt(os[j], out, at[j])
    <3> DEFINE o == os[j]
    <3>1. /\ OriginIs(o, out, ms, s) /\ OriginTraced(o, out, ms) /\ o.key = <<s, j>>
          /\ o.kind \notin {"tool", "attachment"} => ToSet(o.ptrs) = {at[j]} \ {NoPtr}
      BY <2>5 DEF OfItem
    <3> HIDE DEF o
    <3>2. PointsAt(o, out, at[j])
      BY <3>1 DEF OriginTraced, PointsAt
    <3> QED
      BY <3>1, <3>2 DEF o
  <2>7. ASSUME NEW j \in 1 .. N, os[j].call # NoPtr
        PROVE  os[j].call[1] = M[s][1]
    <3> DEFINE c == os[j].call
    <3>1. c \in ToSet(os[j].ptrs) /\ PartAt(out, c).type = "tool-call"
      BY <2>6, <2>7 DEF OriginIs
    <3>2. PtrIs(c, out, ms)
      BY <2>6, <3>1 DEF OriginIs
    <3> HIDE DEF c
    <3>3. c[1] \in ms /\ c[2] \in 1 .. Len(out[c[1]].parts)
      BY <3>2 DEF PtrIs
    <3>4. PICK k \in 1 .. Len(M[s]) : c[1] = M[s][k]
      <4>1. Listed(M[s])
        BY MapsAre
      <4> QED
        BY <3>3, <4>1, ElementAt DEF ms
    <3>5. c[1] \in 1 .. Len(out)
      BY <3>3, MapsAre DEF ms
    <3>6. out[c[1]].role # "tool"
      BY <3>1, <3>3, <3>5 DEF Fresh, PartAt
    <3>7. k # 1 => out[M[s][k]].role = "tool"
      BY <1>2, MapsAre DEF Claiming
    <3> QED
      BY <3>4, <3>6, <3>7 DEF c
  <2>8. ASSUME NEW i \in 1 .. N, NEW j \in 1 .. N, i # j
        PROVE  \/ os[i].kind = "attachment" /\ os[j].kind = "attachment"
               \/ ToSet(os[i].ptrs) \cap ToSet(os[j].ptrs) = {}
    <3>1. os[i].key # os[j].key
      BY <2>6, <2>8
    <3>2. at[i] # NoPtr => at[i] # at[j]
      BY <2>4, <2>8 DEF TextsAt
    <3> QED
      BY <2>6, <3>1, <3>2, ItemsApart
  <2> HIDE DEF N
  <2>9. SourceOrigins(os, h, out, M, s)
    BY <1>2, <2>3, <2>6, <2>7, <2>8 DEF SourceOrigins, ms
  <2> QED
    BY <2>9 DEF os
<1> QED
  BY <1>1, <1>2

-----------------------------------------------------------------------------
(* The projection traces every part of the request.                        *)

\* What the entry of source s notes over the request q it was made for.
EntryIs(e, q, s) ==
  /\ Listed(e.out) /\ ToSet(e.out) \subseteq 1 .. Len(q)
  /\ Listed(e.origins)
  /\ \A j \in 1 .. Len(e.origins) :
       OriginIs(e.origins[j], q, ToSet(e.out), s) /\ e.origins[j].key = <<s, j>>
  /\ e.type = "checkpoint" => \A j \in 1 .. Len(e.origins) : e.origins[j].opaque /\ e.origins[j].kind = "text"
  /\ e.type # "checkpoint" =>
       /\ \A j \in 1 .. Len(e.origins) : /\ OriginTraced(e.origins[j], q, ToSet(e.out))
                                         /\ e.origins[j].call # NoPtr => e.origins[j].call[1] = e.out[1]
       /\ \A i, j \in 1 .. Len(e.origins) :
            i # j => \/ e.origins[i].kind = "attachment" /\ e.origins[j].kind = "attachment"
                     \/ ToSet(e.origins[i].ptrs) \cap ToSet(e.origins[j].ptrs) = {}
  /\ e.removable => e.type # "checkpoint" /\ \A m \in ToSet(e.out) : OwnTools(q, m, s)
Traced(p) ==
  /\ Listed(p.entries) /\ Fresh(p.request)
  /\ \A s \in 1 .. Len(p.entries) : EntryIs(p.entries[s], p.request, s)
  /\ Apart(p)

EntryOf(h, out, M, s) ==
  [type |-> h[s].type, norm |-> Normalized(h[s]), out |-> M[s],
   origins |-> IF Normalized(h[s]) THEN Origins(h, out, M, s) ELSE <<>>,
   opaque |-> h[s].type \in Opaques, removable |-> h[s].type \in Removables]

LEMMA EntryOfIs ==
  ASSUME NEW h, Typed(h), NEW out, Fresh(out), NEW M \in ClaimMaps(h, out), NEW s \in 1 .. Len(h)
  PROVE  EntryIs(EntryOf(h, out, M, s), out, s)
<1> DEFINE e == EntryOf(h, out, M, s)
           os == e.origins
           q == M[s]
<1>1. /\ e.type = h[s].type /\ e.out = q /\ e.removable = (h[s].type \in Removables)
      /\ os = IF Normalized(h[s]) THEN Origins(h, out, M, s) ELSE <<>>
  BY DEF EntryOf
<1>2. Listed(q) /\ ToSet(q) \subseteq 1 .. Len(out)
  BY MapsAre
<1>3. SourceOrigins(os, h, out, M, s)
  <2>1. CASE Normalized(h[s])
    BY <1>1, <2>1, OriginsAre
  <2>2. CASE ~Normalized(h[s])
    <3>1. os = <<>>
      BY <1>1, <2>2
    <3>2. Listed(<<>>) /\ Len(<<>>) = 0
      BY DEF Listed
    <3> QED
      BY <3>1, <3>2 DEF SourceOrigins
  <2> QED
    BY <2>1, <2>2
<1>4. h[s].type \in Removables => h[s].type # "checkpoint" /\ h[s].type # "system"
  BY DEF Removables
<1>5. ASSUME h[s].type \in Removables, NEW m \in ToSet(q)
      PROVE  OwnTools(out, m, s)
  <2>1. PICK k \in 1 .. Len(q) : m = q[k]
    <3> HIDE DEF q
    <3> QED
      BY <1>2, ElementAt
  <2>2. Claiming(M, h, out)
    BY DEF ClaimMaps
  <2> QED
    BY <1>4, <1>5, <2>1, <2>2 DEF Claiming
<1> HIDE DEF e, os
<1>6. e.origins = os
  BY DEF os
<1>7. EntryIs(e, out, s)
  <2>1. Listed(e.out) /\ ToSet(e.out) \subseteq 1 .. Len(out)
    BY <1>1, <1>2
  <2>2. e.removable => e.type # "checkpoint" /\ \A m \in ToSet(e.out) : OwnTools(out, m, s)
    BY <1>1, <1>4, <1>5
  <2>3. SourceOrigins(e.origins, h, out, M, s) /\ e.out = M[s] /\ e.type = h[s].type
    BY <1>1, <1>3, <1>6
  <2> HIDE DEF q
  <2> QED
    BY <2>1, <2>2, <2>3 DEF SourceOrigins, EntryIs
<1> QED
  BY <1>7 DEF e

LEMMA NormalizedIs ==
  ASSUME NEW h, Typed(h), NEW out, Fresh(out), NEW p, p = Normalize(h, out)
  PROVE  /\ Traced(p) /\ p.request = out
         /\ p.valid => \A s \in 1 .. Len(p.entries) : \A j \in 1 .. Len(p.entries[s].origins) :
                         Correlated(p.entries[s].origins[j], out)
<1> DEFINE claims == Claims(h, out)
           M == ResultClaims(h, out, CheckpointClaims(h, out, claims.msgs))
           E == Entries(h, out, M)
<1>1. M \in ClaimMaps(h, out)
  <2>1. claims.msgs \in ClaimMaps(h, out)
    <3>1. Claiming(claims.msgs, h, out)
      BY ClaimsAre
    <3> HIDE DEF claims
    <3> QED
      BY <3>1 DEF ClaimMaps, Claiming
  <2> HIDE DEF claims
  <2> QED
    BY <2>1, CheckpointClaimsAre, ResultClaimsAre
<1>2. p.entries = E /\ p.request = out
  BY DEF Normalize
<1>3. p.valid => \A s \in 1 .. Len(h) : \A j \in 1 .. Len(E[s].origins) : Correlated(E[s].origins[j], out)
  BY DEF Normalize
<1> HIDE DEF M
<1>4. E = [s \in 1 .. Len(h) |-> EntryOf(h, out, M, s)]
  BY DEF Entries, EntryOf
<1>5. Len(h) \in Nat
  BY TypedAt
<1>6. Listed(E) /\ Len(E) = Len(h)
  <2>1. E = [s \in 1 .. Len(h) |-> E[s]]
    BY <1>4
  <2> HIDE DEF E
  <2> QED
    BY <1>5, <2>1, ListedAs
<1>7. \A s \in 1 .. Len(h) : E[s] = EntryOf(h, out, M, s)
  BY <1>4
<1> HIDE DEF E
<1>8. \A s \in 1 .. Len(h) : EntryIs(E[s], out, s) /\ E[s].out = M[s]
  <2>1. \A s \in 1 .. Len(h) : EntryIs(EntryOf(h, out, M, s), out, s)
    BY <1>1, EntryOfIs
  <2>2. \A s \in 1 .. Len(h) : EntryOf(h, out, M, s).out = M[s]
    BY DEF EntryOf
  <2> QED
    BY <1>7, <2>1, <2>2
<1>9. Apart(p)
  <2>1. Claiming(M, h, out)
    BY <1>1 DEF ClaimMaps
  <2>2. \A s, t \in 1 .. Len(h) : s # t => ToSet(M[s]) \cap ToSet(M[t]) = {}
    BY <2>1, Zenon DEF Claiming
  <2>3. ASSUME NEW s \in 1 .. Len(E), NEW t \in 1 .. Len(E), s # t
        PROVE  ToSet(E[s].out) \cap ToSet(E[t].out) = {}
    <3>1. E[s].out = M[s] /\ E[t].out = M[t] /\ s \in 1 .. Len(h) /\ t \in 1 .. Len(h)
      BY <1>6, <1>8
    <3> QED
      BY <2>2, <2>3, <3>1
  <2> QED
    BY <1>2, <2>3 DEF Apart
<1>10. Traced(p)
  BY <1>2, <1>6, <1>8, <1>9 DEF Traced
<1> QED
  BY <1>2, <1>3, <1>6, <1>10

LEMMA TracedLocates ==
  ASSUME NEW p, Traced(p)
  PROVE  Located(p)
<1>1. Listed(p.entries) /\ Placed(p.request)
  BY DEF Traced, Fresh
<1>2. ASSUME NEW s \in 1 .. Len(p.entries), NEW o \in ToSet(p.entries[s].origins)
      PROVE  /\ o.key[1] = s /\ Listed(o.ptrs)
             /\ \A ptr \in ToSet(o.ptrs) :
                  /\ ptr[1] \in ToSet(p.entries[s].out) /\ ptr = <<ptr[1], ptr[2]>>
                  /\ ptr[2] \in 1 .. Len(p.request[ptr[1]].parts)
             /\ o.call # NoPtr => o.call \in ToSet(o.ptrs) /\ o.call[1] = p.entries[s].out[1]
  <2> DEFINE e == p.entries[s]
  <2>1. EntryIs(e, p.request, s)
    BY DEF Traced
  <2> HIDE DEF e
  <2>2. PICK j \in 1 .. Len(e.origins) : o = e.origins[j]
    <3>1. Listed(e.origins) /\ o \in ToSet(e.origins)
      BY <2>1 DEF EntryIs, e
    <3> QED
      BY <3>1, ElementAt
  <2>3. OriginIs(o, p.request, ToSet(e.out), s)
    BY <2>1, <2>2 DEF EntryIs
  <2>4. o.call # NoPtr => o.call[1] = e.out[1]
    <3>1. CASE e.type = "checkpoint"
      BY <2>1, <2>2, <2>3, <3>1 DEF EntryIs, OriginIs
    <3>2. CASE e.type # "checkpoint"
      BY <2>1, <2>2, <3>2 DEF EntryIs
    <3> QED
      BY <3>1, <3>2
  <2> QED
    BY <2>3, <2>4 DEF OriginIs, PtrIs, e
<1>3. \A s \in 1 .. Len(p.entries) : /\ Listed(p.entries[s].out) /\ Listed(p.entries[s].origins)
                                     /\ ToSet(p.entries[s].out) \subseteq 1 .. Len(p.request)
  BY DEF Traced, EntryIs
<1> QED
  BY <1>1, <1>2, <1>3 DEF Located

LEMMA SourceViewIs ==
  ASSUME NEW p, Traced(p), NEW s \in 1 .. Len(p.entries)
  PROVE  SourceView(p, s) \in ViewMessage
<1> DEFINE os == p.entries[s].origins
           parts == [j \in 1 .. Len(os) |-> ViewPart(os[j])]
           role == ViewRole(p.entries[s].type)
           notice == p.entries[s].type = "notice"
<1>1. SourceView(p, s) = [id |-> s, role |-> role, notice |-> notice, parts |-> parts]
  BY DEF SourceView
<1>2. Listed(os) /\ \A j \in 1 .. Len(os) : OriginIs(os[j], p.request, ToSet(p.entries[s].out), s)
  BY DEF Traced, EntryIs
<1>3. s \in Int
  BY DEF Traced, Listed
<1>4. role \in Word
  BY DEF ViewRole, Word
<1>5. notice \in BOOLEAN
  OBVIOUS
<1>6. parts \in Seq(ViewPartType)
  <2> HIDE DEF os
  <2>1. ASSUME NEW j \in 1 .. Len(os)
        PROVE  ViewPart(os[j]) \in ViewPartType
    <3> DEFINE o == os[j]
    <3>1. /\ o.key \in Nat \X Nat /\ o.kind \in Word /\ o.val \in Word /\ o.st \in Word
          /\ o.opaque \in BOOLEAN
      BY <1>2 DEF OriginIs
    <3> HIDE DEF o
    <3>2. ViewPart(o) \in ViewPartType
      BY <3>1, ViewPartIs DEF ViewPart
    <3> QED
      BY <3>2 DEF o
  <2>2. Len(os) \in Nat
    BY <1>2 DEF Listed
  <2> QED
    BY <2>1, <2>2
<1> HIDE DEF parts, role, notice
<1> QED
  BY <1>1, <1>3, <1>4, <1>5, <1>6 DEF ViewMessage

LEMMA InitialViewSourced ==
  ASSUME NEW p, Traced(p)
  PROVE  Sourced(p, InitialView(p))
<1> DEFINE v == InitialView(p)
<1>1. Listed(p.entries) /\ Len(p.entries) \in Nat
  BY DEF Traced, Listed
<1>2. InSourceOrder(p, v) /\ ToSet(v) = {SourceView(p, s) : s \in Normed(p)}
  BY <1>1, InitialViewIs
<1> HIDE DEF v
<1>3. Listed(v)
  BY <1>2 DEF InSourceOrder, Rises
<1>4. ASSUME NEW k \in 1 .. Len(v)
      PROVE  v[k] \in ViewMessage /\ v[k].id # Suffix
  <2>1. v[k] \in ToSet(v)
    BY <1>3, SetOfListed
  <2>2. PICK s \in Normed(p) : v[k] = SourceView(p, s)
    BY <1>2, <2>1
  <2>3. s \in 1 .. Len(p.entries)
    BY DEF Normed
  <2>4. SourceView(p, s).id = s
    BY DEF SourceView
  <2> QED
    BY <1>1, <2>2, <2>3, <2>4, SourceViewIs DEF Suffix
<1> QED
  BY <1>2, <1>4 DEF Sourced, Viewed, v

-----------------------------------------------------------------------------
(* What may change while the transform runs.                               *)

\* The request is the one that was normalized, but for values and copies, or is longer.
Like(q, r) == r \in Seq(RequestMessage) /\ Len(q) \in Nat /\ (Len(r) > Len(q) \/ Alike(q, r))

LEMMA PartChanged ==
  ASSUME NEW q, NEW r, Like(q, r), NEW m \in 1 .. Len(r), NEW c \in 1 .. Len(r[m].parts),
         NEW part \in RequestPart, part.type = r[m].parts[c].type, part.call = r[m].parts[c].call,
         part.obj = r[m].parts[c].obj, part.tag = r[m].parts[c].tag,
         part.gen = r[m].parts[c].gen \/ part.gen = 1
  PROVE  Like(q, [r EXCEPT ![m].parts[c] = part])
<1> DEFINE w == r[m].parts
           u == [w EXCEPT ![c] = part]
           x == [r[m] EXCEPT !.parts = u]
           t == [r EXCEPT ![m] = x]
<1>1. t = [r EXCEPT ![m].parts[c] = part]
  OBVIOUS
<1>2. r \in Seq(RequestMessage) /\ Len(r) \in Nat /\ r[m] \in RequestMessage
  BY DEF Like
<1>3. w \in Seq(RequestPart)
  BY <1>2 DEF RequestMessage
<1> HIDE DEF w
<1>4. /\ u \in Seq(RequestPart) /\ Len(u) = Len(w)
      /\ \A d \in 1 .. Len(w) : u[d] = IF d = c THEN part ELSE w[d]
  BY <1>3 DEF w
<1> HIDE DEF u
<1>5. x \in RequestMessage /\ x.parts = u
  BY <1>2, <1>4 DEF RequestMessage
<1> HIDE DEF x
<1>6. /\ t \in Seq(RequestMessage) /\ Len(t) = Len(r)
      /\ \A n \in 1 .. Len(r) : t[n] = IF n = m THEN x ELSE r[n]
  BY <1>2, <1>5
<1> HIDE DEF t
<1>7. ASSUME Alike(q, r)
      PROVE  Alike(q, t)
  <2>1. Len(r) = Len(q) /\ Placed(r)
    BY <1>7 DEF Alike
  <2>2. ASSUME NEW n \in 1 .. Len(q)
        PROVE  /\ Len(t[n].parts) = Len(q[n].parts)
               /\ \A d \in 1 .. Len(q[n].parts) :
                    /\ t[n].parts[d].type = q[n].parts[d].type /\ t[n].parts[d].call = q[n].parts[d].call
                    /\ t[n].parts[d].gen < 2 /\ t[n].parts[d].tag = FALSE
                    /\ t[n].parts[d].obj = <<n, d>>
    <3>1. /\ Len(r[n].parts) = Len(q[n].parts)
          /\ \A d \in 1 .. Len(q[n].parts) :
               /\ r[n].parts[d].type = q[n].parts[d].type /\ r[n].parts[d].call = q[n].parts[d].call
               /\ r[n].parts[d].gen < 2 /\ r[n].parts[d].tag = FALSE
               /\ r[n].parts[d].obj = <<n, d>>
      BY <1>7, <2>1 DEF Alike, Placed
    <3>2. CASE n = m
      <4>1. t[n].parts = u /\ r[n].parts = w
        BY <1>5, <1>6, <2>1, <3>2 DEF w
      <4>2. Len(u) = Len(q[n].parts)
        BY <1>4, <3>1, <4>1
      <4>3. ASSUME NEW d \in 1 .. Len(q[n].parts)
            PROVE  /\ u[d].type = q[n].parts[d].type /\ u[d].call = q[n].parts[d].call
                   /\ u[d].gen < 2 /\ u[d].tag = FALSE
                   /\ u[d].obj = <<n, d>>
        <5>1. u[d] = IF d = c THEN part ELSE w[d]
          BY <1>4, <4>2, <4>3
        <5>2. /\ w[d].type = q[n].parts[d].type /\ w[d].call = q[n].parts[d].call
              /\ w[d].gen < 2 /\ w[d].tag = FALSE /\ w[d].obj = <<n, d>>
          BY <3>1, <4>1
        <5>3. CASE d = c
          <6>1. /\ part.type = w[d].type /\ part.call = w[d].call /\ part.obj = w[d].obj
                /\ part.tag = w[d].tag /\ (part.gen = w[d].gen \/ part.gen = 1)
            BY <5>3 DEF w
          <6> QED
            BY <5>1, <5>2, <5>3, <6>1
        <5> QED
          BY <5>1, <5>2, <5>3
      <4> QED
        BY <4>1, <4>2, <4>3
    <3>3. CASE n # m
      <4>1. t[n] = r[n]
        BY <1>6, <2>1, <3>3
      <4> QED
        BY <3>1, <4>1
    <3> QED
      BY <3>2, <3>3
  <2>3. Placed(t)
    BY <1>6, <2>1, <2>2 DEF Placed
  <2> QED
    BY <1>6, <2>1, <2>2, <2>3 DEF Alike
<1> QED
  BY <1>1, <1>6, <1>7 DEF Like

LEMMA MessageChanged ==
  ASSUME NEW q, NEW r, Like(q, r), NEW m \in 1 .. Len(r)
  PROVE  Like(q, [r EXCEPT ![m].gen = 1])
<1> DEFINE x == [r[m] EXCEPT !.gen = 1]
           t == [r EXCEPT ![m] = x]
<1>1. t = [r EXCEPT ![m].gen = 1]
  OBVIOUS
<1>2. r \in Seq(RequestMessage) /\ Len(r) \in Nat /\ r[m] \in RequestMessage
  BY DEF Like
<1>3. x \in RequestMessage /\ x.parts = r[m].parts
  BY <1>2 DEF RequestMessage
<1> HIDE DEF x
<1>4. /\ t \in Seq(RequestMessage) /\ Len(t) = Len(r)
      /\ \A n \in 1 .. Len(r) : t[n] = IF n = m THEN x ELSE r[n]
  BY <1>2, <1>3
<1> HIDE DEF t
<1>5. \A n \in 1 .. Len(r) : t[n].parts = r[n].parts
  BY <1>3, <1>4
<1>6. ASSUME Alike(q, r)
      PROVE  Alike(q, t)
  <2>1. Placed(t)
    BY <1>4, <1>5, <1>6 DEF Alike, Placed
  <2> QED
    BY <1>4, <1>5, <1>6, <2>1, SMTT(20) DEF Alike
<1> QED
  BY <1>1, <1>4, <1>6 DEF Like

LEMMA HostMessageTyped == HostMessage \in RequestMessage
<1>1. HostMessage \in Lowers
  BY HostMessageIs
<1>2. HostMessage \in FreshMessage
  BY <1>1 DEF Lowers
<1>3. FreshPart \subseteq RequestPart
  BY DEF FreshPart
<1> DEFINE x == HostMessage
<1>4. x = [id |-> 0, role |-> "user", parts |-> x.parts, gen |-> 0] /\ x.parts \in Seq(FreshPart)
  <2>1. x = [id |-> 0, role |-> "user", parts |-> <<Part("text", NoPtr, "host", "text")>>, gen |-> 0]
    BY DEF HostMessage, Message
  <2>2. x.parts = <<Part("text", NoPtr, "host", "text")>>
    BY <2>1
  <2>3. x.parts \in Seq(FreshPart)
    BY <1>2 DEF FreshMessage
  <2> QED
    BY <2>1, <2>2, <2>3
<1> HIDE DEF x
<1>5. x.parts \in Seq(RequestPart)
  BY <1>3, <1>4, SeqWider
<1>6. "user" \in Word
  BY DEF Word
<1>7. x \in RequestMessage
  BY <1>4, <1>5, <1>6 DEF RequestMessage
<1> QED
  BY <1>7 DEF x

LEMMA LikeExtended ==
  ASSUME NEW q, NEW r, Like(q, r), NEW m \in 1 .. Len(r)
  PROVE  Like(q, InsertAt(r, m, HostMessage))
<1>1. r \in Seq(RequestMessage) /\ (Len(r) > Len(q) \/ Len(r) = Len(q)) /\ Len(r) \in Nat /\ Len(q) \in Nat
  BY DEF Like, Alike
<1>2. m \in 1 .. Len(r) + 1
  BY <1>1
<1> DEFINE x == HostMessage
<1>3. x \in RequestMessage
  BY HostMessageTyped
<1> HIDE DEF x
<1>4. InsertAt(r, m, x) \in Seq(RequestMessage) /\ Len(InsertAt(r, m, x)) = Len(r) + 1
  BY <1>1, <1>2, <1>3, InsertedIs
<1>5. Len(InsertAt(r, m, x)) > Len(q)
  BY <1>1, <1>4
<1> QED
  BY <1>4, <1>5 DEF Like, x

-----------------------------------------------------------------------------
(* The invariant.                                                          *)

LEMMA LikeItself ==
  ASSUME NEW out, Fresh(out)
  PROVE  Like(out, out)
<1>1. Placed(out) /\ out \in Seq(RequestMessage) /\ Len(out) \in Nat
  BY DEF Fresh, Placed
<1>2. Alike(out, out)
  BY <1>1 DEF Alike, Fresh
<1> QED
  BY <1>1, <1>2 DEF Like

LEMMA BaselineAlike ==
  ASSUME NEW p, NEW r, Like(p.request, r), BaselineHolds(p, r)
  PROVE  Alike(p.request, r)
<1> DEFINE q == p.request
           a == Shape(r)
           b == Shape(q)
<1>1. a = b
  BY DEF BaselineHolds
<1>2. DOMAIN a = 1 .. Len(r) /\ DOMAIN b = 1 .. Len(q)
  BY DEF Shape
<1> HIDE DEF a, b, q
<1>3. 1 .. Len(r) = 1 .. Len(q)
  BY <1>1, <1>2
<1>4. Len(r) \in Nat /\ Len(q) \in Nat /\ (Len(r) > Len(q) \/ Alike(q, r))
  BY DEF Like, q
<1>5. ~(Len(r) > Len(q))
  <2> SUFFICES ASSUME Len(r) > Len(q)
               PROVE  FALSE
    OBVIOUS
  <2>1. Len(r) \in 1 .. Len(r)
    BY <1>4
  <2>2. Len(r) \in 1 .. Len(q)
    BY <1>3, <2>1
  <2> QED
    BY <1>4, <2>2
<1> QED
  BY <1>4, <1>5 DEF q

\* What is known of the projection: its entries trace every part of the request, and when it
\* is valid each is correlated with the part.
Sound(p) ==
  /\ Traced(p)
  /\ p.valid => \A s \in 1 .. Len(p.entries) : \A j \in 1 .. Len(p.entries[s].origins) :
                  Correlated(p.entries[s].origins[j], p.request)
\* What a patched request was made from.
PatchedFrom(p, v, out) ==
  \E r : Alike(p.request, r) /\ Applies(p, r, v) /\ out = Assembled(p, r, v)

\* The inductive invariant of the hook.
HookInv ==
  /\ phase \in {"idle", "transforming", "patching", "done"}
  /\ phase # "idle" => Sound(projection)
  /\ phase # "done" => verdict = "none"
  /\ phase = "transforming" => Sourced(projection, view) /\ Like(projection.request, request)
  /\ phase = "patching" => Viewed(projection, view) /\ Like(projection.request, request)
  /\ verdict = "patched" => Viewed(projection, view)
ContextIInv == HookInv /\ (verdict = "patched" => PatchedFrom(projection, view, request))

LEMMA RestoredViewed ==
  ASSUME NEW p, Traced(p), NEW v, Viewed(p, v)
  PROVE  Viewed(p, Restored(p, v))
<1> DEFINE t == Restored(p, v)
<1>1. Listed(p.entries) /\ InSourceOrder(p, v) /\ Listed(v)
  BY DEF Traced, Viewed, InSourceOrder, Rises
<1>2. InSourceOrder(p, t) /\ ToSet(t) = ToSet(v) \cup {SourceView(p, s) : s \in Missing(p, v)}
  BY <1>1, RestoredIs
<1>3. Missing(p, v) \subseteq 1 .. Len(p.entries)
  <2>1. DOMAIN p.entries = 1 .. Len(p.entries)
    BY <1>1, SetOfListed
  <2> QED
    BY <2>1 DEF Missing, Protected
<1> HIDE DEF t
<1>4. Listed(t)
  BY <1>2 DEF InSourceOrder, Rises
<1>5. ASSUME NEW k \in 1 .. Len(t)
      PROVE  t[k] \in ViewMessage
  <2>1. t[k] \in ToSet(t)
    BY <1>4, SetOfListed
  <2>2. CASE t[k] \in ToSet(v)
    <3>1. PICK j \in 1 .. Len(v) : t[k] = v[j]
      BY <1>1, <2>2, ElementAt
    <3> QED
      BY <3>1 DEF Viewed
  <2>3. CASE t[k] \notin ToSet(v)
    <3>1. PICK s \in Missing(p, v) : t[k] = SourceView(p, s)
      BY <1>2, <2>1, <2>3
    <3> QED
      BY <1>3, <3>1, SourceViewIs
  <2> QED
    BY <2>2, <2>3
<1> QED
  BY <1>2, <1>5 DEF Viewed, t

LEMMA HookInit == ContextInit => ContextIInv
BY DEF ContextInit, ContextIInv, HookInv

LEMMA LoadKeeps == ContextIInv /\ LoadProjection => ContextIInv'
<1> SUFFICES ASSUME ContextIInv, LoadProjection
             PROVE  ContextIInv'
  OBVIOUS
<1>1. PICK h \in Histories :
      \E r \in (IF h \in Disturbed THEN RequestsFor(h) ELSE {Identified(Lowered(h))}) :
        /\ history' = h /\ request' = r
        /\ projection' = Normalize(h, r)
        /\ IF Normalize(h, r).valid
           THEN /\ phase' = "transforming" /\ view' = InitialView(Normalize(h, r))
                /\ verdict' = "none"
           ELSE phase' = "done" /\ view' = <<>> /\ verdict' = "unchanged"
  BY DEF LoadProjection
<1>r. PICK r \in (IF h \in Disturbed THEN RequestsFor(h) ELSE {Identified(Lowered(h))}) :
        /\ history' = h /\ request' = r
        /\ projection' = Normalize(h, r)
        /\ IF Normalize(h, r).valid
           THEN /\ phase' = "transforming" /\ view' = InitialView(Normalize(h, r))
                /\ verdict' = "none"
           ELSE phase' = "done" /\ view' = <<>> /\ verdict' = "unchanged"
  BY <1>1
<1>2. Typed(h)
  BY HistoriesAssumption DEF Typed
<1>3. Fresh(r)
  BY <1>2, RequestsForIs
<1> DEFINE p == Normalize(h, r)
<1>4. /\ projection' = p /\ request' = r
      /\ p.valid => phase' = "transforming" /\ view' = InitialView(p) /\ verdict' = "none"
      /\ ~p.valid => phase' = "done" /\ view' = <<>> /\ verdict' = "unchanged"
  BY <1>r
<1>5. Sound(p) /\ p.request = r
  <2>1. /\ Traced(p) /\ p.request = r
        /\ p.valid => \A s \in 1 .. Len(p.entries) : \A j \in 1 .. Len(p.entries[s].origins) :
                         Correlated(p.entries[s].origins[j], r)
    <3> DEFINE q == p
    <3>1. q = Normalize(h, r)
      OBVIOUS
    <3> HIDE DEF q
    <3>2. /\ Traced(q) /\ q.request = r
          /\ q.valid => \A s \in 1 .. Len(q.entries) : \A j \in 1 .. Len(q.entries[s].origins) :
                           Correlated(q.entries[s].origins[j], r)
      BY <1>2, <1>3, <3>1, NormalizedIs
    <3> QED
      BY <3>2 DEF q
  <2> HIDE DEF p
  <2> QED
    BY <2>1 DEF Sound
<1> HIDE DEF p
<1>6. Sourced(p, InitialView(p)) /\ Like(p.request, r)
  BY <1>3, <1>5, InitialViewSourced, LikeItself DEF Sound
<1> QED
  BY <1>4, <1>5, <1>6 DEF ContextIInv, HookInv

LEMMA TransformKeeps == ContextIInv /\ RunMessageTransform => ContextIInv'
<1> SUFFICES ASSUME ContextIInv, RunMessageTransform
             PROVE  ContextIInv'
  OBVIOUS
<1>1. /\ Sound(projection) /\ Sourced(projection, view) /\ Like(projection.request, request)
      /\ verdict = "none"
  BY DEF ContextIInv, HookInv, RunMessageTransform
<1>2. PICK hidden, edit, nudged, suffix : view' = Transformed(view, hidden, edit, nudged, suffix)
  BY DEF RunMessageTransform
<1>3. /\ phase' = "patching" /\ request' = request /\ projection' = projection /\ verdict' = verdict
  BY DEF RunMessageTransform
<1>4. Viewed(projection, view')
  BY <1>1, <1>2, TransformedIs
<1> QED
  BY <1>1, <1>3, <1>4 DEF ContextIInv, HookInv

LEMMA DisturbedLike ==
  ASSUME NEW q, NEW r, Like(q, r), NEW m \in 1 .. Len(r), NEW c \in 1 .. Len(r[m].parts)
  PROVE  /\ Like(q, [r EXCEPT ![m].parts[c].val = "changed"])
         /\ Like(q, [r EXCEPT ![m].parts[c].gen = 1])
<1> DEFINE x == r[m].parts[c]
           a == [x EXCEPT !.val = "changed"]
           b == [x EXCEPT !.gen = 1]
<1>1. x \in RequestPart
  <2>1. r[m] \in RequestMessage
    BY DEF Like
  <2>2. r[m].parts \in Seq(RequestPart)
    BY <2>1 DEF RequestMessage
  <2> QED
    BY <2>2
<1> HIDE DEF x
<1>2. /\ a \in RequestPart /\ a.type = x.type /\ a.call = x.call /\ a.obj = x.obj /\ a.tag = x.tag
      /\ a.gen = x.gen
  <2>1. "changed" \in Word
    BY DEF Word
  <2>2. a \in RequestPart /\ a.type = x.type /\ a.call = x.call /\ a.obj = x.obj /\ a.gen = x.gen
    BY <1>1, <2>1 DEF RequestPart
  <2>3. a.tag = x.tag
    BY <1>1 DEF RequestPart
  <2> QED
    BY <2>2, <2>3
<1>3. /\ b \in RequestPart /\ b.type = x.type /\ b.call = x.call /\ b.obj = x.obj /\ b.tag = x.tag
      /\ b.gen = 1
  <2>1. b \in RequestPart /\ b.type = x.type /\ b.call = x.call /\ b.obj = x.obj /\ b.gen = 1
    BY <1>1 DEF RequestPart
  <2>2. b.tag = x.tag
    BY <1>1 DEF RequestPart
  <2> QED
    BY <2>1, <2>2
<1>4. /\ [r EXCEPT ![m].parts[c].val = "changed"] = [r EXCEPT ![m].parts[c] = a]
      /\ [r EXCEPT ![m].parts[c].gen = 1] = [r EXCEPT ![m].parts[c] = b]
  BY DEF x
<1> HIDE DEF a, b
<1>5. Like(q, [r EXCEPT ![m].parts[c] = a])
  BY <1>2, PartChanged DEF x
<1>6. Like(q, [r EXCEPT ![m].parts[c] = b])
  BY <1>3, PartChanged DEF x
<1> QED
  BY <1>4, <1>5, <1>6

LEMMA InterfereKeeps == ContextIInv /\ Interfere => ContextIInv'
<1> SUFFICES ASSUME ContextIInv, Interfere
             PROVE  ContextIInv'
  OBVIOUS
<1>1. /\ phase = "patching" /\ phase' = phase /\ projection' = projection /\ view' = view
      /\ verdict' = verdict
  BY DEF Interfere
<1>2. Viewed(projection, view) /\ Like(projection.request, request) /\ Sound(projection) /\ verdict = "none"
  BY <1>1 DEF ContextIInv, HookInv
<1>3. PICK m \in 1 .. Len(request) :
        \/ \E c \in 1 .. Len(request[m].parts) :
              \/ request' = [request EXCEPT ![m].parts[c].val = "changed"]
              \/ request' = [request EXCEPT ![m].parts[c].gen = 1]
        \/ request' = [request EXCEPT ![m].gen = 1]
        \/ request' = InsertAt(request, m, HostMessage)
  BY DEF Interfere
<1>4. Like(projection.request, request')
  <2>1. CASE request' = [request EXCEPT ![m].gen = 1]
    BY <1>2, <2>1, MessageChanged
  <2>2. CASE request' = InsertAt(request, m, HostMessage)
    BY <1>2, <2>2, LikeExtended
  <2>3. CASE \E c \in 1 .. Len(request[m].parts) :
                \/ request' = [request EXCEPT ![m].parts[c].val = "changed"]
                \/ request' = [request EXCEPT ![m].parts[c].gen = 1]
    <3>1. PICK c \in 1 .. Len(request[m].parts) :
            \/ request' = [request EXCEPT ![m].parts[c].val = "changed"]
            \/ request' = [request EXCEPT ![m].parts[c].gen = 1]
      BY <2>3
    <3> DEFINE q == projection.request
               a == [request EXCEPT ![m].parts[c].val = "changed"]
               b == [request EXCEPT ![m].parts[c].gen = 1]
    <3>2. Like(q, request)
      BY <1>2
    <3>3. request' = a \/ request' = b
      BY <3>1
    <3> HIDE DEF q
    <3>4. Like(q, a) /\ Like(q, b)
      BY <3>2, DisturbedLike
    <3> HIDE DEF a, b
    <3>5. Like(q, request')
      BY <3>3, <3>4
    <3> QED
      BY <3>5 DEF q
  <2> QED
    BY <1>3, <2>1, <2>2, <2>3
<1> QED
  BY <1>1, <1>2, <1>4 DEF ContextIInv, HookInv

LEMMA CommitKeeps == ContextIInv /\ CommitPatch => ContextIInv'
<1> SUFFICES ASSUME ContextIInv, CommitPatch
             PROVE  ContextIInv'
  OBVIOUS
<1> DEFINE v == Restored(projection, view)
<1>1. /\ Viewed(projection, view) /\ Like(projection.request, request) /\ Sound(projection)
      /\ phase' = "done" /\ projection' = projection
  BY DEF CommitPatch, ContextIInv, HookInv
<1>2. \/ /\ Applies(projection, request, v) /\ verdict' = "patched" /\ view' = v
         /\ request' = Assembled(projection, request, v)
      \/ verdict' = "unchanged"
  BY DEF CommitPatch
<1>3. Viewed(projection, v)
  BY <1>1, RestoredViewed DEF Sound
<1> HIDE DEF v
<1>4. CASE verdict' = "patched"
  <2>1. /\ Applies(projection, request, v) /\ view' = v /\ request' = Assembled(projection, request, v)
    BY <1>2, <1>4
  <2>2. Alike(projection.request, request)
    BY <1>1, <2>1, BaselineAlike DEF Applies
  <2>3. PatchedFrom(projection', view', request')
    BY <1>1, <2>1, <2>2 DEF PatchedFrom
  <2> QED
    BY <1>1, <1>3, <1>4, <2>1, <2>3 DEF ContextIInv, HookInv
<1>5. CASE verdict' = "unchanged"
  BY <1>1, <1>5 DEF ContextIInv, HookInv
<1> QED
  BY <1>2, <1>4, <1>5

LEMMA FinishKeeps == ContextIInv /\ Finish => ContextIInv'
BY DEF Finish, ContextIInv, HookInv

THEOREM ContextInvariant == ContextSpec => []ContextIInv
<1>1. ContextInit => ContextIInv
  BY HookInit
<1>2. ContextIInv /\ [ContextNext]_contextVars => ContextIInv'
  <2> SUFFICES ASSUME ContextIInv, [ContextNext]_contextVars
               PROVE  ContextIInv'
    OBVIOUS
  <2>1. CASE LoadProjection
    BY <2>1, LoadKeeps
  <2>2. CASE RunMessageTransform
    BY <2>2, TransformKeeps
  <2>3. CASE Interfere
    BY <2>3, InterfereKeeps
  <2>4. CASE CommitPatch
    BY <2>4, CommitKeeps
  <2>5. CASE Finish
    BY <2>5, FinishKeeps
  <2>6. CASE UNCHANGED contextVars
    BY <2>6 DEF contextVars, ContextIInv, HookInv
  <2> QED
    BY <2>1, <2>2, <2>3, <2>4, <2>5, <2>6 DEF ContextNext
<1> QED
  BY <1>1, <1>2, PTL DEF ContextSpec

-----------------------------------------------------------------------------
(* What the invariant shows of a patched request.                          *)

\* A patched request, and the request r it was made from.
MadeFrom(p, r, v, out) ==
  /\ Sound(p) /\ Located(p) /\ Apart(p) /\ Viewed(p, v) /\ Alike(p.request, r) /\ Applies(p, r, v)
  /\ out = Assembled(p, r, v)

LEMMA PatchedIs ==
  ASSUME ContextIInv, Patched
  PROVE  \E r, w : MadeFrom(projection, r, view, request) /\ Assembly(request, projection, r, view, w)
<1>1. /\ Sound(projection) /\ Viewed(projection, view) /\ PatchedFrom(projection, view, request)
  BY DEF Patched, ContextIInv, HookInv
<1>2. Located(projection) /\ Apart(projection)
  BY <1>1, TracedLocates DEF Sound, Traced
<1>3. PICK r : /\ Alike(projection.request, r) /\ Applies(projection, r, view)
               /\ request = Assembled(projection, r, view)
  BY <1>1 DEF PatchedFrom
<1>4. Len(view) \in Nat
  BY <1>1 DEF Viewed, InSourceOrder, Rises, Listed
<1>5. Len(r) \in Nat
  BY <1>3 DEF Alike, Placed
<1>6. \E w : Assembly(Assembled(projection, r, view), projection, r, view, w)
  BY <1>4, <1>5, AssembledIs
<1> QED
  BY <1>1, <1>2, <1>3, <1>6 DEF MadeFrom

LEMMA HandsBack == ContextIInv => OpaqueKept
<1> SUFFICES ASSUME ContextIInv, Patched, NEW m \in 1 .. Len(projection.request), m \notin RemovedMessages,
                    NEW c \in OpaqueParts(projection, m)
                        \cup IF OpaqueMessage(projection, m) THEN 1..Len(projection.request[m].parts) ELSE {},
                    <<m, c>> \notin RemovedPlaces
             PROVE  \E q \in HostParts(request) : q.obj = <<m, c>> /\ q.gen < 2
  BY DEF OpaqueKept
<1>1. PICK r, w : MadeFrom(projection, r, view, request) /\ Assembly(request, projection, r, view, w)
  BY PatchedIs
<1>2. m \notin RemovedOut(projection, view)
  BY DEF RemovedMessages, RemovedOut
<1>3. <<m, c>> \notin UNION {ToSet(o.ptrs) : o \in RemovedOrigins(projection, view)}
  BY DEF RemovedPlaces, Removed
<1>4. c \in OpaqueParts(projection, m)
      \/ (OpaqueMessage(projection, m) /\ c \in 1 .. Len(projection.request[m].parts))
  OBVIOUS
<1> DEFINE p == projection
           v == view
           out == request
<1>5. /\ Located(p) /\ Alike(p.request, r) /\ Applies(p, r, v) /\ Assembly(out, p, r, v, w)
      /\ m \in 1 .. Len(p.request) /\ m \notin RemovedOut(p, v) /\ <<m, c>> \notin GonePlaces(p, v)
      /\ c \in OpaqueParts(p, m) \/ (OpaqueMessage(p, m) /\ c \in 1 .. Len(p.request[m].parts))
  BY <1>1, <1>2, <1>3, <1>4 DEF MadeFrom, GonePlaces
<1> HIDE DEF p, v, out
<1>6. \E q \in HostParts(out) : q.obj = <<m, c>> /\ q.gen < 2
  <2>1. Handed(out, m, c)
    BY <1>5, OpaqueHandedBack
  <2> QED
    BY <2>1 DEF Handed
<1> QED
  BY <1>6 DEF out

LEMMA PartsListed ==
  ASSUME NEW p, NEW r, NEW v, Located(p), Alike(p.request, r), NEW out, NEW w,
         Assembly(out, p, r, v, w), NEW i \in 1 .. Len(out)
  PROVE  Listed(out[i].parts)
<1>1. CASE /\ w[i][1] \in 1 .. Len(r) /\ out[i] = HostPart(p, r, v, w[i][1])
  <2> DEFINE m == w[i][1]
  <2>1. m \in 1 .. Len(r) /\ out[i] = HostPart(p, r, v, m) /\ Placed(r) /\ m \in 1 .. Len(p.request)
        /\ Len(r[m].parts) = Len(p.request[m].parts)
    BY <1>1 DEF Alike
  <2> HIDE DEF m
  <2>2. Fits(p, r, v, m, Len(r[m].parts))
    BY <2>1, InsertionFits
  <2>3. Listed(KeptParts(p, r, v, m))
    BY <2>1, <2>2, KeptIs DEF Keeping
  <2>4. r[m] \in RequestMessage
    BY <2>1, RequestAt
  <2>5. out[i].parts = KeptParts(p, r, v, m)
    BY <2>1, <2>4 DEF HostPart, RequestMessage
  <2> QED
    BY <2>3, <2>5
<1>2. CASE out[i] = OwnPart(v, w[i][2])
  <2>1. out[i].parts = <<Inserted>>
    BY <1>2 DEF OwnPart, Message
  <2>2. Listed(<<Inserted>>)
    <3> DEFINE x == Inserted
    <3> HIDE DEF x
    <3>1. Listed(<<x>>)
      BY DEF Listed
    <3> QED
      BY <3>1 DEF x
  <2> QED
    BY <2>1, <2>2
<1> QED
  BY <1>1, <1>2 DEF Assembly

LEMMA KeepsOrder == ContextIInv => OrderKept
<1> SUFFICES ASSUME ContextIInv, Patched
             PROVE  OrderKept
  BY DEF OrderKept
<1>1. PICK r, w : MadeFrom(projection, r, view, request) /\ Assembly(request, projection, r, view, w)
  BY PatchedIs
<1> DEFINE p == projection
           v == view
           out == request
<1>2. /\ Located(p) /\ Apart(p) /\ InSourceOrder(p, v) /\ Alike(p.request, r) /\ SourceOrderHolds(p, v)
      /\ BaselineHolds(p, r) /\ Assembly(out, p, r, v, w)
  BY <1>1 DEF MadeFrom, Viewed, Applies
<1>3. ASSUME NEW m \in 1 .. Len(out), NEW n \in 1 .. Len(out), NEW c \in 1 .. Len(out[m].parts),
             NEW d \in 1 .. Len(out[n].parts), Earlier(<<m, c>>, <<n, d>>),
             out[m].parts[c].obj # NoPtr, out[n].parts[d].obj # NoPtr
      PROVE  Earlier(out[m].parts[c].obj, out[n].parts[d].obj)
  <2> HIDE DEF p, v, out
  <2> QED
    BY <1>2, <1>3, PartsInOrder
<1>4. ASSUME NEW m \in 1 .. Len(out), NEW k \in 1 .. Len(v), out[m].id = Suffix, v[k].id = Suffix,
             NEW n \in 1 .. Len(out), NEW q \in ToSet(out[n].parts), q.obj # NoPtr
      PROVE  /\ m < n /\ Told(out, n) => Owner(p, q.obj[1]) \notin {v[j].id : j \in 1..(k - 1)}
             /\ n < m /\ (\E s \in {v[j].id : j \in 1..(k - 1)} : Sure(p, s)) =>
                  Owner(p, q.obj[1]) \notin {v[j].id : j \in (k + 1)..Len(v)}
  <2> HIDE DEF p, v, out
  <2>1. PICK d \in 1 .. Len(out[n].parts) : q = out[n].parts[d]
    <3>1. Listed(out[n].parts)
      BY <1>2, PartsListed
    <3> QED
      BY <1>4, <3>1, ElementAt
  <2>2. out[n].parts[d].obj # NoPtr
    BY <1>4, <2>1
  <2>3. InPlace(p, v, k, m, n, Owner(p, out[n].parts[d].obj[1]), Told(out, n))
    BY <1>2, <1>4, <2>2, OwnInPlace
  <2> QED
    BY <2>1, <2>3 DEF InPlace
<1>5. Len(out) \in Nat
  BY <1>2 DEF Assembly, Listed
<1>6. \A m \in 1 .. Len(out) : /\ \A n \in (m + 1) .. Len(out) : n \in 1 .. Len(out) /\ m < n
                               /\ \A n \in 1 .. (m - 1) : n \in 1 .. Len(out) /\ n < m
  <2> HIDE DEF out
  <2> QED
    BY <1>5
<1>7. \A m \in 1 .. Len(out), k \in 1 .. Len(v) : out[m].id = Suffix /\ v[k].id = Suffix =>
         /\ \A n \in (m + 1) .. Len(out) : \A q \in ToSet(out[n].parts) :
              q.obj # NoPtr /\ Told(out, n) => Owner(p, q.obj[1]) \notin {v[j].id : j \in 1..(k - 1)}
         /\ (\E s \in {v[j].id : j \in 1..(k - 1)} : Sure(p, s)) =>
              \A n \in 1 .. (m - 1) : \A q \in ToSet(out[n].parts) :
                q.obj # NoPtr => Owner(p, q.obj[1]) \notin {v[j].id : j \in (k + 1)..Len(v)}
  <2> HIDE DEF p, v, out
  <2> QED
    BY <1>4, <1>6
<1> QED
  BY <1>3, <1>7 DEF OrderKept, Sure

LEMMA RestoresProtected == ContextIInv => RestoredRemovesNothingProtected
<1> SUFFICES ASSUME ContextIInv, phase = "patching"
             PROVE  LET v == Restored(projection, view)
                    IN /\ RemovedSources(projection, v) \cap Protected(projection) = {}
                       /\ \A k, l \in {i \in 1..Len(v) : IsSource(projection, v[i])} : k < l => v[k].id < v[l].id
  BY DEF RestoredRemovesNothingProtected
<1> DEFINE p == projection
           u == view
           v == Restored(p, u)
<1>1. Traced(p) /\ Viewed(p, u)
  BY DEF ContextIInv, HookInv, Sound
<1> HIDE DEF p, u
<1>2. Listed(p.entries) /\ InSourceOrder(p, u) /\ Listed(u) /\ DOMAIN p.entries = 1 .. Len(p.entries)
  BY <1>1, SetOfListed DEF Traced, Viewed, InSourceOrder, Rises
<1>3. InSourceOrder(p, v) /\ ToSet(v) = ToSet(u) \cup {SourceView(p, s) : s \in Missing(p, u)}
  BY <1>2, RestoredIs
<1> HIDE DEF v
<1>4. Listed(v)
  BY <1>3 DEF InSourceOrder, Rises
<1>5. ASSUME NEW s \in Protected(p)
      PROVE  InView(v, s)
  <2>1. \E msg \in ToSet(v) : msg.id = s
    <3>1. CASE s \in Missing(p, u)
      <4>1. SourceView(p, s).id = s
        BY DEF SourceView
      <4> QED
        BY <1>3, <3>1, <4>1
    <3>2. CASE s \notin Missing(p, u)
      <4>1. PICK k \in 1 .. Len(u) : u[k].id = s
        BY <3>2 DEF Missing
      <4>2. u[k] \in ToSet(u)
        BY <1>2, SetOfListed
      <4> QED
        BY <1>3, <4>1, <4>2
    <3> QED
      BY <3>1, <3>2
  <2>2. PICK msg \in ToSet(v) : msg.id = s
    BY <2>1
  <2>3. PICK k \in 1 .. Len(v) : msg = v[k]
    BY <1>4, ElementAt
  <2> QED
    BY <2>2, <2>3 DEF InView
<1>6. RemovedSources(p, v) \cap Protected(p) = {}
  BY <1>5 DEF RemovedSources
<1>7. ASSUME NEW k \in 1 .. Len(v), NEW l \in 1 .. Len(v), IsSource(p, v[k]), IsSource(p, v[l]), k < l
      PROVE  v[k].id < v[l].id
  <2>1. Over(v[k].id, v[l].id)
    BY <1>3, <1>7 DEF InSourceOrder, Rises
  <2>2. v[k].id # Suffix /\ v[l].id # Suffix
    BY <1>2, <1>7 DEF IsSource, Suffix, Listed
  <2> QED
    BY <2>1, <2>2 DEF Over
<1> QED
  BY <1>6, <1>7 DEF v, p, u

\* What ACP does not own it hands back, in every state: the parts the projection marks opaque
\* reach the host as the same objects (applyV2ContextPatch, v2/projection/patch.ts).
THEOREM OpaqueStays == ContextSpec => []OpaqueKept
BY ContextInvariant, HandsBack, PTL

\* The host's parts keep their order in a patched request, and ACP's own message has its
\* place among them (insertionPoint and assemble, v2/projection/patch.ts).
THEOREM OrderStays == ContextSpec => []OrderKept
BY ContextInvariant, KeepsOrder, PTL

\* No protected source is missing from a restored view, and none is out of its order
\* (restoreMissingV2OpaqueSources, v2/projection/restore.ts).
THEOREM ProtectedRestored == ContextSpec => []RestoredRemovesNothingProtected
BY ContextInvariant, RestoresProtected, PTL

-----------------------------------------------------------------------------
(* Origins that are removed, and the pairs of calls and results.           *)

\* An origin of source s: a checkpoint's is opaque, any other points at the parts of its item.
OriginFacts(p, o, s) ==
  /\ OriginIs(o, p.request, ToSet(p.entries[s].out), s)
  /\ \/ p.entries[s].type = "checkpoint" /\ o.opaque = TRUE /\ o.kind = "text"
     \/ p.entries[s].type # "checkpoint" /\ OriginTraced(o, p.request, ToSet(p.entries[s].out))

LEMMA OriginKnown ==
  ASSUME NEW p, Traced(p), NEW s \in 1 .. Len(p.entries), NEW o \in ToSet(p.entries[s].origins)
  PROVE  OriginFacts(p, o, s) /\ \E j \in 1 .. Len(p.entries[s].origins) : o = p.entries[s].origins[j]
<1> DEFINE e == p.entries[s]
<1>1. EntryIs(e, p.request, s)
  BY DEF Traced
<1> HIDE DEF e
<1>2. PICK j \in 1 .. Len(e.origins) : o = e.origins[j]
  <2>1. Listed(e.origins) /\ o \in ToSet(e.origins)
    BY <1>1 DEF EntryIs, e
  <2> QED
    BY <2>1, ElementAt
<1>3. OriginIs(o, p.request, ToSet(e.out), s)
  BY <1>1, <1>2 DEF EntryIs
<1>4. CASE e.type = "checkpoint"
  <2>1. o.opaque /\ o.kind = "text"
    BY <1>1, <1>2, <1>4 DEF EntryIs
  <2>2. o.opaque = TRUE
    BY <1>3, <2>1 DEF OriginIs
  <2> QED
    BY <1>2, <1>3, <1>4, <2>1, <2>2 DEF OriginFacts, e
<1>5. CASE e.type # "checkpoint"
  <2>1. OriginTraced(o, p.request, ToSet(e.out))
    BY <1>1, <1>2, <1>5 DEF EntryIs
  <2> QED
    BY <1>2, <1>3, <1>5, <2>1 DEF OriginFacts, e
<1> QED
  BY <1>4, <1>5

\* Two origins that share a part are one, or are both opaque and of no call.
Twins(o, q) == o = q \/ (o.opaque = TRUE /\ o.call = NoPtr /\ q.opaque = TRUE /\ q.call = NoPtr)

LEMMA SharedPart ==
  ASSUME NEW p, Traced(p), NEW s \in 1 .. Len(p.entries), NEW o \in ToSet(p.entries[s].origins),
         NEW t \in 1 .. Len(p.entries), NEW q \in ToSet(p.entries[t].origins),
         NEW ptr \in ToSet(o.ptrs), ptr \in ToSet(q.ptrs)
  PROVE  Twins(o, q)
<1>1. OriginFacts(p, o, s) /\ OriginFacts(p, q, t)
  BY OriginKnown
<1>2. ptr[1] \in ToSet(p.entries[s].out) /\ ptr[1] \in ToSet(p.entries[t].out)
  BY <1>1 DEF OriginFacts, OriginIs, PtrIs
<1>3. s = t
  BY <1>2 DEF Traced, Apart
<1>4. CASE p.entries[s].type = "checkpoint"
  <2>1. o.opaque = TRUE /\ o.kind = "text" /\ q.opaque = TRUE /\ q.kind = "text"
    BY <1>1, <1>3, <1>4 DEF OriginFacts
  <2> QED
    BY <1>1, <2>1 DEF OriginFacts, OriginIs, Twins
<1>5. CASE p.entries[s].type # "checkpoint"
  <2> DEFINE os == p.entries[s].origins
  <2>1. PICK i \in 1 .. Len(os) : o = os[i]
    BY OriginKnown
  <2>2. PICK j \in 1 .. Len(os) : q = os[j]
    BY <1>3, OriginKnown
  <2>3. \/ i = j
        \/ os[i].kind = "attachment" /\ os[j].kind = "attachment"
        \/ ToSet(os[i].ptrs) \cap ToSet(os[j].ptrs) = {}
    BY <1>5 DEF Traced, EntryIs
  <2> HIDE DEF os
  <2>4. i = j \/ (o.kind = "attachment" /\ q.kind = "attachment")
    BY <2>1, <2>2, <2>3
  <2>5. CASE i = j
    BY <2>1, <2>2, <2>5 DEF Twins
  <2>6. CASE o.kind = "attachment" /\ q.kind = "attachment"
    <3>1. o.opaque /\ q.opaque
      BY <1>1, <1>3, <1>5, <2>6 DEF OriginFacts, OriginTraced
    <3> QED
      BY <1>1, <2>6, <3>1 DEF OriginFacts, OriginIs, Twins
  <2> QED
    BY <2>4, <2>5, <2>6
<1> QED
  BY <1>4, <1>5

LEMMA OfOrigins ==
  ASSUME NEW p, NEW S, NEW o
  PROVE  o \in OriginsOf(p, S) <=> \E s \in S : o \in ToSet(p.entries[s].origins)
BY DEF OriginsOf

\* A removed origin is of a source the view has dropped, or has lost its view part.
RemovedFrom(p, v, o, s) ==
  /\ s \in 1 .. Len(p.entries) /\ o \in ToSet(p.entries[s].origins)
  /\ \/ s \in RemovedSources(p, v)
     \/ s \in RetainedSources(p, v) /\ ~KeyIn(v, o.key[1], o.key)

LEMMA RemovedKnown ==
  ASSUME NEW p, Listed(p.entries), NEW v, NEW o \in RemovedOrigins(p, v)
  PROVE  \E s : RemovedFrom(p, v, o, s)
<1>1. DOMAIN p.entries = 1 .. Len(p.entries)
  BY SetOfListed
<1>2. CASE o \in OriginsOf(p, RemovedSources(p, v))
  <2>1. PICK s \in RemovedSources(p, v) : o \in ToSet(p.entries[s].origins)
    BY <1>2, OfOrigins
  <2>2. s \in 1 .. Len(p.entries)
    BY <1>1, <2>1 DEF RemovedSources
  <2> QED
    BY <2>1, <2>2 DEF RemovedFrom
<1>3. CASE o \in OriginsOf(p, RetainedSources(p, v)) /\ ~KeyIn(v, o.key[1], o.key)
  <2>1. PICK s \in RetainedSources(p, v) : o \in ToSet(p.entries[s].origins)
    BY <1>3, OfOrigins
  <2>2. s \in 1 .. Len(p.entries)
    BY <1>1, <2>1 DEF RetainedSources
  <2> QED
    BY <1>3, <2>1, <2>2 DEF RemovedFrom
<1> QED
  BY <1>2, <1>3 DEF RemovedOrigins

\* What an accepted patch removes it may remove.
LEMMA RemovedAllowed ==
  ASSUME NEW p, NEW v, NEW r, Applies(p, r, v), Traced(p), NEW o, NEW s, RemovedFrom(p, v, o, s)
  PROVE  /\ s \in RemovedSources(p, v) => p.entries[s].removable
         /\ p.entries[s].type # "checkpoint"
<1>1. ~Forbidden(p, r, v)
  BY DEF Applies
<1>2. OriginFacts(p, o, s) /\ s \in 1 .. Len(p.entries)
  BY OriginKnown DEF RemovedFrom
<1>3. CASE s \in RemovedSources(p, v)
  <2>1. p.entries[s].removable
    BY <1>1, <1>3 DEF Forbidden
  <2>2. p.entries[s].type # "checkpoint"
    BY <1>2, <2>1 DEF Traced, EntryIs
  <2> QED
    BY <2>1, <2>2
<1>4. CASE s \notin RemovedSources(p, v)
  <2>1. s \in RetainedSources(p, v) /\ ~KeyIn(v, o.key[1], o.key) /\ o \in OriginsOf(p, RetainedSources(p, v))
    BY <1>4, OfOrigins DEF RemovedFrom
  <2>2. ~(o.opaque /\ o.kind # "tool")
    BY <1>1, <2>1 DEF Forbidden
  <2>3. p.entries[s].type # "checkpoint"
    BY <1>2, <2>2 DEF OriginFacts
  <2> QED
    BY <1>4, <2>3
<1> QED
  BY <1>3, <1>4

LEMMA HolderMade ==
  ASSUME NEW out, NEW i \in 1 .. Len(out), NEW k \in 1 .. Len(out[i].parts)
  PROVE  <<i, k>> \in Holders(out, out[i].parts[k].type, out[i].parts[k].call)
BY DEF Holders, Places

HolderIs(out, type, call, i, k) ==
  /\ i \in 1 .. Len(out) /\ k \in 1 .. Len(out[i].parts)
  /\ out[i].parts[k].type = type /\ out[i].parts[k].call = call

LEMMA HolderKnown ==
  ASSUME NEW out, NEW type, NEW call, NEW h \in Holders(out, type, call)
  PROVE  \E i, k : h = <<i, k>> /\ HolderIs(out, type, call, i, k)
<1>1. PICK i, k : h = <<i, k>> /\ i \in 1 .. Len(out) /\ k \in 1 .. Len(out[i].parts)
  BY DEF Holders, Places
<1>2. h[1] = i /\ h[2] = k
  BY <1>1
<1>3. out[h[1]].parts[h[2]].type = type /\ out[h[1]].parts[h[2]].call = call
  BY DEF Holders, Places
<1> QED
  BY <1>1, <1>2, <1>3 DEF HolderIs

LEMMA HolderThere ==
  ASSUME NEW out, NEW type, NEW call, NEW i, NEW k, HolderIs(out, type, call, i, k)
  PROVE  Holders(out, type, call) # {}
<1>1. <<i, k>> \in Holders(out, out[i].parts[k].type, out[i].parts[k].call)
  BY HolderMade DEF HolderIs
<1> QED
  BY <1>1 DEF HolderIs

LEMMA HostPartAt ==
  ASSUME NEW p, NEW r, NEW v, Located(p), Alike(p.request, r), NEW out, NEW w,
         Assembly(out, p, r, v, w), NEW e \in HostParts(out)
  PROVE  \E i \in 1 .. Len(out) : \E k \in 1 .. Len(out[i].parts) : e = out[i].parts[k]
<1>1. PICK i \in 1 .. Len(out) : e \in ToSet(out[i].parts)
  BY DEF HostParts
<1>2. Listed(out[i].parts)
  BY PartsListed
<1>3. \E k \in 1 .. Len(out[i].parts) : e = out[i].parts[k]
  BY <1>1, <1>2, ElementAt
<1> QED
  BY <1>3

\* Part c of message m is kept unless it is removed, or the part behind it is and ACP's own
\* went before both.
DisplacedAt(p, v, m, c) ==
  HoldsAcp(p, v, Owner(p, m)) /\ InsertedAt(p, m) <= c /\ <<m, c + 1>> \in GonePlaces(p, v)

LEMMA SparedOr ==
  ASSUME NEW p, NEW r, NEW v, Placed(r), NEW m \in 1 .. Len(r), NEW c \in 1 .. Len(r[m].parts),
         <<m, c>> \notin GonePlaces(p, v)
  PROVE  Spared(p, r, v, m, c) \/ DisplacedAt(p, v, m, c)
<1> DEFINE e == Edited(p, r, v, m)[c]
<1>1. e.obj = <<m, c>>
  <2>1. EditOf(e, r[m].parts[c], <<m, c>>)
    BY EditedIs
  <2> QED
    BY <2>1 DEF EditOf
<1>2. \A ptr : ptr \in Gone(p, v, m) => ptr \in GonePlaces(p, v)
  BY DEF Gone, GonePlaces
<1> HIDE DEF e
<1>3. e.obj \notin Gone(p, v, m)
  BY <1>1, <1>2
<1>4. CASE Spot(p, r, v, m, c) = c
  BY <1>2, <1>3, <1>4 DEF Spared, e
<1>5. CASE Spot(p, r, v, m, c) # c
  <2>1. /\ Spot(p, r, v, m, c) = c + 1 /\ HoldsAcp(p, v, Owner(p, m)) /\ InsertedAt(p, m) <= c
    BY <1>5 DEF Spot, HasInsertion
  <2>2. CASE <<m, c + 1>> \in Gone(p, v, m)
    BY <1>2, <2>1, <2>2 DEF DisplacedAt
  <2>3. CASE <<m, c + 1>> \notin Gone(p, v, m)
    BY <1>3, <2>1, <2>3 DEF Spared, e
  <2> QED
    BY <2>2, <2>3
<1> QED
  BY <1>4, <1>5

\* The result of a call that is still there is not removed.
LEMMA ResultStays ==
  ASSUME NEW p, NEW r, NEW v, NEW out, MadeFrom(p, r, v, out), NEW call \in CallIds(p),
         Holders(out, "tool-call", call) # {}, NEW m, NEW c, HolderIs(p.request, "tool-result", call, m, c)
  PROVE  m \notin RemovedOut(p, v) /\ <<m, c>> \notin GonePlaces(p, v)
<1>1. Traced(p) /\ Listed(p.entries) /\ Applies(p, r, v) /\ out = Assembled(p, r, v)
  BY DEF MadeFrom, Sound, Traced
<1>2. FinalHolds(p, v, out)
  BY <1>1 DEF Applies
<1>3. call \notin {o.key : o \in {q \in RemovedOrigins(p, v) : q.kind = "tool"}}
  BY <1>2 DEF FinalHolds
<1>4. \A o \in RemovedOrigins(p, v) : o.kind = "tool" => o.key # call
  BY <1>3
<1>5. DOMAIN p.entries = 1 .. Len(p.entries)
  BY <1>1, SetOfListed
<1>6. ASSUME m \in RemovedOut(p, v)
      PROVE  FALSE
  <2>1. PICK t \in RemovedSources(p, v) : m \in ToSet(p.entries[t].out)
    BY <1>6 DEF RemovedOut
  <2>2. p.entries[t].removable /\ t \in 1 .. Len(p.entries)
    BY <1>1, <1>5, <2>1 DEF Applies, Forbidden, RemovedSources
  <2>3. OwnTools(p.request, m, t)
    BY <1>1, <2>1, <2>2 DEF Traced, EntryIs
  <2>4. call[1] = t
    BY <2>3 DEF HolderIs, OwnTools, ToolPart
  <2>5. PICK s, o : /\ s \in 1 .. Len(p.entries) /\ o \in ToSet(p.entries[s].origins)
                    /\ o.kind = "tool" /\ o.key = call
    <3>1. PICK e, o : e \in ToSet(p.entries) /\ o \in ToSet(e.origins) /\ o.kind = "tool" /\ o.key = call
      BY DEF CallIds
    <3>2. PICK s \in 1 .. Len(p.entries) : e = p.entries[s]
      BY <1>1, <3>1, ElementAt
    <3> QED
      BY <3>1, <3>2
  <2>6. o.key[1] = s
    <3>1. OriginFacts(p, o, s)
      BY <1>1, <2>5, OriginKnown
    <3> QED
      BY <3>1 DEF OriginFacts, OriginIs
  <2>7. s = t
    BY <2>4, <2>5, <2>6
  <2>8. o \in RemovedOrigins(p, v)
    BY <2>1, <2>5, <2>7, OfOrigins DEF RemovedOrigins
  <2> QED
    BY <1>4, <2>5, <2>8
<1>7. ASSUME <<m, c>> \in GonePlaces(p, v)
      PROVE  FALSE
  <2>1. PICK o \in RemovedOrigins(p, v) : <<m, c>> \in ToSet(o.ptrs)
    BY <1>7 DEF GonePlaces
  <2>2. PICK s : RemovedFrom(p, v, o, s)
    BY <1>1, <2>1, RemovedKnown
  <2>3. p.entries[s].type # "checkpoint"
    BY <1>1, <2>2, RemovedAllowed
  <2>4. OriginTraced(o, p.request, ToSet(p.entries[s].out))
    <3>1. OriginFacts(p, o, s)
      BY <1>1, <2>2, OriginKnown DEF RemovedFrom
    <3> QED
      BY <2>3, <3>1 DEF OriginFacts
  <2>5. PartAt(p.request, <<m, c>>).type = "tool-result" /\ PartAt(p.request, <<m, c>>).call = call
    BY DEF HolderIs, PartAt
  <2>6. o.kind = "tool" /\ o.key = call
    <3> DEFINE ptr == <<m, c>>
               part == PartAt(p.request, ptr)
    <3>1. ptr \in ToSet(o.ptrs) /\ part.type = "tool-result" /\ part.call = call
      BY <2>1, <2>5
    <3> HIDE DEF ptr
    <3>2. /\ o.kind = "tool" => part.call = o.key
          /\ o.kind = "attachment" => part.type = "media"
          /\ o.kind \notin {"tool", "attachment"} => part.type \in {"text", "reasoning"}
      BY <2>4, <3>1 DEF OriginTraced
    <3> HIDE DEF part
    <3> QED
      BY <3>1, <3>2
  <2> QED
    BY <1>4, <2>1, <2>6
<1> QED
  BY <1>6, <1>7

LEMMA KeepsPairs == ContextIInv => PairsWhole
<1> SUFFICES ASSUME ContextIInv, Patched, NEW call \in CallIds(projection),
                    Holders(projection.request, "tool-result", call) # {}
             PROVE  /\ Holders(request, "tool-result", call) # {} => Holders(request, "tool-call", call) # {}
                    /\ Holders(request, "tool-call", call) # {} =>
                         \/ Holders(request, "tool-result", call) # {}
                         \/ \E ptr \in Holders(projection.request, "tool-result", call) : Displaced(ptr)
  BY DEF PairsWhole
<1>1. PICK r, w : MadeFrom(projection, r, view, request) /\ Assembly(request, projection, r, view, w)
  BY PatchedIs
<1>2. FinalHolds(projection, view, request)
  BY <1>1 DEF MadeFrom, Applies
<1>3. Holders(request, "tool-result", call) # {} => Holders(request, "tool-call", call) # {}
  BY <1>2 DEF FinalHolds
<1>4. ASSUME Holders(request, "tool-call", call) # {}
      PROVE  \/ Holders(request, "tool-result", call) # {}
             \/ \E ptr \in Holders(projection.request, "tool-result", call) : Displaced(ptr)
  <2> DEFINE p == projection
             v == view
             out == request
  <2>1. PICK h \in Holders(p.request, "tool-result", call) : TRUE
    OBVIOUS
  <2>2. PICK m, c : h = <<m, c>> /\ HolderIs(p.request, "tool-result", call, m, c)
    BY HolderKnown
  <2>3. m \notin RemovedOut(p, v) /\ <<m, c>> \notin GonePlaces(p, v)
    BY <1>1, <1>4, <2>2, ResultStays
  <2>4. /\ Located(p) /\ Alike(p.request, r) /\ Placed(r) /\ m \in 1 .. Len(r)
        /\ c \in 1 .. Len(r[m].parts) /\ Assembly(out, p, r, v, w)
        /\ r[m].parts[c].type = "tool-result" /\ r[m].parts[c].call = call
    BY <1>1, <2>2 DEF MadeFrom, Alike, HolderIs
  <2>5. Spared(p, r, v, m, c) \/ DisplacedAt(p, v, m, c)
    BY <2>3, <2>4, SparedOr
  <2>6. CASE Spared(p, r, v, m, c)
    <3> DEFINE e == Edited(p, r, v, m)[c]
    <3>1. e \in HostParts(out)
      BY <2>3, <2>4, <2>6, PartStays
    <3>2. e.type = "tool-result" /\ e.call = call
      <4>1. EditOf(e, r[m].parts[c], <<m, c>>)
        BY <2>4, EditedIs
      <4> QED
        BY <2>4, <4>1 DEF EditOf
    <3> HIDE DEF e
    <3>3. PICK i, k : i \in 1 .. Len(out) /\ k \in 1 .. Len(out[i].parts) /\ e = out[i].parts[k]
      BY <2>4, <3>1, HostPartAt
    <3>4. HolderIs(out, "tool-result", call, i, k)
      BY <3>2, <3>3 DEF HolderIs
    <3> QED
      BY <3>4, HolderThere
  <2>7. CASE DisplacedAt(p, v, m, c)
    <3>1. h[1] = m /\ h[2] = c
      BY <2>2
    <3>2. Displaced(h)
      BY <2>7, <3>1 DEF DisplacedAt, Displaced, GonePlaces, RemovedPlaces, Removed
    <3> QED
      BY <3>2
  <2> QED
    BY <2>5, <2>6, <2>7
<1> QED
  BY <1>3, <1>4

-----------------------------------------------------------------------------
(* The values of the view are those of the request.                        *)

KeptOrigins(p, v) == OriginsOf(p, RetainedSources(p, v)) \ RemovedOrigins(p, v)
EditTarget(o) == IF o.kind = "tool" THEN o.result ELSE IF o.ptrs = <<>> THEN NoPtr ELSE o.ptrs[1]
EditsAt(p, v, m, c) ==
  {o \in KeptOrigins(p, v) : EditTarget(o) = <<m, c>> /\ ~o.opaque /\ Changed(v, o)}
InputsAt(p, v, m, c) ==
  {o \in KeptOrigins(p, v) : o.call = <<m, c>> /\ ViewPartOf(v, o.key).inp}
EditChosen(p, v, m, c) == ViewPartOf(v, (CHOOSE o \in EditsAt(p, v, m, c) : TRUE).key)

EditedPart(p, r, v, m, c) ==
  IF EditsAt(p, v, m, c) # {}
  THEN [r[m].parts[c] EXCEPT !.val = EditChosen(p, v, m, c).val,
                             !.tag = EditChosen(p, v, m, c).tag, !.gen = 2]
  ELSE IF InputsAt(p, v, m, c) # {} THEN [r[m].parts[c] EXCEPT !.val = "rewritten", !.gen = 2]
  ELSE r[m].parts[c]

LEMMA EditedAs ==
  ASSUME NEW p, NEW r, NEW v, NEW m, NEW c \in 1 .. Len(r[m].parts)
  PROVE  Edited(p, r, v, m)[c] = EditedPart(p, r, v, m, c)
BY Zenon DEF Edited, EditsAt, InputsAt, EditChosen, EditTarget, KeptOrigins, EditedPart

\* An edited part has the value of the view part of one of its edits.
ValueOf(p, r, v, m, c, o) ==
  /\ Edited(p, r, v, m)[c].val = ViewPartOf(v, o.key).val
  /\ Edited(p, r, v, m)[c].tag = ViewPartOf(v, o.key).tag

LEMMA Rewritten ==
  ASSUME NEW p, NEW r, NEW v, Placed(r), NEW m \in 1 .. Len(r), NEW c \in 1 .. Len(r[m].parts),
         EditsAt(p, v, m, c) # {}
  PROVE  \E o \in EditsAt(p, v, m, c) : ValueOf(p, r, v, m, c, o)
<1> DEFINE x == r[m].parts[c]
           o == CHOOSE q \in EditsAt(p, v, m, c) : TRUE
           e == Edited(p, r, v, m)[c]
           a == ViewPartOf(v, o.key).val
           b == ViewPartOf(v, o.key).tag
<1>1. o \in EditsAt(p, v, m, c)
  OBVIOUS
<1>2. e = [x EXCEPT !.val = a, !.tag = b, !.gen = 2]
  BY EditedAs DEF EditedPart, EditChosen
<1>3. x \in RequestPart
  BY RequestAt
<1> HIDE DEF a, b, x, e, o
<1>4. e.val = a /\ e.tag = b
  BY <1>2, <1>3 DEF RequestPart
<1> QED
  BY <1>1, <1>4 DEF a, b, e, ValueOf

LEMMA Untouched ==
  ASSUME NEW p, NEW r, NEW v, NEW m, NEW c \in 1 .. Len(r[m].parts),
         EditsAt(p, v, m, c) = {}, InputsAt(p, v, m, c) = {}
  PROVE  Edited(p, r, v, m)[c] = r[m].parts[c]
<1>1. EditedPart(p, r, v, m, c) = r[m].parts[c]
  BY Zenon DEF EditedPart
<1> QED
  BY <1>1, EditedAs

\* An origin the patch keeps, of source s.
KeptOf(p, v, o, s) ==
  /\ s \in 1 .. Len(p.entries) /\ s \in RetainedSources(p, v) /\ o \in ToSet(p.entries[s].origins)
  /\ o \notin RemovedOrigins(p, v)

LEMMA KeptKnown ==
  ASSUME NEW p, Listed(p.entries), NEW v, NEW o \in KeptOrigins(p, v)
  PROVE  \E s : KeptOf(p, v, o, s)
<1>1. PICK s \in RetainedSources(p, v) : o \in ToSet(p.entries[s].origins)
  BY OfOrigins DEF KeptOrigins
<1>2. s \in 1 .. Len(p.entries)
  BY SetOfListed DEF RetainedSources
<1> QED
  BY <1>1, <1>2 DEF KeptOf, KeptOrigins

LEMMA FirstListed ==
  ASSUME NEW s, Listed(s), s # <<>>
  PROVE  1 \in 1 .. Len(s) /\ s[1] \in ToSet(s)
<1>1. Len(s) # 0
  BY DEF Listed
<1> QED
  BY <1>1, SetOfListed DEF Listed

\* The part an edit or an input is of is one of its origin's.
LEMMA TargetsKnown ==
  ASSUME NEW p, Traced(p), NEW v, NEW m \in Nat, m # 0, NEW c,
         NEW o \in EditsAt(p, v, m, c) \cup InputsAt(p, v, m, c)
  PROVE  \E s : KeptOf(p, v, o, s) /\ <<m, c>> \in ToSet(o.ptrs)
<1>1. o \in KeptOrigins(p, v) /\ Listed(p.entries)
  BY DEF EditsAt, InputsAt, Traced
<1>2. PICK s : KeptOf(p, v, o, s)
  BY <1>1, KeptKnown
<1>3. OriginIs(o, p.request, ToSet(p.entries[s].out), s)
  <2>1. OriginFacts(p, o, s)
    BY <1>2, OriginKnown DEF KeptOf
  <2> QED
    BY <2>1 DEF OriginFacts
<1>4. <<m, c>> # NoPtr
  BY DEF NoPtr
<1>5. CASE o \in InputsAt(p, v, m, c)
  <2>1. o.call = <<m, c>>
    BY <1>5 DEF InputsAt
  <2> QED
    BY <1>2, <1>3, <1>4, <2>1 DEF OriginIs
<1>6. CASE o \in EditsAt(p, v, m, c)
  <2>1. EditTarget(o) = <<m, c>>
    BY <1>6 DEF EditsAt
  <2>2. CASE o.kind = "tool"
    BY <1>2, <1>3, <1>4, <2>1, <2>2 DEF OriginIs, EditTarget
  <2>3. CASE o.kind # "tool"
    <3>1. o.ptrs # <<>> /\ o.ptrs[1] = <<m, c>>
      BY <1>4, <2>1, <2>3 DEF EditTarget
    <3>2. Listed(o.ptrs)
      BY <1>3 DEF OriginIs
    <3>3. o.ptrs[1] \in ToSet(o.ptrs)
      BY <3>1, <3>2, FirstListed
    <3> QED
      BY <1>2, <3>1, <3>3
  <2> QED
    BY <2>2, <2>3
<1> QED
  BY <1>5, <1>6

\* A removed part is not touched by any edit: it is the object it was.
LEMMA GoneUntouched ==
  ASSUME NEW p, NEW r, NEW v, NEW out, MadeFrom(p, r, v, out), NEW m \in 1 .. Len(r),
         NEW c \in 1 .. Len(r[m].parts), <<m, c>> \in GonePlaces(p, v)
  PROVE  Edited(p, r, v, m)[c] = r[m].parts[c] /\ r[m].parts[c].gen = 0
<1>1. /\ Traced(p) /\ Listed(p.entries) /\ Placed(r) /\ BaselineHolds(p, r)
      /\ m \in Nat /\ m # 0
  <2>1. Traced(p) /\ Listed(p.entries) /\ Placed(r) /\ BaselineHolds(p, r)
    BY DEF MadeFrom, Sound, Traced, Alike, Applies
  <2> QED
    BY <2>1 DEF Placed
<1>2. PICK g \in RemovedOrigins(p, v) : <<m, c>> \in ToSet(g.ptrs)
  BY DEF GonePlaces
<1>3. PICK t : RemovedFrom(p, v, g, t)
  BY <1>1, <1>2, RemovedKnown
<1>4. ASSUME NEW o \in EditsAt(p, v, m, c) \cup InputsAt(p, v, m, c)
      PROVE  FALSE
  <2>1. PICK s : KeptOf(p, v, o, s) /\ <<m, c>> \in ToSet(o.ptrs)
    BY <1>1, <1>4, TargetsKnown
  <2>2. o = g \/ (o.opaque = TRUE /\ o.call = NoPtr)
    <3> DEFINE ptr == <<m, c>>
    <3>1. /\ s \in 1 .. Len(p.entries) /\ o \in ToSet(p.entries[s].origins)
          /\ t \in 1 .. Len(p.entries) /\ g \in ToSet(p.entries[t].origins)
      BY <1>3, <2>1 DEF KeptOf, RemovedFrom
    <3>2. ptr \in ToSet(o.ptrs) /\ ptr \in ToSet(g.ptrs)
      BY <1>2, <2>1
    <3> HIDE DEF ptr
    <3>3. Traced(p)
      BY <1>1
    <3>4. Twins(o, g)
      BY <3>1, <3>2, <3>3, SharedPart, Zenon
    <3> QED
      BY <3>4 DEF Twins
  <2>3. o # g
    BY <1>2, <2>1 DEF KeptOf
  <2>4. <<m, c>> # NoPtr
    BY <1>1 DEF NoPtr
  <2> QED
    BY <1>4, <2>2, <2>3, <2>4 DEF EditsAt, InputsAt
<1>5. EditsAt(p, v, m, c) = {} /\ InputsAt(p, v, m, c) = {}
  BY <1>4
<1>6. Edited(p, r, v, m)[c] = r[m].parts[c]
  BY <1>5, Untouched
<1>7. r[m].parts[c].gen = 0
  <2> DEFINE ptr == <<m, c>>
  <2>1. t \in 1 .. Len(p.entries) /\ g \in ToSet(p.entries[t].origins) /\ ptr \in ToSet(g.ptrs)
    BY <1>2, <1>3 DEF RemovedFrom
  <2>2. p.entries[t] \in ToSet(p.entries)
    BY <1>1, <2>1, SetOfListed
  <2> HIDE DEF ptr
  <2>3. SamePart(p, r, ptr)
    BY <1>1, <2>1, <2>2 DEF BaselineHolds
  <2>4. r[m].parts[c].gen = p.request[m].parts[c].gen
    BY <2>3 DEF SamePart, PartAt, ptr
  <2>5. m \in 1 .. Len(p.request) /\ c \in 1 .. Len(p.request[m].parts)
    BY DEF MadeFrom, Alike
  <2>6. p.request[m].parts[c].gen = 0
    BY <1>1, <2>5 DEF Traced, Fresh
  <2> QED
    BY <2>4, <2>6
<1> QED
  BY <1>6, <1>7

\* What is removed is not in the patched request.
LEMMA GoneLeft ==
  ASSUME NEW p, NEW r, NEW v, NEW out, MadeFrom(p, r, v, out), NEW w, Assembly(out, p, r, v, w),
         NEW q \in HostParts(out)
  PROVE  q.obj \notin GonePlaces(p, v)
<1>1. /\ Traced(p) /\ Listed(p.entries) /\ Located(p) /\ Alike(p.request, r) /\ Placed(r)
  BY DEF MadeFrom, Sound, Traced, Alike
<1>2. CASE q.obj = NoPtr
  <2> SUFFICES ASSUME NoPtr \in GonePlaces(p, v)
               PROVE  FALSE
    BY <1>2
  <2>1. PICK g \in RemovedOrigins(p, v) : NoPtr \in ToSet(g.ptrs)
    BY DEF GonePlaces
  <2>2. PICK t : RemovedFrom(p, v, g, t)
    BY <1>1, <2>1, RemovedKnown
  <2>3. t \in 1 .. Len(p.entries) /\ g \in ToSet(p.entries[t].origins)
    BY <2>2 DEF RemovedFrom
  <2>4. NoPtr[1] \in ToSet(p.entries[t].out) /\ ToSet(p.entries[t].out) \subseteq 1 .. Len(p.request)
    BY <1>1, <2>1, <2>3 DEF Located
  <2>5. NoPtr[1] = 0
    BY DEF NoPtr
  <2> QED
    BY <2>4, <2>5
<1>3. CASE q.obj # NoPtr
  <2>1. PICK i \in 1 .. Len(out) : \E k \in 1 .. Len(out[i].parts) : q = out[i].parts[k]
    BY <1>1, HostPartAt
  <2>2. PICK k \in 1 .. Len(out[i].parts) : q = out[i].parts[k]
    BY <2>1
  <2> DEFINE m == w[i][1]
  <2>3. FromHost(out, p, r, v, w, i, k, m)
    BY <1>1, <1>3, <2>2, HostPartIs
  <2> HIDE DEF m
  <2>4. m \in 1 .. Len(r)
    BY <2>3 DEF FromHost
  <2>5. PICK c \in 1 .. Len(r[m].parts) : /\ q = Edited(p, r, v, m)[c] /\ Spared(p, r, v, m, c)
                                          /\ q.obj = <<m, c>>
    BY <2>2, <2>3 DEF FromHost
  <2>6. ASSUME <<m, c>> \in GonePlaces(p, v)
        PROVE  FALSE
    <3>1. Edited(p, r, v, m)[c] = r[m].parts[c] /\ r[m].parts[c].gen = 0
      BY <2>4, <2>6, GoneUntouched
    <3>2. q.gen = 0
      BY <2>5, <3>1
    <3> DEFINE ptr == <<m, c>>
    <3>3. ptr[1] = m
      OBVIOUS
    <3>4. ptr \in GonePlaces(p, v) /\ q.obj = ptr
      BY <2>5, <2>6
    <3> HIDE DEF ptr
    <3>5. ptr \in Gone(p, v, m)
      BY <3>3, <3>4 DEF Gone, GonePlaces
    <3> QED
      BY <2>5, <3>2, <3>4, <3>5 DEF Spared
  <2> QED
    BY <2>5, <2>6
<1> QED
  BY <1>2, <1>3

\* The view part of an origin that is kept.
LEMMA KeptViewed ==
  ASSUME NEW p, NEW v, Viewed(p, v), NEW o, NEW s, KeptOf(p, v, o, s), o.key[1] = s
  PROVE  ViewPartOf(v, o.key) \in ViewPartType
<1>1. InView(v, s) /\ o \in OriginsOf(p, RetainedSources(p, v))
  BY OfOrigins DEF KeptOf, RetainedSources
<1>2. KeyIn(v, s, o.key)
  BY <1>1 DEF KeptOf, RemovedOrigins
<1>3. Listed(v) /\ \A k \in 1 .. Len(v) : v[k] \in ViewMessage
  BY DEF Viewed, InSourceOrder, Rises
<1>4. ViewOf(v, s) \in ToSet(v)
  <2>1. PICK k \in 1 .. Len(v) : v[k].id = s
    BY <1>1 DEF InView
  <2>2. v[k] \in ToSet(v)
    BY <1>3, SetOfListed
  <2> QED
    BY <2>1, <2>2 DEF ViewOf
<1>5. ViewOf(v, s) \in ViewMessage
  BY <1>3, <1>4, ElementAt
<1> DEFINE parts == ViewOf(v, s).parts
<1>6. parts \in Seq(ViewPartType)
  BY <1>5 DEF ViewMessage
<1>7. ViewPartOf(v, o.key) \in ToSet(parts)
  <2>1. PICK part \in ToSet(parts) : part.key = o.key
    BY <1>2 DEF KeyIn
  <2> QED
    BY <2>1 DEF ViewPartOf
<1> HIDE DEF parts
<1> QED
  BY <1>6, <1>7 DEF ToSet

Patchable(o) == ~o.opaque /\ (o.kind = "tool" => o.st = "completed")
\* The part an edit of origin o, of source s, goes to.
TargetIs(p, r, o, s, m, c) ==
  /\ EditTarget(o) = <<m, c>> /\ <<m, c>> \in ToSet(o.ptrs)
  /\ m \in 1 .. Len(r) /\ c \in 1 .. Len(r[m].parts) /\ m \in ToSet(p.entries[s].out)
  /\ r[m].parts[c].val = o.val /\ r[m].parts[c].tag = FALSE
  /\ PartAt(p.request, <<m, c>>).type # "tool-call"

LEMMA KeptCorrelated ==
  ASSUME NEW p, Sound(p), p.valid, NEW v, NEW o, NEW s, KeptOf(p, v, o, s)
  PROVE  Correlated(o, p.request)
<1>1. Traced(p)
  BY DEF Sound
<1>2. s \in 1 .. Len(p.entries) /\ o \in ToSet(p.entries[s].origins)
  BY DEF KeptOf
<1>3. \E j \in 1 .. Len(p.entries[s].origins) : o = p.entries[s].origins[j]
  BY <1>1, <1>2, OriginKnown
<1> QED
  BY <1>2, <1>3 DEF Sound

LEMMA TargetKnown ==
  ASSUME NEW p, NEW r, NEW v, NEW out, MadeFrom(p, r, v, out), NEW o, NEW s, KeptOf(p, v, o, s),
         Patchable(o)
  PROVE  \E m, c : TargetIs(p, r, o, s, m, c)
<1>1. /\ Traced(p) /\ Listed(p.entries) /\ Alike(p.request, r) /\ Placed(r) /\ BaselineHolds(p, r)
      /\ Sound(p) /\ p.valid
  BY DEF MadeFrom, Sound, Traced, Alike, Applies, BaselineHolds
<1>2. s \in 1 .. Len(p.entries) /\ o \in ToSet(p.entries[s].origins)
  BY DEF KeptOf
<1>3. OriginFacts(p, o, s)
  BY <1>1, <1>2, OriginKnown
<1>4. Correlated(o, p.request)
  BY <1>1, KeptCorrelated
<1>5. OriginIs(o, p.request, ToSet(p.entries[s].out), s) /\ OriginTraced(o, p.request, ToSet(p.entries[s].out))
  BY <1>3 DEF OriginFacts, Patchable
<1> DEFINE at == EditTarget(o)
<1>6. /\ at \in ToSet(o.ptrs) /\ PartAt(p.request, at).type # "tool-call"
      /\ PartAt(p.request, at).val = o.val
  <2>1. CASE o.kind = "tool"
    BY <1>4, <1>5, <2>1 DEF Correlated, Patchable, OriginIs, EditTarget
  <2>2. CASE o.kind # "tool"
    <3>1. o.ptrs # <<>> /\ Listed(o.ptrs)
      BY <1>4, <1>5 DEF Correlated, Patchable, OriginIs
    <3>2. at = o.ptrs[1]
      BY <2>2, <3>1 DEF EditTarget
    <3>3. at \in ToSet(o.ptrs)
      BY <3>1, <3>2, FirstListed
    <3>4. o.kind \notin {"tool", "attachment"}
      BY <1>5, <2>2 DEF OriginTraced, Patchable
    <3> HIDE DEF at
    <3>5. PartAt(p.request, at).type \in {"text", "reasoning"} /\ PartAt(p.request, at).val = o.val
      BY <1>5, <3>3, <3>4 DEF OriginTraced
    <3> QED
      BY <3>3, <3>5
  <2> QED
    BY <2>1, <2>2
<1> HIDE DEF at
<1>7. PtrIs(at, p.request, ToSet(p.entries[s].out))
  BY <1>5, <1>6 DEF OriginIs
<1> DEFINE m == at[1]
           c == at[2]
<1>8. at = <<m, c>> /\ m \in ToSet(p.entries[s].out) /\ c \in 1 .. Len(p.request[m].parts)
  BY <1>7 DEF PtrIs
<1>9. m \in 1 .. Len(p.request)
  <2>1. ToSet(p.entries[s].out) \subseteq 1 .. Len(p.request)
    BY <1>1, <1>2 DEF Traced, EntryIs
  <2> QED
    BY <1>8, <2>1
<1>10. m \in 1 .. Len(r) /\ c \in 1 .. Len(r[m].parts)
  BY <1>1, <1>8, <1>9 DEF Alike
<1>11. PartAt(r, at) = PartAt(p.request, at)
  <2>1. p.entries[s] \in ToSet(p.entries)
    BY <1>1, <1>2, SetOfListed
  <2> QED
    BY <1>1, <1>2, <1>6, <2>1 DEF BaselineHolds, Patchable
<1>12. r[m].parts[c] = PartAt(r, at)
  BY DEF PartAt
<1>13. r[m].parts[c].tag = FALSE
  BY <1>1, <1>8, <1>9 DEF Alike
<1> HIDE DEF m, c
<1>14. TargetIs(p, r, o, s, m, c)
  <2> DEFINE ptr == <<m, c>>
  <2>1. ptr = at
    BY <1>8
  <2> HIDE DEF ptr
  <2>2. ptr \in ToSet(o.ptrs) /\ PartAt(p.request, ptr).type # "tool-call" /\ EditTarget(o) = ptr
    BY <1>6, <2>1 DEF at
  <2>3. r[m].parts[c].val = o.val
    BY <1>6, <1>11, <1>12
  <2> QED
    BY <1>8, <1>10, <1>13, <2>2, <2>3 DEF TargetIs, ptr
<1> QED
  BY <1>14

\* The part has no edit but the origin's.
LEMMA SoleEdit ==
  ASSUME NEW p, Traced(p), NEW r, NEW v, NEW o, NEW s, KeptOf(p, v, o, s), Patchable(o), NEW m, NEW c,
         TargetIs(p, r, o, s, m, c), NEW g \in EditsAt(p, v, m, c) \cup InputsAt(p, v, m, c), m \in Nat, m # 0
  PROVE  g = o /\ g \notin InputsAt(p, v, m, c)
<1>1. PICK t : KeptOf(p, v, g, t) /\ <<m, c>> \in ToSet(g.ptrs)
  BY TargetsKnown
<1>2. g = o
  <2> DEFINE ptr == <<m, c>>
  <2>1. /\ s \in 1 .. Len(p.entries) /\ o \in ToSet(p.entries[s].origins)
        /\ t \in 1 .. Len(p.entries) /\ g \in ToSet(p.entries[t].origins)
    BY <1>1 DEF KeptOf
  <2>2. ptr \in ToSet(o.ptrs) /\ ptr \in ToSet(g.ptrs)
    BY <1>1 DEF TargetIs
  <2> HIDE DEF ptr
  <2>3. Twins(o, g)
    BY <2>1, <2>2, SharedPart, Zenon
  <2> QED
    BY <2>3 DEF Twins, Patchable
<1>3. g.call # <<m, c>>
  <2> SUFFICES ASSUME g.call = <<m, c>>
               PROVE  FALSE
    OBVIOUS
  <2>1. OriginFacts(p, o, s)
    BY OriginKnown DEF KeptOf
  <2>2. g.call # NoPtr
    BY DEF NoPtr
  <2>3. PartAt(p.request, g.call).type = "tool-call"
    BY <1>2, <2>1, <2>2 DEF OriginFacts, OriginIs
  <2> QED
    BY <2>3 DEF TargetIs
<1> QED
  BY <1>2, <1>3 DEF InputsAt

\* The part an origin's edit goes to has the value the view gives the origin.
LEMMA TargetValue ==
  ASSUME NEW p, NEW r, NEW v, NEW out, MadeFrom(p, r, v, out), NEW o, NEW s, KeptOf(p, v, o, s),
         Patchable(o), NEW m, NEW c, TargetIs(p, r, o, s, m, c)
  PROVE  ValueOf(p, r, v, m, c, o)
<1> DEFINE A == EditsAt(p, v, m, c)
           B == InputsAt(p, v, m, c)
           vp == ViewPartOf(v, o.key)
<1>1. /\ Traced(p) /\ Placed(r) /\ Viewed(p, v) /\ m \in Nat /\ m # 0
      /\ m \in 1 .. Len(r) /\ c \in 1 .. Len(r[m].parts)
  <2>1. Traced(p) /\ Placed(r) /\ Viewed(p, v)
    BY DEF MadeFrom, Sound, Alike
  <2>2. m \in 1 .. Len(r) /\ c \in 1 .. Len(r[m].parts)
    BY DEF TargetIs
  <2> QED
    BY <2>1, <2>2
<1>2. \A g \in A \cup B : g = o /\ g \notin B
  <2> HIDE DEF A, B
  <2>1. ASSUME NEW g \in A \cup B
        PROVE  g = o /\ g \notin B
    BY <1>1, <2>1, SoleEdit DEF A, B
  <2> QED
    BY <2>1
<1>3. B = {}
  <2> HIDE DEF A, B
  <2> QED
    BY <1>2
<1>4. CASE A # {}
  <2>1. PICK g \in A : ValueOf(p, r, v, m, c, g)
    BY <1>1, <1>4, Rewritten
  <2>2. g = o
    BY <1>2, <2>1
  <2> QED
    BY <2>1, <2>2
<1>5. CASE A = {}
  <2>1. Edited(p, r, v, m)[c] = r[m].parts[c]
    BY <1>1, <1>3, <1>5, Untouched
  <2>2. ~Changed(v, o)
    <3>1. o \in KeptOrigins(p, v)
      BY OfOrigins DEF KeptOf, KeptOrigins
    <3>2. EditTarget(o) = <<m, c>> /\ ~o.opaque
      BY DEF TargetIs, Patchable
    <3> QED
      BY <1>5, <3>1, <3>2 DEF EditsAt
  <2>3. vp.tag \in BOOLEAN
    <3>1. OriginFacts(p, o, s)
      BY <1>1, OriginKnown DEF KeptOf
    <3>2. o.key[1] = s
      BY <3>1 DEF OriginFacts, OriginIs
    <3>3. vp \in ViewPartType
      BY <1>1, <3>2, KeptViewed
    <3> HIDE DEF vp
    <3> QED
      BY <3>3 DEF ViewPartType
  <2>4. vp.val = o.val /\ vp.tag = FALSE
    <3>1. ~(vp.val # o.val \/ vp.tag)
      BY <2>2 DEF Changed
    <3> HIDE DEF vp
    <3> QED
      BY <2>3, <3>1
  <2>5. r[m].parts[c].val = o.val /\ r[m].parts[c].tag = FALSE
    BY DEF TargetIs
  <2> HIDE DEF A, B, vp
  <2>6. Edited(p, r, v, m)[c].val = vp.val /\ Edited(p, r, v, m)[c].tag = vp.tag
    BY <2>1, <2>4, <2>5
  <2> QED
    BY <2>6 DEF vp, ValueOf
<1> QED
  BY <1>4, <1>5

Realized(out, p, v, o) ==
  \E q \in HostParts(out) : /\ q.obj = EditTarget(o) /\ q.val = ViewPartOf(v, o.key).val
                            /\ q.tag = ViewPartOf(v, o.key).tag

LEMMA ValueKept ==
  ASSUME NEW p, NEW r, NEW v, NEW out, MadeFrom(p, r, v, out), NEW w, Assembly(out, p, r, v, w),
         NEW o \in KeptOrigins(p, v), Patchable(o)
  PROVE  Realized(out, p, v, o) \/ \E m, c : EditTarget(o) = <<m, c>> /\ DisplacedAt(p, v, m, c)
<1>1. /\ Traced(p) /\ Listed(p.entries) /\ Located(p) /\ Alike(p.request, r) /\ Placed(r)
  BY DEF MadeFrom, Sound, Traced, Alike
<1>2. PICK s : KeptOf(p, v, o, s)
  BY <1>1, KeptKnown
<1>3. PICK m, c : TargetIs(p, r, o, s, m, c)
  BY <1>2, TargetKnown
<1>4. m \in 1 .. Len(r) /\ c \in 1 .. Len(r[m].parts) /\ m \in ToSet(p.entries[s].out)
  BY <1>3 DEF TargetIs
<1>5. m \notin RemovedOut(p, v)
  <2> SUFFICES ASSUME m \in RemovedOut(p, v)
               PROVE  FALSE
    OBVIOUS
  <2>1. PICK t \in RemovedSources(p, v) : m \in ToSet(p.entries[t].out)
    BY DEF RemovedOut
  <2>2. t \in 1 .. Len(p.entries) /\ ~InView(v, t)
    BY <1>1, <2>1, SetOfListed DEF RemovedSources
  <2>3. s \in 1 .. Len(p.entries) /\ InView(v, s)
    BY <1>2 DEF KeptOf, RetainedSources
  <2> QED
    BY <1>1, <1>4, <2>1, <2>2, <2>3 DEF Traced, Apart
<1>6. <<m, c>> \notin GonePlaces(p, v)
  <2> SUFFICES ASSUME <<m, c>> \in GonePlaces(p, v)
               PROVE  FALSE
    OBVIOUS
  <2>1. PICK g \in RemovedOrigins(p, v) : <<m, c>> \in ToSet(g.ptrs)
    BY DEF GonePlaces
  <2>2. PICK t : RemovedFrom(p, v, g, t)
    BY <1>1, <2>1, RemovedKnown
  <2> DEFINE ptr == <<m, c>>
  <2>3. /\ s \in 1 .. Len(p.entries) /\ o \in ToSet(p.entries[s].origins)
        /\ t \in 1 .. Len(p.entries) /\ g \in ToSet(p.entries[t].origins)
    BY <1>2, <2>2 DEF KeptOf, RemovedFrom
  <2>4. ptr \in ToSet(o.ptrs) /\ ptr \in ToSet(g.ptrs)
    BY <1>3, <2>1 DEF TargetIs
  <2> HIDE DEF ptr
  <2>5. Traced(p)
    BY <1>1
  <2>6. Twins(o, g)
    BY <2>3, <2>4, <2>5, SharedPart, Zenon
  <2>7. o = g
    BY <2>6 DEF Twins, Patchable
  <2> QED
    BY <1>2, <2>1, <2>7 DEF KeptOf
<1>7. Spared(p, r, v, m, c) \/ DisplacedAt(p, v, m, c)
  BY <1>1, <1>4, <1>6, SparedOr
<1>8. EditTarget(o) = <<m, c>>
  BY <1>3 DEF TargetIs
<1>9. CASE Spared(p, r, v, m, c)
  <2> DEFINE e == Edited(p, r, v, m)[c]
  <2>1. e \in HostParts(out)
    BY <1>1, <1>4, <1>5, <1>9, PartStays
  <2>2. e.obj = <<m, c>>
    <3>1. EditOf(e, r[m].parts[c], <<m, c>>)
      BY <1>1, <1>4, EditedIs
    <3> QED
      BY <3>1 DEF EditOf
  <2>3. e.val = ViewPartOf(v, o.key).val /\ e.tag = ViewPartOf(v, o.key).tag
    BY <1>2, <1>3, TargetValue DEF ValueOf
  <2> HIDE DEF e
  <2>4. Realized(out, p, v, o)
    BY <1>8, <2>1, <2>2, <2>3 DEF Realized
  <2> QED
    BY <2>4
<1> QED
  BY <1>7, <1>8, <1>9

LEMMA Realizes == ContextIInv => ViewRealized
<1> SUFFICES ASSUME ContextIInv, Patched
             PROVE  ViewRealized
  BY DEF ViewRealized
<1>1. PICK r, w : MadeFrom(projection, r, view, request) /\ Assembly(request, projection, r, view, w)
  BY PatchedIs
<1> DEFINE p == projection
           v == view
           out == request
<1>2. ASSUME NEW o \in KeptOrigins(p, v), Patchable(o)
      PROVE  Displaced(EditTarget(o)) \/ Realized(out, p, v, o)
  <2>1. CASE Realized(out, p, v, o)
    BY <2>1
  <2>2. CASE \E m, c : EditTarget(o) = <<m, c>> /\ DisplacedAt(p, v, m, c)
    <3>1. PICK m, c : EditTarget(o) = <<m, c>> /\ DisplacedAt(p, v, m, c)
      BY <2>2
    <3> DEFINE h == EditTarget(o)
    <3>2. h[1] = m /\ h[2] = c
      BY <3>1
    <3> HIDE DEF h
    <3>3. Displaced(h)
      BY <3>1, <3>2 DEF DisplacedAt, Displaced, GonePlaces, RemovedPlaces, Removed
    <3> QED
      BY <3>3 DEF h
  <2> HIDE DEF p, v, out
  <2>3. MadeFrom(p, r, v, out) /\ Assembly(out, p, r, v, w)
    BY <1>1 DEF p, v, out
  <2> QED
    BY <1>2, <2>1, <2>2, <2>3, ValueKept
<1>3. ASSUME NEW o \in OriginsOf(projection, RetainedSources(projection, view)) \ Removed,
             ~o.opaque /\ (o.kind = "tool" => o.st = "completed")
      PROVE  LET part == ViewPartOf(view, o.key)
                 at == IF o.kind # "tool" THEN o.ptrs[1] ELSE o.result
             IN \/ Displaced(at)
                \/ \E q \in HostParts(request) : q.obj = at /\ q.val = part.val /\ q.tag = part.tag
  <2>1. o \in KeptOrigins(p, v) /\ Patchable(o)
    BY <1>3 DEF KeptOrigins, Removed, Patchable
  <2>2. EditTarget(o) = IF o.kind # "tool" THEN o.ptrs[1] ELSE o.result
    <3>1. PICK s : KeptOf(p, v, o, s)
      <4>1. Listed(p.entries)
        BY <1>1 DEF MadeFrom, Sound, Traced
      <4> QED
        BY <2>1, <4>1, KeptKnown
    <3>2. Correlated(o, p.request)
      <4>1. Sound(p) /\ p.valid
        BY <1>1 DEF MadeFrom, Applies, BaselineHolds
      <4> HIDE DEF p, v
      <4> QED
        BY <3>1, <4>1, KeptCorrelated
    <3>3. o.ptrs # <<>>
      BY <2>1, <3>2 DEF Correlated, Patchable
    <3> QED
      BY <3>3 DEF EditTarget
  <2>3. Displaced(EditTarget(o)) \/ Realized(out, p, v, o)
    BY <1>2, <2>1
  <2> QED
    BY <2>2, <2>3 DEF Realized
<1>4. ASSUME NEW q \in HostParts(request)
      PROVE  q.obj \notin RemovedPlaces
  <2>1. q.obj \notin GonePlaces(p, v)
    BY <1>1, <1>4, GoneLeft
  <2> QED
    BY <2>1 DEF GonePlaces, RemovedPlaces, Removed
<1> QED
  BY <1>3, <1>4 DEF ViewRealized

\* The model sees what the transform decided, in every state: no edit of the view is lost on the
\* way to the request, and nothing it removed comes back (applyV2ContextPatch, v2/projection/patch.ts).
THEOREM ViewIsRealized == ContextSpec => []ViewRealized
BY ContextInvariant, Realizes, PTL

\* A tool's result leaves the request only with its call, and a call only with its result
\* (validateFinalPairs, v2/projection/patch.ts).
THEOREM PairsStayWhole == ContextSpec => []PairsWhole
BY ContextInvariant, KeepsPairs, PTL
=============================================================================
