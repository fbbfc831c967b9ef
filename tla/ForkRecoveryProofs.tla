------------------------- MODULE ForkRecoveryProofs -------------------------
(***************************************************************************)
(* What a session without a file of its own is given when it is opened,    *)
(* for any number of messages and of compress calls: a state translated    *)
(* from that of the parent agrees with it, a replayed one is a state the   *)
(* compress tool could have left, and it hides what the calls had hidden.  *)
(* The parent is a session, so what is proved of sessions is known of the  *)
(* state its file holds; what a fork can replay is what the parent         *)
(* remembers of its calls (Told).                                          *)
(***************************************************************************)
EXTENDS ForkRecovery, CompressionSessionProofs

-----------------------------------------------------------------------------
(* The parent.                                                             *)

LEMMA ForkStep == ForkNext => [Next]_vars
<1> SUFFICES ASSUME ForkNext PROVE [Next]_vars
  OBVIOUS
<1>1. CASE Call
  <2>1. CompressRange
    BY <1>1, Zenon DEF Call, CompressRange
  <2> QED
    BY <2>1 DEF Next
<1>2. CASE Work
  BY <1>2, Zenon DEF Work, Next
<1>3. CASE Talk
  BY <1>3, Zenon DEF Talk, Revert, Next
<1>4. CASE UNCHANGED parent
  BY <1>4, Zenon DEF parent, vars
<1> QED
  BY <1>1, <1>2, <1>3, <1>4 DEF ForkNext

\* The parent of a fork is a session like any other: it takes no step a session
\* does not take, and none because it has a fork.
THEOREM ForkKeepsTheSession == ForkSpec => Spec
<1>1. ForkInit => Init
  BY DEF ForkInit
<1>2. [ForkNext]_<<parent, forked>> => [Next]_vars
  BY ForkStep DEF parent, vars
<1> QED
  BY <1>1, <1>2, PTL DEF ForkSpec, Spec

-----------------------------------------------------------------------------
(* A replayed state.                                                       *)

\* What the replay has made so far, all of it at one time.
Good(ps, at) ==
  /\ Sound(ps) /\ FixedPoint(ps) /\ Replayable(ps)
  /\ \A b \in Ids(ps) : ps.blocks[b].createdAt = at

LEMMA ForkMsgsType ==
  ASSUME copied \subseteq Msg
  PROVE  Cardinality(copied) \in Nat /\ ForkMsgs = 1 .. Cardinality(copied) /\ ForkMsgs \subseteq Msg
<1>1. IsFiniteSet(Msg) /\ Cardinality(Msg) = NumMsgs /\ Cardinality(Msg) \in Nat
  BY NumMsgsAssumption, FS_Interval DEF Msg
<1>2. Cardinality(copied) \in Nat /\ Cardinality(copied) <= NumMsgs
  BY <1>1, FS_Subset, FS_CardinalityType
<1> QED
  BY <1>2, NumMsgsAssumption DEF ForkMsgs, Msg

LEMMA ResolvedType ==
  ASSUME NEW ps, Sound(ps), Replayable(ps), NEW name, NEW isBlock, NEW subagent
  PROVE  Resolved(ps, name, isBlock, subagent) \subseteq ForkMsgs
<1>1. ps.activeIds \subseteq Ids(ps)
  BY TypedFields DEF Sound
<1>2. CASE isBlock
  BY <1>1, <1>2 DEF Resolved, Replayable
<1>3. CASE ~isBlock
  BY <1>3, Zenon DEF Resolved
<1> QED
  BY <1>2, <1>3

\* The plan of a call whose ends are messages of the fork.
LEMMA ReplayPlan ==
  ASSUME copied \subseteq Msg, NEW at \in Times, NEW ps, Good(ps, at), NEW call,
         NEW lo \in ForkMsgs, NEW hi \in ForkMsgs
  PROVE  LET plan == PlanOf(ps, call, lo, hi, at)
         IN /\ plan \in Plan /\ plan.consumed \subseteq ps.activeIds /\ plan.at = at
            /\ plan.anchor \in ForkMsgs
            /\ plan.msgs \subseteq {k \in ForkMsgs : Origin(k) \notin ProtectedTools}
<1> DEFINE plan == PlanOf(ps, call, lo, hi, at)
           msgs == {k \in lo .. hi : Origin(k) \notin ProtectedTools}
           consumed == {b \in ps.activeIds : ps.blocks[b].anchor \in lo .. hi}
           byBlock == call.blockStart \/ call.blockEnd
<1>1. ForkMsgs \subseteq Msg /\ lo .. hi \subseteq ForkMsgs
  BY ForkMsgsType
<1>2. consumed \subseteq ps.activeIds /\ consumed \subseteq Nat
  BY TypedFields DEF Good, Sound
<1>3. msgs \subseteq {k \in ForkMsgs : Origin(k) \notin ProtectedTools} /\ msgs \subseteq Msg
  BY <1>1
<1>4. plan = [anchor |-> lo, msgs |-> msgs, consumed |-> consumed,
              byBlock |-> byBlock, long |-> FALSE, at |-> at]
  BY DEF PlanOf
<1>5. byBlock \in BOOLEAN
  OBVIOUS
<1> HIDE DEF plan, msgs, consumed, byBlock
<1>6. lo \in Msg
  BY <1>1
<1>7. plan \in Plan
  BY <1>2, <1>3, <1>4, <1>5, <1>6 DEF Plan
<1> QED
  BY <1>2, <1>3, <1>4, <1>7 DEF plan

\* A compression over messages of the fork leaves a state that is as good.
LEMMA ApplyGood ==
  ASSUME NEW at \in Times, NEW ps, Good(ps, at),
         NEW plan \in Plan, plan.consumed \subseteq ps.activeIds, plan.at = at,
         plan.anchor \in ForkMsgs,
         plan.msgs \subseteq {k \in ForkMsgs : Origin(k) \notin ProtectedTools}
  PROVE  Good(Apply(ps, plan), at)
<1> DEFINE q == Apply(ps, plan)
           open == {k \in ForkMsgs : Origin(k) \notin ProtectedTools}
<1>1. Sound(ps) /\ FixedPoint(ps) /\ at \in Nat
  BY TimesAssumption DEF Good
<1>2. Sound(q) /\ FixedPoint(q)
  BY <1>1, ApplySound, ApplyFixedPoint DEF Good
<1>3. \A c \in Ids(ps) : /\ ps.blocks[c].anchor \in ForkMsgs
                         /\ ps.blocks[c].effective \subseteq open
                         /\ ps.blocks[c].createdAt = at
                         /\ ps.blocks[c] \in Block
  BY <1>1, BlockFields DEF Good, Replayable, Sound
<1>4. /\ NewBlock(ps, plan).anchor = plan.anchor /\ NewBlock(ps, plan).createdAt = plan.at
      /\ NewBlock(ps, plan).effective = plan.msgs \cup EffectiveOf(ps, Absorbed(ps, plan))
  BY DEF NewBlock, NewBlockOver, Fresh
<1>5. EffectiveOf(ps, Absorbed(ps, plan)) \subseteq open
  BY <1>3 DEF EffectiveOf, Absorbed
<1>6. \A block \in Block :
        /\ Retired(block, ps.next).anchor = block.anchor
        /\ Retired(block, ps.next).effective = block.effective
        /\ Retired(block, ps.next).createdAt = block.createdAt
        /\ Aged(block).anchor = block.anchor
        /\ Aged(block).effective = block.effective
        /\ Aged(block).createdAt = block.createdAt
  BY DEF Retired, Aged, Block
<1>7. /\ Ids(q) = Ids(ps) \cup {ps.next}
      /\ q.blocks[ps.next] = NewBlock(ps, plan)
      /\ \A c \in Ids(ps) :
           q.blocks[c] \in {ps.blocks[c], Retired(ps.blocks[c], ps.next), Aged(ps.blocks[c])}
  BY <1>1, ApplyBlocks
<1> HIDE DEF q, open
<1>8. \A c \in Ids(q) : /\ q.blocks[c].anchor \in ForkMsgs
                        /\ q.blocks[c].effective \subseteq open
                        /\ q.blocks[c].createdAt = at
  <2>1. \A c \in Ids(ps) : /\ q.blocks[c].anchor \in ForkMsgs
                           /\ q.blocks[c].effective \subseteq open
                           /\ q.blocks[c].createdAt = at
    BY <1>3, <1>6, <1>7
  <2>2. /\ q.blocks[ps.next].anchor \in ForkMsgs
        /\ q.blocks[ps.next].effective \subseteq open
        /\ q.blocks[ps.next].createdAt = at
    BY <1>4, <1>5, <1>7 DEF open
  <2> QED
    BY <1>7, <2>1, <2>2
<1> QED
  BY <1>2, <1>8 DEF Good, Replayable, q, open

LEMMA ReplayCallKeeps ==
  ASSUME copied \subseteq Msg, NEW at \in Times, NEW ps, Good(ps, at), NEW call, NEW subagent
  PROVE  Good(ReplayCall(ps, call, subagent, at), at)
<1> DEFINE starts == Resolved(ps, call.start, call.blockStart, subagent)
           stops == Resolved(ps, call.end, call.blockEnd, subagent)
           ends == starts \cup stops
           lo == CHOOSE k \in ends : \A j \in ends : k <= j
           hi == CHOOSE k \in ends : \A j \in ends : j <= k
           plan == PlanOf(ps, call, lo, hi, at)
<1>1. ends \subseteq ForkMsgs
  BY ResolvedType DEF Good
<1>2. ReplayCall(ps, call, subagent, at) =
        IF starts = {} \/ stops = {} THEN ps
        ELSE IF plan.msgs = {} THEN ps ELSE Apply(ps, plan)
  BY DEF ReplayCall
<1> HIDE DEF starts, stops
<1>3. CASE starts = {} \/ stops = {}
  BY <1>2, <1>3
<1>4. CASE ~(starts = {} \/ stops = {})
  <2>1. ends # {} /\ ends \subseteq Nat /\ ends \subseteq 1 .. Cardinality(copied)
        /\ Cardinality(copied) \in Nat
    BY <1>1, <1>4, ForkMsgsType
  <2> HIDE DEF ends
  <2>2. (\E k \in ends : \A j \in ends : k <= j) /\ (\E k \in ends : \A j \in ends : j <= k)
    BY <2>1, NatMin, GreatestId
  <2>3. lo \in ends /\ hi \in ends
    BY <2>2
  <2> HIDE DEF lo, hi
  <2>4. /\ plan \in Plan /\ plan.consumed \subseteq ps.activeIds /\ plan.at = at
        /\ plan.anchor \in ForkMsgs
        /\ plan.msgs \subseteq {k \in ForkMsgs : Origin(k) \notin ProtectedTools}
    BY <1>1, <2>3, ReplayPlan
  <2> HIDE DEF plan
  <2> QED
    BY <1>2, <1>4, <2>4, ApplyGood
<1> QED
  BY <1>3, <1>4

LEMMA EmptyIsGood ==
  ASSUME NEW at
  PROVE  Good(EmptyPrune, at)
<1>1. Ids(EmptyPrune) = {}
  BY DEF EmptyPrune, Ids
<1> QED
  BY <1>1, EmptySound DEF Good, Replayable

\* The states after each message, one from the other, exist: were n the first for
\* which they do not, those before it would be continued by one more call.
LEMMA RebuiltStages ==
  ASSUME NEW called, NEW subagent, NEW at
  PROVE  \E after :
           /\ after = [n \in 0 .. NumMsgs |->
                         IF n = 0 THEN EmptyPrune
                         ELSE IF n \in called
                              THEN ReplayCall(after[n - 1], input[n], subagent, at)
                              ELSE after[n - 1]]
           /\ Rebuilt(called, subagent, at) = after[NumMsgs]
<1> DEFINE Stages(f, n) ==
             f = [i \in 0 .. n |->
                    IF i = 0 THEN EmptyPrune
                    ELSE IF i \in called THEN ReplayCall(f[i - 1], input[i], subagent, at)
                         ELSE f[i - 1]]
           Missing == {n \in 0 .. NumMsgs : ~ \E f : Stages(f, n)}
<1>1. NumMsgs \in Nat
  BY NumMsgsAssumption
<1>2. ASSUME Missing # {}
      PROVE  FALSE
  <2>1. PICK n \in Missing : \A m \in Missing : n <= m
    <3>1. Missing \subseteq Nat
      BY <1>1
    <3> HIDE DEF Missing
    <3> QED
      BY <1>2, <3>1, NatMin
  <2>2. n \in 0 .. NumMsgs /\ ~ \E f : Stages(f, n)
    OBVIOUS
  <2>3. n # 0
    <3> DEFINE f == [i \in 0 .. 0 |-> EmptyPrune]
    <3>1. Stages(f, 0)
      OBVIOUS
    <3> QED
      BY <2>2, <3>1
  <2>4. PICK f : Stages(f, n - 1)
    <3>1. n - 1 \in 0 .. NumMsgs /\ ~(n <= n - 1)
      BY <1>1, <2>2, <2>3
    <3> QED
      BY <2>1, <3>1
  <2> DEFINE g == [i \in 0 .. n |->
                     IF i = n
                     THEN IF n \in called THEN ReplayCall(f[n - 1], input[n], subagent, at)
                          ELSE f[n - 1]
                     ELSE f[i]]
  <2>5. Stages(g, n)
    <3>1. \A i \in 0 .. n : i # 0 => i - 1 \in 0 .. n /\ i - 1 # n
      BY <1>1, <2>2
    <3>2. \A i \in 0 .. n : i # n =>
            f[i] = IF i = 0 THEN EmptyPrune
                   ELSE IF i \in called THEN ReplayCall(f[i - 1], input[i], subagent, at)
                        ELSE f[i - 1]
      <4>1. \A i \in 0 .. n : i # n => i \in 0 .. (n - 1)
        BY <1>1, <2>2
      <4> QED
        BY <2>4, <4>1
    <3>3. \A i \in 0 .. n : i # 0 => g[i - 1] = f[i - 1]
      BY <3>1
    <3>4. \A i \in 0 .. n :
            g[i] = IF i = 0 THEN EmptyPrune
                   ELSE IF i \in called THEN ReplayCall(g[i - 1], input[i], subagent, at)
                        ELSE g[i - 1]
      BY <2>3, <3>2, <3>3
    <3>5. g = [i \in 0 .. n |-> g[i]]
      OBVIOUS
    <3> HIDE DEF g
    <3> QED
      BY <3>4, <3>5
  <2> QED
    BY <2>2, <2>5
<1>3. \E f : Stages(f, NumMsgs)
  <2>1. NumMsgs \in 0 .. NumMsgs
    BY <1>1
  <2> HIDE DEF Stages
  <2> QED
    BY <1>2, <2>1, Zenon
<1> QED
  BY <1>3 DEF Rebuilt

\* So every stage is good: the first that were not would come from a good one.
LEMMA RebuiltGood ==
  ASSUME copied \subseteq Msg, NEW at \in Times, NEW called, NEW subagent
  PROVE  Good(Rebuilt(called, subagent, at), at)
<1>1. PICK after :
        /\ after = [n \in 0 .. NumMsgs |->
                      IF n = 0 THEN EmptyPrune
                      ELSE IF n \in called
                           THEN ReplayCall(after[n - 1], input[n], subagent, at)
                           ELSE after[n - 1]]
        /\ Rebuilt(called, subagent, at) = after[NumMsgs]
  BY RebuiltStages
<1> DEFINE Bad == {n \in 0 .. NumMsgs : ~Good(after[n], at)}
<1>2. NumMsgs \in Nat
  BY NumMsgsAssumption
<1>3. ASSUME Bad # {}
      PROVE  FALSE
  <2>1. PICK n \in Bad : \A m \in Bad : n <= m
    <3>1. Bad \subseteq Nat
      BY <1>2
    <3> HIDE DEF Bad
    <3> QED
      BY <1>3, <3>1, NatMin
  <2>2. n \in 0 .. NumMsgs /\ ~Good(after[n], at)
    OBVIOUS
  <2>3. CASE n = 0
    <3>1. after[0] = EmptyPrune
      BY <1>1, <1>2
    <3> QED
      BY <2>2, <2>3, <3>1, EmptyIsGood
  <2>4. CASE n # 0
    <3>1. n - 1 \in 0 .. NumMsgs /\ ~(n <= n - 1)
      BY <1>2, <2>2, <2>4
    <3>2. Good(after[n - 1], at)
      BY <2>1, <3>1
    <3>3. after[n] = IF n \in called THEN ReplayCall(after[n - 1], input[n], subagent, at)
                     ELSE after[n - 1]
      BY <1>1, <2>2, <2>4
    <3>4. Good(ReplayCall(after[n - 1], input[n], subagent, at), at)
      BY <3>2, ReplayCallKeeps
    <3> QED
      BY <2>2, <3>2, <3>3, <3>4
  <2> QED
    BY <2>3, <2>4
<1>4. NumMsgs \in 0 .. NumMsgs
  BY <1>2
<1>5. Good(after[NumMsgs], at)
  BY <1>3, <1>4, Zenon
<1> QED
  BY <1>1, <1>5, Zenon

-----------------------------------------------------------------------------
(* The inductive invariant.                                                *)

\* What is said of a fork is said of its messages and of the parent's file.
LEMMA SameParent ==
  ASSUME UNCHANGED <<parent, copied>>
  PROVE  /\ Restored' = Restored /\ (Restorable' <=> Restorable)
         /\ ForkMsgs' = ForkMsgs /\ \A k : Origin(k)' = Origin(k)
<1>1. UNCHANGED <<disk, history, refs, made, copied>>
  BY DEF parent
<1>2. ForkMsgs' = ForkMsgs
  BY <1>1 DEF ForkMsgs
<1>3. \A k : Origin(k)' = Origin(k)
  BY <1>1 DEF Origin, Place
<1>4. \A m : Alike(m)' <=> Alike(m)
  BY <1>1, <1>2, <1>3 DEF Alike
<1>5. Translated' = Translated
  BY <1>1, <1>4 DEF Translated, Translatable
<1>6. \A S : Images(S)' = Images(S)
  BY <1>1, <1>4 DEF Images
<1>7. Restored' = Restored
  BY <1>1, <1>4, <1>5, <1>6 DEF Restored
<1>8. Restorable' <=> Restorable
  BY <1>1, <1>5 DEF Restorable
<1> QED
  BY <1>2, <1>3, <1>7, <1>8

\* The parent is at work only while the fork is not open.
LEMMA ParentKeeps ==
  ASSUME ForkIInv, how = "none", UNCHANGED forked, [Next]_vars
  PROVE  ForkIInv'
<1>1. IInv'
  BY NextKeeps DEF ForkIInv
<1>2. copied' = copied /\ how' = "none"
  BY DEF forked
<1> QED
  BY <1>1, <1>2 DEF ForkIInv

LEMMA ForkKeeps ==
  ASSUME ForkIInv, Fork, UNCHANGED parent
  PROVE  ForkIInv'
<1>1. how = "none" /\ how' = "none"
  BY DEF ForkIInv, Fork
<1>2. IInv'
  BY NextKeeps DEF ForkIInv, parent, vars
<1>3. copied' \subseteq Msg
  BY DEF Fork, ForkIInv, IInv, TypeOK
<1> QED
  BY <1>1, <1>2, <1>3 DEF ForkIInv

LEMMA OpenKeeps ==
  ASSUME ForkIInv, Open, UNCHANGED parent
  PROVE  ForkIInv'
<1>1. IInv'
  BY NextKeeps DEF ForkIInv, parent, vars
<1>2. copied # {} /\ copied' = copied /\ copied \subseteq Msg
  BY DEF Open, ForkIInv
<1>3. /\ Restored' = Restored /\ (Restorable' <=> Restorable)
      /\ ForkMsgs' = ForkMsgs /\ \A k : Origin(k)' = Origin(k)
  BY <1>2, SameParent
<1>4. \/ own' = Restored /\ how' = "restored" /\ Restorable
      \/ \E called, subagent : \E at \in Times :
           /\ own' = Rebuilt(called, subagent, at)
           /\ how' \in {"empty", "replayed", "replayed as a subagent"}
  <2>1. PICK child \in BOOLEAN, file \in BOOLEAN, inputs \in BOOLEAN, at \in Times :
          IF child /\ file /\ history # {} /\ Restorable
          THEN own' = Restored /\ how' = "restored"
          ELSE /\ own' = Rebuilt(IF inputs THEN calls ELSE {},
                                 child /\ ~(file /\ history # {}), at)
               /\ how' = IF ~inputs THEN "empty"
                         ELSE IF child /\ ~(file /\ history # {})
                              THEN "replayed as a subagent" ELSE "replayed"
    BY DEF Open
  <2>2. CASE child /\ file /\ history # {} /\ Restorable
    BY <2>1, <2>2
  <2>3. CASE ~(child /\ file /\ history # {} /\ Restorable)
    BY <2>1, <2>3, Zenon
  <2> QED
    BY <2>2, <2>3
<1>5. CASE own' = Restored /\ how' = "restored" /\ Restorable
  BY <1>1, <1>2, <1>3, <1>5 DEF ForkIInv
<1>6. ASSUME NEW called, NEW subagent, NEW at \in Times,
             own' = Rebuilt(called, subagent, at),
             how' \in {"empty", "replayed", "replayed as a subagent"}
      PROVE  ForkIInv'
  <2>1. Good(own', at)
    BY <1>2, <1>6, RebuiltGood
  <2>2. Replayable(own)'
    BY <1>3, <2>1 DEF Good, Replayable
  <2>3. Sound(own)' /\ FixedPoint(own)' /\ how' # "restored"
    BY <1>6, <2>1 DEF Good
  <2> QED
    BY <1>1, <1>2, <2>2, <2>3 DEF ForkIInv
<1> QED
  BY <1>4, <1>5, <1>6

\* The parent stays a session, and a fork keeps the state it was opened with, one
\* that was translated as a whole or replayed call by call.
THEOREM ForkInductive == ForkSpec => []ForkIInv
<1>1. ForkInit => ForkIInv
  BY InitKeeps DEF ForkInit, ForkIInv
<1>2. ForkIInv /\ [ForkNext]_<<parent, forked>> => ForkIInv'
  <2> SUFFICES ASSUME ForkIInv, [ForkNext]_<<parent, forked>> PROVE ForkIInv'
    OBVIOUS
  <2>1. CASE how = "none" /\ (Call \/ Work \/ Talk) /\ UNCHANGED forked
    <3>1. [Next]_vars
      BY <2>1, ForkStep DEF ForkNext
    <3> QED
      BY <2>1, <3>1, ParentKeeps
  <2>2. CASE Fork /\ UNCHANGED parent
    BY <2>2, ForkKeeps
  <2>3. CASE Open /\ UNCHANGED parent
    BY <2>3, OpenKeeps
  <2>4. CASE UNCHANGED <<parent, forked>>
    <3>1. UNCHANGED <<prune, disk, history, arrived, copied, own, how>>
      BY <2>4 DEF parent, forked
    <3>2. IInv'
      BY <3>1, NextKeeps DEF ForkIInv, vars
    <3>3. /\ Restored' = Restored /\ (Restorable' <=> Restorable)
          /\ ForkMsgs' = ForkMsgs /\ \A k : Origin(k)' = Origin(k)
      BY <2>4, <3>1, SameParent
    <3>4. Replayable(own) => Replayable(own)'
      BY <3>1, <3>3 DEF Replayable
    <3> QED
      BY <3>1, <3>2, <3>3, <3>4 DEF ForkIInv
  <2> QED
    BY <2>1, <2>2, <2>3, <2>4 DEF ForkNext
<1> QED
  BY <1>1, <1>2, PTL DEF ForkSpec

\* A replayed state is sound, at the fixed point of the replay of its blocks, and
\* hides no protected output, whatever calls the history holds and however their
\* ends are resolved (lib/state/rebuild.ts, rebuildCompressionState).
THEOREM ReplayIsSound == ForkSpec => []ReplayedIsSound
<1>1. ForkIInv => ReplayedIsSound
  BY DEF ForkIInv, ReplayedIsSound, Replayable, Covered, EffectiveOf
<1> QED
  BY <1>1, ForkInductive, PTL

-----------------------------------------------------------------------------
(* A state translated from that of the parent.                             *)

\* With the mapping complete for every active block, the translated state has the
\* same active blocks, sound indexes, and hides a message for each the parent
\* hides and no other (lib/state/state.ts, restoreForkCompressionState).
THEOREM RestoringAgrees == ForkSpec => []RestoredAsParent
<1>1. ForkIInv => RestoredAsParent
  <2> SUFFICES ASSUME ForkIInv, how = "restored" PROVE RestoredAsParent
    BY DEF RestoredAsParent
  <2>1. own = Restored /\ Restorable /\ Sound(disk)
    BY DEF ForkIInv, IInv
  <2> DEFINE images(b) == Images(disk.blocks[b].effective)
  <2>2. /\ disk.activeIds = {b \in Ids(disk) : disk.blocks[b].active}
        /\ disk.activeIds \subseteq Translated /\ Translated \subseteq Ids(disk)
        /\ \A m \in Msg : disk.all[m] = {b \in Ids(disk) : m \in disk.blocks[b].effective}
        /\ \A b \in Ids(disk) : disk.blocks[b] \in Block /\ disk.blocks[b].effective \subseteq Msg
    BY <2>1, BlockFields DEF Restorable, Translated, Sound, Indexed
  <2>3. /\ Ids(own) = Translated /\ own.activeIds = disk.activeIds
        /\ \A b \in Translated : /\ own.blocks[b].effective = images(b)
                                 /\ own.blocks[b].active = disk.blocks[b].active
    <3>1. /\ own.blocks = [b \in Translated |->
                             [disk.blocks[b] EXCEPT !.anchor = refs[@], !.effective = Images(@)]]
          /\ own.activeIds = disk.activeIds \cap Translated
      BY <2>1 DEF Restored
    <3>2. ASSUME NEW b \in Translated
          PROVE  /\ own.blocks[b].effective = images(b)
                 /\ own.blocks[b].active = disk.blocks[b].active
      <4>1. /\ disk.blocks[b] \in Block
            /\ own.blocks[b] = [disk.blocks[b] EXCEPT !.anchor = refs[@], !.effective = Images(@)]
        BY <2>2, <3>1
      <4> QED
        BY <4>1 DEF Block
    <3>3. Ids(own) = Translated /\ own.activeIds = disk.activeIds
      BY <2>2, <3>1 DEF Ids
    <3> QED
      BY <3>2, <3>3
  <2>4. \A k \in Msg :
          /\ own.all[k] = {b \in Translated : k \in images(b)}
          /\ own.act[k] = own.all[k] \cap own.activeIds
    <3>1. ASSUME NEW k \in Msg
          PROVE  /\ own.all[k] = UNION {disk.all[m] \cap Translated :
                                          m \in {j \in Msg : Alike(j) /\ refs[j] = k}}
                 /\ own.act[k] = own.all[k] \cap own.activeIds
      BY <2>1 DEF Restored
    <3>2. ASSUME NEW k \in Msg
          PROVE  own.all[k] = {b \in Translated : k \in images(b)}
      BY <2>2, <3>1 DEF Images
    <3> QED
      BY <3>1, <3>2
  <2>5. Indexed(own)
    BY <2>2, <2>3, <2>4 DEF Indexed
  <2>6. ASSUME NEW k \in ForkMsgs
        PROVE  k \in Covered(own) <=>
                 \E m \in Covered(disk) : refs[m] = k /\ Content[m] = Content[Origin(k)]
    <3>1. k \in Covered(own) <=> \E b \in disk.activeIds : k \in images(b)
      BY <2>2, <2>3 DEF Covered, EffectiveOf
    <3>2. \A b \in disk.activeIds : \A m \in disk.blocks[b].effective : Alike(m)
      BY <2>2 DEF Translated, Translatable
    <3>3. \A m : m \in Covered(disk) <=> \E b \in disk.activeIds : m \in disk.blocks[b].effective
      BY <2>2 DEF Covered, EffectiveOf
    <3>4. \A b \in disk.activeIds :
            k \in images(b) <=> \E m \in disk.blocks[b].effective :
                                  refs[m] = k /\ Content[m] = Content[Origin(k)]
      BY <3>2 DEF Images, Alike
    <3> HIDE DEF images
    <3> QED
      BY <3>1, <3>3, <3>4
  <2> QED
    BY <2>3, <2>5, <2>6 DEF RestoredAsParent
<1> QED
  BY <1>1, ForkInductive, PTL

-----------------------------------------------------------------------------
(* What the parent remembers of its calls.                                 *)

\* The messages of H in the range of a call, and those of them it may hide.
Within(i, H) == {m \in H : i.lo <= m /\ m <= i.hi}
Direct(i, H) == Within(i, H) \ ProtectedTools

Listed(i, H) == i.lo \in H /\ i.hi \in H /\ Direct(i, H) # {}

Older(b) == 1 .. (b - 1)

\* The blocks no block older than b has consumed: those active when b was made,
\* if nothing has been decompressed.
Free(ps, b) == {x \in Older(b) : \A y \in Older(b) : x \notin ps.blocks[y].consumed}

\* What of the plan of a block its tier and the blocks it absorbed depend on.
Drawn(mk, i, b) ==
  [consumed |-> mk[b].included, byBlock |-> i.blockStart \/ i.blockEnd]

\* The block b was made by the call i.
MadeBy(ps, mk, i, b) ==
  /\ ps.blocks[b].anchor = i.lo
  /\ ps.blocks[b].effective \subseteq
       Direct(i, Msg) \cup EffectiveOf(ps, ps.blocks[b].consumed)
  /\ mk[b].included \subseteq Older(b)
  /\ ps.blocks[b].consumed = Absorbed(ps, Drawn(mk, i, b))
  /\ ps.blocks[b].tier = OutputTier(ps, Drawn(mk, i, b))

\* It took in the free blocks anchored in its range, and the blocks it names were
\* free and anchored at its ends.
Gathers(ps, mk, i, b, H) ==
  /\ mk[b].included = {x \in Free(ps, b) : ps.blocks[x].anchor \in Within(i, H)}
  /\ i.blockStart => i.start \in Free(ps, b) /\ ps.blocks[i.start].anchor = i.lo
  /\ i.blockEnd => i.end \in Free(ps, b) /\ ps.blocks[i.end].anchor = i.hi

\* The blocks of ps are blocks of q.
Extends(ps, q) ==
  /\ Ids(ps) \subseteq Ids(q)
  /\ \A c \in Ids(ps) :
       /\ q.blocks[c].tier = ps.blocks[c].tier
       /\ q.blocks[c].anchor = ps.blocks[c].anchor
       /\ q.blocks[c].consumed = ps.blocks[c].consumed
       /\ q.blocks[c].effective = ps.blocks[c].effective

LEMMA OlderIds ==
  ASSUME NEW ps, Typed(ps), NEW b \in Ids(ps)
  PROVE  /\ b \in Nat /\ 1 <= b /\ b < ps.next /\ ps.next \in Nat
         /\ Older(b) \subseteq Ids(ps) /\ b \notin Older(b)
         /\ Older(ps.next) = Ids(ps)
BY TypedFields DEF Older

LEMMA SameLowest ==
  ASSUME NEW ps, NEW q, NEW S, \A c \in S : q.blocks[c].tier = ps.blocks[c].tier
  PROVE  LowestTier(q, S) = LowestTier(ps, S)
BY Zenon DEF LowestTier

LEMMA SameTiers ==
  ASSUME NEW ps, NEW q, NEW P, NEW Q, Q.consumed = P.consumed, Q.byBlock <=> P.byBlock,
         P.consumed \subseteq Ids(ps), P.consumed \subseteq Ids(q),
         \A c \in P.consumed : q.blocks[c].tier = ps.blocks[c].tier
  PROVE  Absorbed(q, Q) = Absorbed(ps, P) /\ OutputTier(q, Q) = OutputTier(ps, P)
<1>1. LowestTier(q, P.consumed) = LowestTier(ps, P.consumed)
  BY SameLowest
<1>2. TargetTier(q, Q) = TargetTier(ps, P) /\ OutputTier(q, Q) = OutputTier(ps, P)
  BY <1>1, Zenon DEF TargetTier, OutputTier
<1>3. Absorbed(q, Q) = Absorbed(ps, P)
  BY <1>2 DEF Absorbed
<1> QED
  BY <1>2, <1>3

LEMMA SameDraw ==
  ASSUME NEW ps, NEW q, Extends(ps, q), NEW P, NEW Q, P.consumed \subseteq Ids(ps),
         Q.consumed = P.consumed, Q.byBlock <=> P.byBlock
  PROVE  Absorbed(q, Q) = Absorbed(ps, P) /\ OutputTier(q, Q) = OutputTier(ps, P)
<1>1. /\ \A c \in P.consumed : q.blocks[c].tier = ps.blocks[c].tier
      /\ P.consumed \subseteq Ids(q)
  BY DEF Extends
<1> QED
  BY <1>1, SameTiers

LEMMA SameEffective ==
  ASSUME NEW ps, NEW q, Extends(ps, q), NEW S, S \subseteq Ids(ps)
  PROVE  EffectiveOf(q, S) = EffectiveOf(ps, S)
BY DEF EffectiveOf, Extends

LEMMA SameFree ==
  ASSUME NEW ps, NEW q, Extends(ps, q), NEW b, Older(b) \subseteq Ids(ps)
  PROVE  Free(q, b) = Free(ps, b)
BY DEF Free, Extends

LEMMA MadeByStays ==
  ASSUME NEW ps, NEW q, Sound(ps), Extends(ps, q), NEW b \in Ids(ps),
         NEW mk, NEW mk2, mk2[b] = mk[b], NEW i, MadeBy(ps, mk, i, b)
  PROVE  MadeBy(q, mk2, i, b)
<1>1. Older(b) \subseteq Ids(ps)
  BY OlderIds DEF Sound
<1>2. ps.blocks[b].consumed \subseteq Ids(ps)
  BY DEF Sound, Lineage
<1>3. /\ q.blocks[b].tier = ps.blocks[b].tier
      /\ q.blocks[b].anchor = ps.blocks[b].anchor
      /\ q.blocks[b].consumed = ps.blocks[b].consumed
      /\ q.blocks[b].effective = ps.blocks[b].effective
  BY DEF Extends
<1>4. EffectiveOf(q, q.blocks[b].consumed) = EffectiveOf(ps, ps.blocks[b].consumed)
  BY <1>2, <1>3, SameEffective
<1>5. Drawn(mk2, i, b) = Drawn(mk, i, b) /\ Drawn(mk, i, b).consumed = mk[b].included
  BY DEF Drawn
<1>6. mk[b].included \subseteq Ids(ps)
  BY <1>1 DEF MadeBy
<1>7. /\ Absorbed(q, Drawn(mk2, i, b)) = Absorbed(ps, Drawn(mk, i, b))
      /\ OutputTier(q, Drawn(mk2, i, b)) = OutputTier(ps, Drawn(mk, i, b))
  BY <1>5, <1>6, SameDraw
<1> QED
  BY <1>3, <1>4, <1>7 DEF MadeBy

LEMMA GathersStays ==
  ASSUME NEW ps, NEW q, Sound(ps), Extends(ps, q), NEW b \in Ids(ps),
         NEW mk, NEW mk2, mk2[b] = mk[b], NEW i, NEW H, NEW K,
         Within(i, H) = Within(i, K), Gathers(ps, mk, i, b, H)
  PROVE  Gathers(q, mk2, i, b, K)
<1>1. Older(b) \subseteq Ids(ps)
  BY OlderIds DEF Sound
<1>2. Free(q, b) = Free(ps, b) /\ Free(ps, b) \subseteq Ids(ps)
  BY <1>1, SameFree DEF Free
<1>3. \A x \in Ids(ps) : q.blocks[x].anchor = ps.blocks[x].anchor
  BY DEF Extends
<1> QED
  BY <1>2, <1>3 DEF Gathers

-----------------------------------------------------------------------------
(* What the operations on blocks keep of it.                               *)

LEMMA ApplyExtends ==
  ASSUME NEW ps, Sound(ps), NEW plan \in Plan, plan.consumed \subseteq ps.activeIds
  PROVE  Extends(ps, Apply(ps, plan))
<1> DEFINE q == Apply(ps, plan)
<1>1. \A block \in Block :
        /\ Retired(block, ps.next).tier = block.tier
        /\ Retired(block, ps.next).anchor = block.anchor
        /\ Retired(block, ps.next).consumed = block.consumed
        /\ Retired(block, ps.next).effective = block.effective
        /\ Aged(block).tier = block.tier
        /\ Aged(block).anchor = block.anchor
        /\ Aged(block).consumed = block.consumed
        /\ Aged(block).effective = block.effective
  BY DEF Retired, Aged, Block
<1>2. \A c \in Ids(ps) : ps.blocks[c] \in Block
  BY BlockFields DEF Sound
<1>3. /\ Ids(q) = Ids(ps) \cup {ps.next}
      /\ \A c \in Ids(ps) :
           q.blocks[c] \in {ps.blocks[c], Retired(ps.blocks[c], ps.next), Aged(ps.blocks[c])}
  BY ApplyBlocks
<1> HIDE DEF q
<1>4. Extends(ps, q)
  BY <1>1, <1>2, <1>3 DEF Extends
<1> QED
  BY <1>4 DEF q

LEMMA MergeExtends ==
  ASSUME NEW ps, Sound(ps), NEW S, NEW at
  PROVE  Extends(ps, Merge(ps, S, at))
<1> DEFINE q == Merge(ps, S, at)
<1>1. \A block \in Block :
        /\ Retired(block, ps.next).tier = block.tier
        /\ Retired(block, ps.next).anchor = block.anchor
        /\ Retired(block, ps.next).consumed = block.consumed
        /\ Retired(block, ps.next).effective = block.effective
  BY DEF Retired, Block
<1>2. \A c \in Ids(ps) : ps.blocks[c] \in Block /\ c # ps.next
  BY BlockFields, TypedFields DEF Sound
<1>3. /\ Ids(q) = Ids(ps) \cup {ps.next}
      /\ \A c \in Ids(ps) : q.blocks[c] \in {ps.blocks[c], Retired(ps.blocks[c], ps.next)}
  BY <1>2 DEF Merge, Ids
<1> HIDE DEF q
<1>4. Extends(ps, q)
  BY <1>1, <1>2, <1>3 DEF Extends
<1> QED
  BY <1>4 DEF q

LEMMA SyncExtends ==
  ASSUME NEW ps, Typed(ps)
  PROVE  Extends(ps, Sync(ps))
<1>1. CASE Sync(ps).blocks = ps.blocks
  BY <1>1 DEF Extends, Ids
<1>2. CASE Sync(ps) = FullSync(ps)
  <2>1. /\ DOMAIN ps = {"blocks", "activeIds", "all", "act", "next", "verified", "synced"}
        /\ Sync(ps).blocks = [b \in Ids(ps) |-> [ps.blocks[b] EXCEPT !.active = b \in Live(ps)]]
    BY <1>2 DEF FullSync, Replayed, Typed, PruneState
  <2>2. \A b \in Ids(ps) : ps.blocks[b] \in Block
    BY BlockFields
  <2>3. \A b \in Ids(ps) :
          /\ Sync(ps).blocks[b].tier = ps.blocks[b].tier
          /\ Sync(ps).blocks[b].anchor = ps.blocks[b].anchor
          /\ Sync(ps).blocks[b].consumed = ps.blocks[b].consumed
          /\ Sync(ps).blocks[b].effective = ps.blocks[b].effective
    BY <2>1, <2>2 DEF Block
  <2>4. Ids(Sync(ps)) = Ids(ps)
    BY <2>1 DEF Ids
  <2> QED
    BY <2>3, <2>4 DEF Extends
<1>3. EmptySync(ps).blocks = ps.blocks
  BY DEF EmptySync, Typed, PruneState
<1> QED
  BY <1>1, <1>2, <1>3 DEF Sync

\* At its fixed point the replay leaves the active blocks as they are.
LEMMA SyncActive ==
  ASSUME NEW ps, Typed(ps), FixedPoint(ps)
  PROVE  Sync(ps).activeIds = ps.activeIds
<1>1. CASE Ids(ps) = {}
  <2>1. ps.activeIds = {}
    BY <1>1, TypedFields
  <2>2. EmptySync(ps).activeIds \in {{}, ps.activeIds}
    BY DEF EmptySync, Typed, PruneState
  <2> QED
    BY <1>1, <2>1, <2>2 DEF Sync
<1>2. CASE Ids(ps) # {} /\ ~ps.synced
  BY <1>2, FullSyncBlocks DEF Sync, FixedPoint
<1> QED
  BY <1>1, <1>2 DEF Sync

LEMMA DeactivateExtends ==
  ASSUME NEW ps, Sound(ps), NEW targets, targets \subseteq Ids(ps), targets # {},
         NEW full \in BOOLEAN
  PROVE  /\ Extends(ps, Deactivate(ps, targets, full))
         /\ Ids(Deactivate(ps, targets, full)) = Ids(ps)
         /\ OffIds(Deactivate(ps, targets, full)) # {}
<1> DEFINE q == Deactivate(ps, targets, full)
           deep == IF full THEN UNION {ConsumedBelow(ps, b) : b \in targets} ELSE {}
<1>1. ps.blocks \in [Ids(ps) -> Block] /\ ps \in PruneState(ps.next)
  BY TypedFields DEF Sound, Typed
<1>2. q.blocks = [b \in Ids(ps) |->
                    [ps.blocks[b] EXCEPT !.active = @ /\ b \notin targets,
                                         !.byUser = @ \/ b \in targets,
                                         !.byUserDeep = @ \/ b \in deep]]
  BY <1>1 DEF Deactivate, PruneState
<1> HIDE DEF deep, q
<1>3. \A b \in Ids(ps) :
        /\ q.blocks[b].tier = ps.blocks[b].tier
        /\ q.blocks[b].anchor = ps.blocks[b].anchor
        /\ q.blocks[b].consumed = ps.blocks[b].consumed
        /\ q.blocks[b].effective = ps.blocks[b].effective
        /\ q.blocks[b].byUser = (ps.blocks[b].byUser \/ b \in targets)
  <2> SUFFICES ASSUME NEW b \in Ids(ps)
               PROVE  /\ q.blocks[b].tier = ps.blocks[b].tier
                      /\ q.blocks[b].anchor = ps.blocks[b].anchor
                      /\ q.blocks[b].consumed = ps.blocks[b].consumed
                      /\ q.blocks[b].effective = ps.blocks[b].effective
                      /\ q.blocks[b].byUser = (ps.blocks[b].byUser \/ b \in targets)
    OBVIOUS
  <2>1. ps.blocks[b] \in Block
    BY <1>1
  <2>2. q.blocks[b] = [ps.blocks[b] EXCEPT !.active = @ /\ b \notin targets,
                                           !.byUser = @ \/ b \in targets,
                                           !.byUserDeep = @ \/ b \in deep]
    BY <1>2
  <2> QED
    BY <2>1, <2>2 DEF Block
<1>4. Ids(q) = Ids(ps)
  BY <1>2 DEF Ids
<1>5. OffIds(q) # {}
  BY <1>3, <1>4 DEF OffIds, Off
<1> QED
  BY <1>3, <1>4, <1>5 DEF Extends, q

\* A block that consumes free blocks leaves the free ones active.
LEMMA AddsFree ==
  ASSUME NEW ps, NEW q, NEW gone, Sound(ps), Adds(ps, q, gone), gone \subseteq ps.activeIds,
         ps.activeIds = Free(ps, ps.next)
  PROVE  q.activeIds = Free(q, q.next)
<1>1. /\ ps.next \in Nat \ {0} /\ q.next = ps.next + 1
      /\ Ids(ps) = Older(ps.next) /\ Older(q.next) = Ids(ps) \cup {ps.next}
      /\ ps.next \notin Ids(ps) /\ ps.activeIds \subseteq Ids(ps)
  BY TypedFields DEF Sound, Adds, Older
<1>2. \A x \in Ids(ps) : q.blocks[x].consumed = ps.blocks[x].consumed
  BY DEF Adds
<1>3. q.blocks[ps.next].consumed = gone /\ q.activeIds = (ps.activeIds \ gone) \cup {ps.next}
  BY DEF Adds
<1>4. \A x \in Ids(ps) : ps.blocks[x].consumed \subseteq Ids(ps)
  BY DEF Sound, Lineage
<1> QED
  BY <1>1, <1>2, <1>3, <1>4 DEF Free

\* The block of a call whose plan covers messages of the range.
LEMMA NewMadeBy ==
  ASSUME NEW ps, Sound(ps), NEW plan \in Plan, plan.consumed \subseteq ps.activeIds,
         NEW i, plan.anchor = i.lo, plan.msgs \subseteq Direct(i, Msg),
         plan.byBlock <=> (i.blockStart \/ i.blockEnd),
         NEW mk, mk[ps.next].included = plan.consumed
  PROVE  MadeBy(Apply(ps, plan), mk, i, ps.next)
<1> DEFINE q == Apply(ps, plan)
           b == ps.next
<1>1. Extends(ps, q) /\ q.blocks[b] = NewBlock(ps, plan)
  BY ApplyExtends, ApplyBlocks
<1>2. /\ NewBlock(ps, plan).anchor = plan.anchor
      /\ NewBlock(ps, plan).tier = OutputTier(ps, plan)
      /\ NewBlock(ps, plan).consumed = Absorbed(ps, plan)
      /\ NewBlock(ps, plan).effective = plan.msgs \cup EffectiveOf(ps, Absorbed(ps, plan))
  BY DEF NewBlock, NewBlockOver, Fresh
<1>3. plan.consumed \subseteq Ids(ps) /\ Ids(ps) = Older(b)
  BY TypedFields, OlderIds DEF Sound, Older
<1>4. Absorbed(ps, plan) \subseteq Ids(ps)
  BY DEF Absorbed
<1> HIDE DEF q, b
<1>5. EffectiveOf(q, Absorbed(ps, plan)) = EffectiveOf(ps, Absorbed(ps, plan))
  BY <1>1, <1>4, SameEffective
<1>6. /\ Drawn(mk, i, b).consumed = plan.consumed
      /\ Drawn(mk, i, b).byBlock <=> plan.byBlock
  BY DEF Drawn, b
<1>7. /\ Absorbed(q, Drawn(mk, i, b)) = Absorbed(ps, plan)
      /\ OutputTier(q, Drawn(mk, i, b)) = OutputTier(ps, plan)
  BY <1>1, <1>3, <1>6, SameDraw
<1>8. MadeBy(q, mk, i, b)
  BY <1>1, <1>2, <1>3, <1>5, <1>7 DEF MadeBy, b
<1> QED
  BY <1>8 DEF q, b

LEMMA NewGathers ==
  ASSUME NEW ps, Sound(ps), NEW plan \in Plan, plan.consumed \subseteq ps.activeIds,
         ps.activeIds = Free(ps, ps.next), NEW i, NEW H,
         plan.consumed = {x \in ps.activeIds : ps.blocks[x].anchor \in Within(i, H)},
         i.blockStart => i.start \in ps.activeIds /\ ps.blocks[i.start].anchor = i.lo,
         i.blockEnd => i.end \in ps.activeIds /\ ps.blocks[i.end].anchor = i.hi,
         NEW mk, mk[ps.next].included = plan.consumed
  PROVE  Gathers(Apply(ps, plan), mk, i, ps.next, H)
<1> DEFINE q == Apply(ps, plan)
<1>1. Extends(ps, q)
  BY ApplyExtends
<1>2. Older(ps.next) = Ids(ps) /\ ps.activeIds \subseteq Ids(ps)
  BY TypedFields DEF Sound, Older
<1>3. Free(q, ps.next) = ps.activeIds
  BY <1>1, <1>2, SameFree
<1>4. \A x \in ps.activeIds : q.blocks[x].anchor = ps.blocks[x].anchor
  BY <1>1, <1>2 DEF Extends
<1> HIDE DEF q
<1>5. Gathers(q, mk, i, ps.next, H)
  BY <1>3, <1>4 DEF Gathers
<1> QED
  BY <1>5 DEF q

-----------------------------------------------------------------------------
(* References.                                                             *)

\* No reference is used twice or above the place of its message, and messages
\* without one are the newest.
RefsGrow ==
  /\ refs \in [Msg -> Nat]
  /\ history \subseteq 1 .. arrived
  /\ \A m \in Msg : refs[m] <= m /\ (refs[m] # 0 => m <= arrived)
  /\ \A k, m \in Msg : (k < m /\ refs[k] # 0 /\ refs[m] # 0) => refs[k] < refs[m]
  /\ \A m \in history, k \in Msg : (refs[m] = 0 /\ refs[k] # 0) => k < m

LEMMA MsgSets ==
  ASSUME NEW S, S \subseteq Msg
  PROVE  IsFiniteSet(S) /\ Cardinality(S) \in Nat
<1>1. IsFiniteSet(Msg)
  BY NumMsgsAssumption, FS_Interval DEF Msg
<1> QED
  BY <1>1, FS_Subset, FS_CardinalityType

\* How many members of a set of messages are not above one.
UpTo(S, m) == Cardinality({k \in S : k <= m})

LEMMA UpToGrows ==
  ASSUME NEW S, S \subseteq Msg, NEW m \in S, NEW k \in Msg, k < m
  PROVE  UpTo(S, k) < UpTo(S, m)
<1> DEFINE A == {j \in S : j <= k}
           B == {j \in S : j <= m}
<1>1. A \subseteq Msg /\ B \subseteq Msg /\ m \in Nat /\ k \in Nat
  <2>1. A \subseteq Msg /\ B \subseteq Msg /\ m \in Msg
    OBVIOUS
  <2> QED
    BY <2>1, NumMsgsAssumption DEF Msg
<1>2. A \subseteq B /\ m \in B /\ m \notin A
  <2>1. \A j \in S : j \in Int
    BY NumMsgsAssumption DEF Msg
  <2>2. \A j \in S : j <= k => j <= m
    BY <1>1, <2>1
  <2>3. m \in S /\ m <= m /\ ~(m <= k)
    BY <1>1
  <2> QED
    BY <2>2, <2>3
<1>3. IsFiniteSet(B) /\ Cardinality(A) \in Nat /\ Cardinality(B) \in Nat
  BY <1>1, MsgSets
<1> HIDE DEF A, B
<1>4. Cardinality(A) <= Cardinality(B) /\ (Cardinality(A) = Cardinality(B) => A = B)
  <2>1. A \in SUBSET B
    BY <1>2
  <2> QED
    BY <1>3, <2>1, FS_Subset, Zenon
<1>5. Cardinality(A) < Cardinality(B)
  BY <1>2, <1>3, <1>4
<1> QED
  BY <1>5 DEF UpTo, A, B

LEMMA UpToBound ==
  ASSUME NEW S, S \subseteq Msg, NEW m \in S, NEW low \in Nat, \A k \in S : low < k
  PROVE  UpTo(S, m) \in Nat /\ UpTo(S, m) # 0 /\ low + UpTo(S, m) <= m
<1> DEFINE A == {j \in S : j <= m}
<1>1. m \in Nat /\ \A j \in S : j \in Nat
  <2>1. \A j \in Msg : j \in Nat
    BY NumMsgsAssumption DEF Msg
  <2> QED
    BY <2>1
<1>2. A \in SUBSET ((low + 1) .. m) /\ m \in A /\ A \subseteq Msg
  <2>1. \A j \in A : j \in (low + 1) .. m
    BY <1>1
  <2>2. m \in A
    BY <1>1
  <2>3. A \subseteq Msg
    OBVIOUS
  <2> HIDE DEF A
  <2> QED
    BY <2>1, <2>2, <2>3
<1> HIDE DEF A
<1>3. /\ IsFiniteSet((low + 1) .. m)
      /\ Cardinality((low + 1) .. m) = IF low + 1 > m THEN 0 ELSE m - (low + 1) + 1
  BY <1>1, FS_Interval
<1>4. Cardinality(A) <= Cardinality((low + 1) .. m)
  BY <1>2, <1>3, FS_Subset
<1>5. IsFiniteSet(A) /\ Cardinality(A) \in Nat
  BY <1>2, MsgSets
<1>6. Cardinality(A) # 0
  BY <1>2, <1>5, FS_EmptySet
<1>7. low < m
  OBVIOUS
<1>8. low + Cardinality(A) <= m
  BY <1>1, <1>3, <1>4, <1>5, <1>7
<1> QED
  BY <1>5, <1>6, <1>8 DEF UpTo, A

\* Messages keep their references, all those of the history have one, and later
\* messages later ones (lib/message-ids.ts, assignMessageRefs).
LEMMA AssignedRefs ==
  ASSUME RefsGrow, history \subseteq Msg
  PROVE  /\ Assigned \in [Msg -> Nat]
         /\ \A m \in Msg : refs[m] # 0 => Assigned[m] = refs[m]
         /\ \A m \in history : Assigned[m] # 0
         /\ \A m \in Msg : Assigned[m] # 0 => refs[m] # 0 \/ m \in history
         /\ \A m \in Msg : Assigned[m] <= m
         /\ \A k, m \in Msg : (k < m /\ Assigned[k] # 0 /\ Assigned[m] # 0)
                              => Assigned[k] < Assigned[m]
<1> DEFINE Last(r) == /\ \A m \in Msg : refs[m] <= r
                      /\ r = 0 \/ \E m \in Msg : refs[m] = r
           last == CHOOSE r \in 0 .. NumMsgs : Last(r)
           bare == {m \in history : refs[m] = 0}
<1>1. Assigned = [m \in Msg |-> IF m \in bare THEN last + UpTo(bare, m) ELSE refs[m]]
  BY DEF Assigned, UpTo
<1>2. \A m \in Msg : m \in Nat /\ m <= NumMsgs /\ refs[m] \in Nat /\ refs[m] <= m
  BY NumMsgsAssumption DEF RefsGrow, Msg
<1>3. \E r \in 0 .. NumMsgs : Last(r)
  <2>1. CASE \A m \in Msg : refs[m] = 0
    <3>1. Last(0)
      BY <2>1
    <3> QED
      BY <3>1, NumMsgsAssumption
  <2>2. CASE ~ \A m \in Msg : refs[m] = 0
    <3> DEFINE R == {r \in 1 .. NumMsgs : \E m \in Msg : refs[m] = r}
    <3>1. \A m \in Msg : refs[m] = 0 \/ refs[m] \in R
      BY <1>2, NumMsgsAssumption
    <3>2. R \subseteq 1 .. NumMsgs /\ R # {}
      BY <2>2, <3>1
    <3>3. PICK r \in R : \A s \in R : s <= r
      <4> HIDE DEF R
      <4> QED
        BY <3>2, NumMsgsAssumption, GreatestId
    <3>4. r \in 0 .. NumMsgs /\ \E m \in Msg : refs[m] = r
      BY NumMsgsAssumption
    <3>5. \A m \in Msg : refs[m] <= r
      <4>1. r \in Nat
        BY NumMsgsAssumption
      <4> HIDE DEF R
      <4> QED
        BY <1>2, <3>1, <3>3, <4>1
    <3> QED
      BY <3>4, <3>5, Zenon
  <2> QED
    BY <2>1, <2>2
<1>4. last \in 0 .. NumMsgs /\ Last(last)
  BY <1>3
<1> HIDE DEF last
<1>5. bare \subseteq Msg /\ \A m \in bare, k \in Msg : refs[k] # 0 => k < m
  BY DEF RefsGrow
<1>6. PICK low \in Nat : (\A k \in bare : low < k) /\ last <= low
  <2>1. CASE last = 0
    <3>1. \A k \in bare : 0 < k
      BY <1>5 DEF Msg
    <3> QED
      BY <2>1, <3>1
  <2>2. CASE last # 0
    <3>1. PICK m \in Msg : refs[m] = last
      BY <1>4, <2>2
    <3>2. m \in Nat /\ last <= m /\ \A k \in bare : m < k
      BY <1>2, <1>5, <2>2, <3>1
    <3> QED
      BY <3>2
  <2> QED
    BY <2>1, <2>2
<1> HIDE DEF bare
<1>7. \A m \in bare : /\ UpTo(bare, m) \in Nat /\ UpTo(bare, m) # 0
                      /\ low + UpTo(bare, m) <= m
  BY <1>5, <1>6, UpToBound
<1>8. last \in Nat
  BY <1>4, NumMsgsAssumption
<1>9. \A m \in Msg : /\ m \in bare => Assigned[m] = last + UpTo(bare, m)
                     /\ m \notin bare => Assigned[m] = refs[m]
  BY <1>1
<1>10. \A m \in Msg : Assigned[m] \in Nat /\ Assigned[m] <= m
  BY <1>2, <1>5, <1>6, <1>7, <1>8, <1>9
<1>11. Assigned \in [Msg -> Nat]
  BY <1>1, <1>10
<1>12. \A m \in Msg : m \in bare <=> m \in history /\ refs[m] = 0
  BY DEF bare
<1>13. ASSUME NEW k \in Msg, NEW m \in Msg, k < m, Assigned[k] # 0, Assigned[m] # 0
       PROVE  Assigned[k] < Assigned[m]
  <2>1. CASE k \notin bare /\ m \notin bare
    BY <1>9, <1>13, <2>1 DEF RefsGrow
  <2>2. CASE k \notin bare /\ m \in bare
    <3>1. refs[k] <= last
      BY <1>4
    <3> QED
      BY <1>2, <1>7, <1>8, <1>9, <2>2, <3>1
  <2>3. CASE k \in bare /\ m \notin bare
    <3>1. m < k
      BY <1>5, <1>9, <1>13, <2>3
    <3> QED
      BY <1>2, <1>13, <3>1
  <2>4. CASE k \in bare /\ m \in bare
    <3>1. UpTo(bare, k) < UpTo(bare, m)
      BY <1>5, <1>13, <2>4, UpToGrows
    <3> QED
      BY <1>7, <1>8, <1>9, <2>4, <3>1
  <2> QED
    BY <2>1, <2>2, <2>3, <2>4
<1>14. \A m \in history : Assigned[m] # 0
  BY <1>7, <1>8, <1>9, <1>12
<1> QED
  BY <1>9, <1>10, <1>11, <1>12, <1>13, <1>14

-----------------------------------------------------------------------------
(* The parent remembers its calls.                                         *)

\* A call: its ends are messages up to it, named by their references or by
\* blocks; it made a block, and while it is listed what it compressed is.
CallTold(c) ==
  LET i == input[c]
  IN /\ i.lo \in Msg /\ i.hi \in Msg /\ i.lo <= i.hi /\ i.hi <= c /\ c <= arrived
     /\ refs[i.lo] # 0 /\ refs[i.hi] # 0 /\ refs[c] # 0
     /\ i.blockStart \/ i.start = refs[i.lo]
     /\ i.blockEnd \/ i.end = refs[i.hi]
     /\ \E b \in Ids(prune) : made[b].call = c
     /\ c \in history => Listed(i, history)

\* The block of a call: older ones are of earlier calls.
BlockTold(b) ==
  LET c == made[b].call
  IN /\ c \in CallAt /\ input[c] # NoInput
     /\ \A x \in Older(b) : made[x].call < c
     /\ MadeBy(prune, made, input[c], b)

\* Nothing has been decompressed, and the clock is steady: the active blocks are
\* those nothing has consumed, and each block took in all such of its time.
Gathered ==
  /\ prune.activeIds = Free(prune, prune.next)
  /\ \A b \in Ids(prune) :
       made[b].call \in history =>
         Gathers(prune, made, input[made[b].call], b, history)

Told ==
  /\ RefsGrow
  /\ disk.blocks = prune.blocks
  /\ made \in Seq([call : CallAt \cup {0}, included : SUBSET Nat])
  /\ Len(made) = prune.next - 1
  /\ input = [c \in CallAt |-> input[c]]
  /\ \A c \in CallAt : input[c] # NoInput => CallTold(c)
  /\ \A b \in Ids(prune) : made[b].call # 0 => BlockTold(b)
  /\ ~ClockMayStepBack /\ OffIds(prune) = {} => Gathered

LEMMA ToldIds ==
  ASSUME IInv, Told
  PROVE  /\ DOMAIN made = Ids(prune) /\ Ids(prune) = 1 .. (prune.next - 1)
         /\ prune.next \in Nat \ {0} /\ Ids(prune) = Older(prune.next)
         /\ \A b \in Ids(prune) : /\ made[b].call \in CallAt \cup {0}
                                  /\ made[b].included \subseteq Nat
                                  /\ made[b] \in [call : CallAt \cup {0}, included : SUBSET Nat]
         /\ CallAt \subseteq Msg /\ 0 \notin Msg /\ history \subseteq Msg
<1>1. Ids(prune) = 1 .. (prune.next - 1) /\ prune.next \in Nat \ {0}
  BY TypedFields DEF IInv, TypeOK
<1>2. made \in Seq([call : CallAt \cup {0}, included : SUBSET Nat]) /\ Len(made) = prune.next - 1
  BY DEF Told
<1>3. DOMAIN made = Ids(prune)
      /\ \A b \in Ids(prune) : made[b] \in [call : CallAt \cup {0}, included : SUBSET Nat]
  <2> DEFINE S == [call : CallAt \cup {0}, included : SUBSET Nat]
  <2> HIDE DEF S
  <2>1. made \in Seq(S)
    BY <1>2 DEF S
  <2>2. DOMAIN made = 1 .. Len(made) /\ \A b \in 1 .. Len(made) : made[b] \in S
    BY <2>1
  <2> QED
    BY <1>1, <1>2, <2>2 DEF S
<1>4. CallAt \subseteq Msg /\ 0 \notin Msg /\ history \subseteq Msg
  BY ForkAssumption, SessionAssumption DEF Msg, IInv, TypeOK
<1>5. \A b \in Ids(prune) : made[b].call \in CallAt \cup {0} /\ made[b].included \subseteq Nat
  BY <1>3
<1> QED
  BY <1>1, <1>3, <1>4, <1>5 DEF Older

LEMMA SameWithin ==
  ASSUME NEW i, NEW H, NEW K, NEW c \in Nat, i.hi \in Nat, i.hi <= c,
         H \subseteq Nat, K \subseteq Nat, \A m \in Nat : m <= c => (m \in H <=> m \in K)
  PROVE  Within(i, H) = Within(i, K) /\ Direct(i, H) = Direct(i, K)
<1>1. ASSUME NEW m \in Nat, m <= i.hi
      PROVE  m \in H <=> m \in K
  BY <1>1
<1>2. Within(i, H) = Within(i, K)
  BY <1>1 DEF Within
<1> QED
  BY <1>2 DEF Direct

\* A step of the parent that forgets no call, no block, no reference, of the
\* messages up to a listed call none, and no decompress; a new block is newer than
\* the others, and that of a new call or of a merge.
Remembers ==
  /\ Extends(prune, prune')
  /\ \A b \in Ids(prune) : made'[b] = made[b]
  /\ \A c \in CallAt : input[c] # NoInput => input'[c] = input[c]
  /\ \A m \in Msg : refs[m] # 0 => refs'[m] = refs[m]
  /\ arrived \in Nat /\ arrived' \in Nat /\ arrived <= arrived' /\ history' \subseteq Msg
  /\ \A c \in history' : c <= arrived =>
       \A m \in Nat : m <= c => (m \in history' <=> m \in history)
  /\ OffIds(prune') = {} => OffIds(prune) = {}
  /\ \A b \in Ids(prune') \ Ids(prune) :
       /\ \A x \in Ids(prune) : x < b
       /\ made'[b].call = 0 \/ (made'[b].call \in CallAt /\ input[made'[b].call] = NoInput)

LEMMA NewerIds ==
  ASSUME NEW ps, NEW q, Typed(ps), Typed(q)
  PROVE  \A b \in Ids(q) \ Ids(ps), x \in Ids(ps) : x < b
BY TypedFields

LEMMA MsgNat == Msg \subseteq Nat /\ \A m \in Msg : m \in Nat /\ 1 <= m
BY NumMsgsAssumption DEF Msg

LEMMA CallStays ==
  ASSUME IInv, Told, Remembers, NEW c \in CallAt, input[c] # NoInput
  PROVE  CallTold(c)' /\ input'[c] # NoInput
<1> DEFINE i == input[c]
<1>1. CallTold(c) /\ input'[c] = i /\ c \in Msg
  BY ToldIds DEF Told, Remembers
<1>2. /\ i.lo \in Msg /\ i.hi \in Msg /\ i.lo <= i.hi /\ i.hi <= c /\ c <= arrived
      /\ refs[i.lo] # 0 /\ refs[i.hi] # 0 /\ refs[c] # 0
      /\ i.blockStart \/ i.start = refs[i.lo]
      /\ i.blockEnd \/ i.end = refs[i.hi]
  BY <1>1 DEF CallTold
<1>3. PICK b \in Ids(prune) : made[b].call = c
  BY <1>1 DEF CallTold
<1>4. refs'[i.lo] = refs[i.lo] /\ refs'[i.hi] = refs[i.hi] /\ refs'[c] = refs[c]
  BY <1>1, <1>2 DEF Remembers
<1>5. b \in Ids(prune') /\ made'[b].call = c
  BY <1>3 DEF Remembers, Extends
<1>6. c <= arrived'
  BY <1>1, <1>2, MsgNat DEF Remembers
<1>7. ASSUME c \in history'
      PROVE  Listed(i, history')
  <2>1. /\ c \in Nat /\ i.hi \in Nat /\ i.lo \in Nat /\ i.lo <= c
        /\ history \subseteq Nat /\ history' \subseteq Nat
    BY <1>1, <1>2, MsgNat, ToldIds DEF Remembers
  <2>2. \A m \in Nat : m <= c => (m \in history' <=> m \in history)
    BY <1>2, <1>7 DEF Remembers
  <2>3. Listed(i, history)
    BY <1>1, <1>7, <2>1, <2>2 DEF CallTold
  <2>4. Direct(i, history') = Direct(i, history)
    BY <1>2, <2>1, <2>2, SameWithin
  <2> QED
    BY <1>2, <2>1, <2>2, <2>3, <2>4 DEF Listed
<1> HIDE DEF i
<1>8. CallTold(c)'
  BY <1>1, <1>2, <1>4, <1>5, <1>6, <1>7 DEF CallTold
<1> QED
  BY <1>1, <1>8 DEF i

LEMMA BlockStays ==
  ASSUME IInv, Told, Remembers, NEW b \in Ids(prune), made[b].call # 0
  PROVE  BlockTold(b)'
<1> DEFINE c == made[b].call
<1>1. /\ c \in CallAt /\ input[c] # NoInput
      /\ \A x \in Older(b) : made[x].call < c
      /\ MadeBy(prune, made, input[c], b)
  BY DEF Told, BlockTold
<1>2. /\ made'[b] = made[b] /\ input'[c] = input[c]
      /\ \A x \in Older(b) : made'[x] = made[x]
  BY <1>1, OlderIds DEF Remembers, IInv, TypeOK
<1>3. MadeBy(prune', made', input[c], b)
  BY <1>1, <1>2, MadeByStays DEF Remembers, IInv
<1> QED
  BY <1>1, <1>2, <1>3 DEF BlockTold

LEMMA GathersStaysToo ==
  ASSUME IInv, Told, Remembers, NEW b \in Ids(prune), made[b].call \in history',
         made[b].call \in history =>
           Gathers(prune, made, input[made[b].call], b, history)
  PROVE  Gathers(prune', made', input'[made'[b].call], b, history')
<1> DEFINE c == made[b].call
           i == input[c]
<1>1. c \in CallAt /\ c \in Msg /\ c # 0
  BY ToldIds DEF Remembers
<1>2. BlockTold(b)
  BY <1>1 DEF Told
<1>3. input[c] # NoInput /\ CallTold(c) /\ input'[c] = i /\ made'[b] = made[b]
  BY <1>1, <1>2 DEF BlockTold, Told, Remembers
<1>4. i.hi \in Msg /\ i.hi <= c /\ c <= arrived
  BY <1>3 DEF CallTold
<1>5. /\ c \in Nat /\ i.hi \in Nat /\ history \subseteq Nat /\ history' \subseteq Nat
      /\ \A m \in Nat : m <= c => (m \in history' <=> m \in history)
  BY <1>1, <1>4, MsgNat, ToldIds DEF Remembers
<1>6. c \in history
  BY <1>5
<1>7. Within(i, history) = Within(i, history')
  BY <1>4, <1>5, SameWithin
<1>8. Gathers(prune', made', i, b, history')
  BY <1>3, <1>6, <1>7, GathersStays DEF Remembers, IInv
<1> QED
  BY <1>3, <1>8

LEMMA RefsKept ==
  ASSUME RefsGrow, history \subseteq Msg, refs' = Assigned, UNCHANGED <<history, arrived>>
  PROVE  /\ RefsGrow'
         /\ \A m \in Msg : refs[m] # 0 => refs'[m] = refs[m]
         /\ \A m \in history : refs'[m] # 0
<1>1. /\ refs' \in [Msg -> Nat]
      /\ \A m \in Msg : refs[m] # 0 => refs'[m] = refs[m]
      /\ \A m \in history : refs'[m] # 0
      /\ \A m \in Msg : refs'[m] # 0 => refs[m] # 0 \/ m \in history
      /\ \A m \in Msg : refs'[m] <= m
      /\ \A k, m \in Msg : (k < m /\ refs'[k] # 0 /\ refs'[m] # 0) => refs'[k] < refs'[m]
  BY AssignedRefs
<1>2. history \subseteq 1 .. arrived /\ \A m \in Msg : refs[m] # 0 => m <= arrived
  BY DEF RefsGrow
<1>3. \A m \in Msg : refs'[m] # 0 => m <= arrived
  BY <1>1, <1>2
<1> QED
  BY <1>1, <1>2, <1>3 DEF RefsGrow

LEMMA AppendMade ==
  ASSUME IInv, Told, NEW r \in [call : CallAt \cup {0}, included : SUBSET Nat],
         made' = Append(made, r)
  PROVE  /\ made' \in Seq([call : CallAt \cup {0}, included : SUBSET Nat])
         /\ Len(made') = prune.next /\ made'[prune.next] = r
         /\ \A b \in Ids(prune) : made'[b] = made[b]
<1> DEFINE S == [call : CallAt \cup {0}, included : SUBSET Nat]
<1>1. made \in Seq(S) /\ Len(made) = prune.next - 1 /\ r \in S
  BY DEF Told
<1>2. Ids(prune) = 1 .. (prune.next - 1) /\ prune.next \in Nat \ {0}
  BY ToldIds
<1> HIDE DEF S
<1>3. /\ made' \in Seq(S) /\ Len(made') = Len(made) + 1 /\ made'[Len(made) + 1] = r
      /\ \A b \in 1 .. Len(made) : made'[b] = made[b]
  BY <1>1
<1>4. Len(made) + 1 = prune.next
  BY <1>1, <1>2
<1> QED
  BY <1>1, <1>2, <1>3, <1>4 DEF S

LEMMA SavedBlocks ==
  ASSUME NEW ps, Typed(ps)
  PROVE  Saved(ps).blocks = ps.blocks
BY DEF Typed, PruneState, Saved

LEMMA ExtendsOn ==
  ASSUME NEW ps, NEW q, NEW r, Extends(ps, q), Extends(q, r)
  PROVE  Extends(ps, r)
<1>1. \A c \in Ids(ps) : c \in Ids(q)
  BY DEF Extends
<1> QED
  BY <1>1 DEF Extends

LEMMA SyncedMerge ==
  ASSUME NEW ps, Sound(ps), NEW S, S \subseteq ps.activeIds, S # {}, NEW at \in Times
  PROVE  LET q == Merge(ps, S, at)
         IN /\ Extends(ps, q) /\ q.next = ps.next + 1
            /\ OffIds(q) = {} => OffIds(ps) = {}
            /\ q.blocks[ps.next].consumed = S
            /\ ps.activeIds = Free(ps, ps.next) => q.activeIds = Free(q, q.next)
<1> DEFINE q == Merge(ps, S, at)
<1>1. Extends(ps, q) /\ Adds(ps, q, S)
  BY MergeExtends, MergeAdds
<1> HIDE DEF q
<1>2. ps.activeIds = Free(ps, ps.next) => q.activeIds = Free(q, q.next)
  BY <1>1, AddsFree
<1>3. OffIds(q) = {} => OffIds(ps) = {}
  BY <1>1 DEF Adds, OffIds, Off
<1> QED
  BY <1>1, <1>2, <1>3 DEF Adds, q

\* What a decompress or a request leaves of the blocks.
LEMMA WorkKeeps ==
  ASSUME IInv, Work
  PROVE  /\ Extends(prune, prune')
         /\ \/ prune'.next = prune.next /\ made' = made
            \/ /\ prune'.next = prune.next + 1
               /\ \E S \in SUBSET Nat : made' = Append(made, [call |-> 0, included |-> S])
         /\ OffIds(prune') = {} => OffIds(prune) = {}
         /\ (FixedPoint(prune) /\ OffIds(prune') = {} /\ prune.activeIds = Free(prune, prune.next))
            => prune'.activeIds = Free(prune', prune'.next)
         /\ UNCHANGED <<input, history, arrived>>
<1>1. Sound(prune) /\ Typed(prune) /\ prune.next \in Nat /\ prune.activeIds \subseteq Nat
  BY TypedFields DEF IInv, TypeOK
<1>2. /\ made' = IF prune'.next = prune.next THEN made
                 ELSE Append(made, [call |-> 0, included |-> prune'.blocks[prune.next].consumed])
      /\ input' = input
  BY DEF Work
<1>3. CASE Decompress
  <2>1. PICK full \in BOOLEAN :
          \/ \E b \in Ids(prune) : DecompressBlock(b, full)
          \/ \E lo, hi \in history : DecompressRange(lo, hi, full)
    BY <1>3 DEF Decompress
  <2>2. PICK targets : targets \subseteq Ids(prune) /\ targets # {}
                       /\ DecompressTargets(targets, full)
    <3>1. ASSUME NEW b \in Ids(prune), DecompressBlock(b, full)
          PROVE  {b} \subseteq Ids(prune) /\ {b} # {} /\ DecompressTargets({b}, full)
      BY <3>1 DEF DecompressBlock
    <3>2. ASSUME NEW lo, NEW hi, DecompressRange(lo, hi, full)
          PROVE  \E targets : targets \subseteq Ids(prune) /\ targets # {}
                            /\ DecompressTargets(targets, full)
      BY <3>2 DEF DecompressRange
    <3> QED
      BY <2>1, <3>1, <3>2
  <2> DEFINE q == Deactivate(prune, targets, full)
  <2>3. /\ Extends(prune, q) /\ Ids(q) = Ids(prune) /\ OffIds(q) # {} /\ Typed(q)
    BY <1>1, <2>2, DeactivateExtends, DeactivateSyncable DEF Syncable
  <2>4. q.next = prune.next
    BY <1>1 DEF Deactivate, Typed, PruneState
  <2>5. prune' = Sync(q) /\ UNCHANGED <<history, arrived>>
    BY <2>2 DEF DecompressTargets
  <2> HIDE DEF q
  <2>6. /\ Extends(q, Sync(q)) /\ Sync(q).next = q.next /\ Ids(Sync(q)) = Ids(q)
        /\ \A b \in Ids(q) : Off(Sync(q), b) <=> Off(q, b)
    BY <2>3, SyncExtends, SyncKeeps
  <2>7. OffIds(prune') # {}
    BY <2>3, <2>5, <2>6 DEF OffIds
  <2>8. Extends(prune, prune')
    BY <2>3, <2>5, <2>6, ExtendsOn
  <2> QED
    BY <1>2, <2>4, <2>5, <2>6, <2>7, <2>8
<1>4. CASE Transform
  <2> DEFINE synced == Sync(prune)
             S == Mergeable(synced)
  <2>1. PICK at \in Times :
          /\ \/ prune' = synced
             \/ Cardinality(S) >= 2 /\ prune' = Merge(synced, S, at)
          /\ UNCHANGED <<history, arrived>>
    BY <1>4 DEF Transform
  <2>2. Sound(synced) /\ Extends(prune, synced) /\ synced.next = prune.next
        /\ Ids(synced) = Ids(prune) /\ \A b \in Ids(prune) : Off(synced, b) <=> Off(prune, b)
    BY <1>1, SoundSyncable, SyncSound, SyncExtends, SyncKeeps
  <2>3. FixedPoint(prune) => synced.activeIds = prune.activeIds
    BY <1>1, SyncActive
  <2>4. Cardinality(S) >= 2 => S # {}
    <3>1. Cardinality({}) = 0
      BY FS_EmptySet
    <3> QED
      BY <3>1
  <2>5. S \subseteq synced.activeIds /\ synced.activeIds \subseteq Nat
    BY <2>2, MergeableActive, TypedFields DEF Sound
  <2> HIDE DEF synced, S
  <2>6. OffIds(synced) = OffIds(prune)
    BY <2>2 DEF OffIds
  <2>7. Free(synced, synced.next) = Free(prune, prune.next)
    BY <1>1, <2>2, OlderIds, SameFree, TypedFields DEF Older
  <2>8. CASE prune' = synced
    BY <1>2, <2>1, <2>2, <2>3, <2>6, <2>7, <2>8
  <2>9. CASE Cardinality(S) >= 2 /\ prune' = Merge(synced, S, at)
    <3>1. /\ Extends(synced, prune') /\ prune'.next = synced.next + 1
          /\ OffIds(prune') = {} => OffIds(synced) = {}
          /\ prune'.blocks[synced.next].consumed = S
          /\ synced.activeIds = Free(synced, synced.next)
             => prune'.activeIds = Free(prune', prune'.next)
      BY <2>2, <2>4, <2>5, <2>9, SyncedMerge
    <3>2. Extends(prune, prune')
      BY <2>2, <3>1, ExtendsOn
    <3>3. prune'.next = prune.next + 1 /\ prune'.next # prune.next
      BY <1>1, <2>2, <3>1
    <3>4. S \in SUBSET Nat /\ made' = Append(made, [call |-> 0, included |-> S])
      BY <1>2, <2>2, <2>5, <3>1, <3>3
    <3> QED
      BY <1>2, <2>1, <2>3, <2>6, <2>7, <3>1, <3>2, <3>3, <3>4
  <2> QED
    BY <2>1, <2>8, <2>9
<1> QED
  BY <1>3, <1>4 DEF Work

LEMMA WorkTold ==
  ASSUME IInv, Told, Work
  PROVE  Told' /\ Remembers
<1>1. /\ Sound(prune) /\ Typed(prune) /\ prune.next \in Nat \ {0} /\ history \subseteq Msg
      /\ arrived \in Nat
      /\ ~ClockMayStepBack => FixedPoint(prune)
  BY TypedFields, NumMsgsAssumption DEF IInv, TypeOK
<1>2. IInv'
  BY NextKeeps, Zenon DEF Work, Next
<1>3. Typed(prune')
  BY <1>2 DEF IInv, TypeOK
<1>4. /\ Extends(prune, prune')
      /\ \/ prune'.next = prune.next /\ made' = made
         \/ /\ prune'.next = prune.next + 1
            /\ \E S \in SUBSET Nat : made' = Append(made, [call |-> 0, included |-> S])
      /\ OffIds(prune') = {} => OffIds(prune) = {}
      /\ (FixedPoint(prune) /\ OffIds(prune') = {} /\ prune.activeIds = Free(prune, prune.next))
         => prune'.activeIds = Free(prune', prune'.next)
      /\ UNCHANGED <<input, history, arrived>>
  BY WorkKeeps
<1>5. /\ RefsGrow' /\ \A m \in Msg : refs[m] # 0 => refs'[m] = refs[m]
  BY <1>1, <1>4, RefsKept DEF Work, Told
<1>6. disk'.blocks = prune'.blocks
  BY <1>3, SavedBlocks DEF Work
<1>7. /\ made' \in Seq([call : CallAt \cup {0}, included : SUBSET Nat])
      /\ Len(made') = prune'.next - 1
      /\ \A b \in Ids(prune) : made'[b] = made[b]
      /\ \A b \in Ids(prune') : b \in Ids(prune) \/ made'[b].call = 0
  <2>1. CASE prune'.next = prune.next /\ made' = made
    <3>1. Ids(prune') = Ids(prune)
      BY <1>1, <1>3, <2>1, TypedFields
    <3> QED
      BY <2>1, <3>1 DEF Told
  <2>2. ASSUME prune'.next = prune.next + 1, NEW S \in SUBSET Nat,
               made' = Append(made, [call |-> 0, included |-> S])
        PROVE  <1>7!1 /\ <1>7!2 /\ <1>7!3 /\ <1>7!4
    <3> DEFINE r == [call |-> 0, included |-> S]
    <3>1. r \in [call : CallAt \cup {0}, included : SUBSET Nat] /\ r.call = 0
      BY <2>2
    <3> HIDE DEF r
    <3>2. made' = Append(made, r)
      BY <2>2 DEF r
    <3>3. /\ made' \in Seq([call : CallAt \cup {0}, included : SUBSET Nat])
          /\ Len(made') = prune.next /\ made'[prune.next] = r
          /\ \A b \in Ids(prune) : made'[b] = made[b]
      BY <3>1, <3>2, AppendMade
    <3>4. Ids(prune') = Ids(prune) \cup {prune.next}
      BY <1>1, <1>3, <2>2, TypedFields
    <3>5. prune'.next - 1 = prune.next
      BY <1>1, <2>2
    <3> QED
      BY <3>1, <3>3, <3>4, <3>5
  <2> QED
    BY <1>4, <2>1, <2>2
<1>8. Remembers
  <2>1. \A b \in Ids(prune') \ Ids(prune), x \in Ids(prune) : x < b
    BY <1>1, <1>3, NewerIds
  <2> QED
    BY <1>1, <1>4, <1>5, <1>7, <2>1 DEF Remembers
<1>9. \A c \in CallAt : input'[c] # NoInput => CallTold(c)'
  BY <1>4, <1>8, CallStays
<1>10. ASSUME NEW b \in Ids(prune'), made'[b].call # 0
       PROVE  b \in Ids(prune) /\ BlockTold(b)'
  BY <1>7, <1>8, <1>10, BlockStays
<1>11. ASSUME ~ClockMayStepBack, OffIds(prune') = {}
       PROVE  Gathered'
  <2>1. Gathered
    BY <1>4, <1>11 DEF Told
  <2>2. prune'.activeIds = Free(prune', prune'.next)
    BY <1>1, <1>4, <1>11, <2>1 DEF Gathered
  <2>3. ASSUME NEW b \in Ids(prune'), made'[b].call \in history'
        PROVE  Gathers(prune', made', input'[made'[b].call], b, history')
    <3>1. made'[b].call # 0
      BY <1>1, <1>4, <2>3, ToldIds
    <3>2. b \in Ids(prune) /\ made'[b] = made[b]
      BY <1>7, <3>1
    <3> QED
      BY <1>8, <2>1, <2>3, <3>2, GathersStaysToo DEF Gathered
  <2> QED
    BY <2>2, <2>3 DEF Gathered
<1>12. input' = [c \in CallAt |-> input'[c]]
  BY <1>4 DEF Told
<1> QED
  BY <1>5, <1>6, <1>7, <1>8, <1>9, <1>10, <1>11, <1>12 DEF Told

LEMMA TalkTold ==
  ASSUME IInv, Told, Talk
  PROVE  Told' /\ Remembers
<1>1. /\ Sound(prune) /\ Typed(prune) /\ history \subseteq Msg /\ arrived \in 0 .. NumMsgs
      /\ \A m \in Msg : m \in Nat
  BY MsgNat DEF IInv, TypeOK
<1>2. /\ UNCHANGED <<prune, disk, refs, made, input>>
      /\ arrived' \in Nat /\ arrived <= arrived' /\ history' \subseteq Msg
      /\ history' \subseteq 1 .. arrived'
      /\ \A m \in history' : m \in history \/ (m = arrived + 1)
      /\ \A c \in history' : c <= arrived =>
           \A m \in Nat : m <= c => (m \in history' <=> m \in history)
  <2>1. history \subseteq 1 .. arrived
    BY DEF Told, RefsGrow
  <2>2. CASE AddMessage
    <3>1. /\ arrived < NumMsgs /\ arrived' = arrived + 1 /\ history' = history \cup {arrived + 1}
          /\ UNCHANGED <<prune, disk, refs, made, input>>
      BY <2>2 DEF AddMessage, Talk
    <3>2. arrived \in Nat /\ arrived + 1 \in Msg
      BY <1>1, <3>1, NumMsgsAssumption DEF Msg
    <3>3. \A c \in history' : c <= arrived =>
            \A m \in Nat : m <= c => (m \in history' <=> m \in history)
      <4>1. \A c \in history', m \in Nat : c <= arrived /\ m <= c => m # arrived + 1
        BY <1>1, <3>1, <3>2
      <4> QED
        BY <3>1, <4>1
    <3>4. history' \subseteq 1 .. arrived' /\ history' \subseteq Msg /\ arrived <= arrived'
      BY <1>1, <2>1, <3>1, <3>2
    <3> QED
      BY <3>1, <3>2, <3>3, <3>4
  <2>3. CASE Revert
    <3>1. PICK k \in history : /\ history' = history \ {k}
                               /\ UNCHANGED <<prune, disk, arrived>>
      BY <2>3 DEF Revert, RemoveMessage
    <3>2. (CHOOSE j \in history : j \notin history') = k
      BY <3>1
    <3>3. \A m \in history' : m < k
      BY <2>3, <3>2 DEF Revert
    <3>4. \A c \in history', m \in Nat : m <= c => m # k
      BY <1>1, <3>1, <3>3
    <3>5. arrived \in Nat
      BY <1>1, NumMsgsAssumption
    <3> QED
      BY <1>1, <2>1, <3>1, <3>4, <3>5 DEF Talk
  <2> QED
    BY <2>2, <2>3 DEF Talk
<1>3. Remembers
  <2>1. Extends(prune, prune')
    BY <1>2 DEF Extends
  <2>2. arrived \in Nat
    BY <1>1, NumMsgsAssumption
  <2> QED
    BY <1>2, <2>1, <2>2 DEF Remembers
<1>4. RefsGrow'
  <2>1. RefsGrow
    BY DEF Told
  <2>2. \A m \in Msg : refs[m] # 0 => m <= arrived'
    <3>1. \A m \in Msg : refs[m] # 0 => m <= arrived
      BY <2>1 DEF RefsGrow
    <3>2. arrived \in Nat
      BY <1>1, NumMsgsAssumption
    <3> QED
      BY <1>1, <1>2, <3>1, <3>2
  <2>3. \A m \in history', k \in Msg : (refs[m] = 0 /\ refs[k] # 0) => k < m
    <3>1. \A k \in Msg : refs[k] # 0 => k < arrived + 1
      BY <1>1, <2>1, NumMsgsAssumption DEF RefsGrow
    <3> QED
      BY <1>2, <2>1, <3>1 DEF RefsGrow
  <2> QED
    BY <1>2, <2>1, <2>2, <2>3 DEF RefsGrow
<1>5. \A c \in CallAt : input'[c] # NoInput => CallTold(c)'
  BY <1>2, <1>3, CallStays
<1>6. \A b \in Ids(prune') : made'[b].call # 0 => BlockTold(b)'
  BY <1>2, <1>3, BlockStays
<1>7. ASSUME ~ClockMayStepBack, OffIds(prune') = {}
      PROVE  Gathered'
  <2>1. Gathered
    BY <1>2, <1>7 DEF Told
  <2>2. ASSUME NEW b \in Ids(prune'), made'[b].call \in history'
        PROVE  Gathers(prune', made', input'[made'[b].call], b, history')
    <3>1. b \in Ids(prune) /\ made[b].call \in history'
      BY <1>2, <2>2
    <3> QED
      BY <1>3, <2>1, <3>1, GathersStaysToo DEF Gathered
  <2> QED
    BY <1>2, <2>1, <2>2 DEF Gathered
<1> QED
  BY <1>2, <1>3, <1>4, <1>5, <1>6, <1>7 DEF Told

\* What a call is, and the plan it makes.
Draws(i, plan) ==
  /\ i.lo \in history /\ i.hi \in history /\ i.lo <= i.hi
  /\ i.blockStart => i.start \in prune.activeIds /\ prune.blocks[i.start].anchor = i.lo
  /\ i.blockEnd => i.end \in prune.activeIds /\ prune.blocks[i.end].anchor = i.hi
  /\ i.blockStart \/ i.start = Assigned[i.lo]
  /\ i.blockEnd \/ i.end = Assigned[i.hi]
  /\ plan \in Plan /\ plan.consumed \subseteq prune.activeIds
  /\ plan.anchor = i.lo /\ plan.msgs \subseteq Direct(i, history) /\ plan.msgs # {}
  /\ plan.byBlock <=> (i.blockStart \/ i.blockEnd)
  /\ plan.consumed = {x \in prune.activeIds : prune.blocks[x].anchor \in Within(i, history)}

LEMMA CallShape ==
  ASSUME IInv, Call
  PROVE  /\ arrived \in CallAt /\ arrived \in history /\ input[arrived] = NoInput
         /\ \E i, plan : /\ Draws(i, plan)
                         /\ input' = [input EXCEPT ![arrived] = i]
                         /\ prune' = Apply(prune, plan)
                         /\ made' = Append(made, [call |-> arrived, included |-> plan.consumed])
         /\ disk' = Saved(prune') /\ refs' = Assigned /\ UNCHANGED <<history, arrived>>
<1>1. PICK lo \in history, hi \in history, fromBlock \in BOOLEAN, toBlock \in BOOLEAN :
        /\ lo <= hi
        /\ \E start \in Names(lo, fromBlock), end \in Names(hi, toBlock) :
             input' = [input EXCEPT ![arrived] =
                         [lo |-> lo, hi |-> hi, start |-> start, end |-> end,
                          blockStart |-> fromBlock, blockEnd |-> toBlock]]
        /\ \E plan \in PlansOver(lo, hi) :
             /\ plan.byBlock = (fromBlock \/ toBlock)
             /\ Executable(plan)
             /\ prune.next <= MaxBlocks
             /\ Commit(Apply(prune, plan)) /\ disk' = Saved(prune')
             /\ made' = Append(made, [call |-> arrived, included |-> plan.consumed])
  BY Zenon DEF Call
<1>2. PICK start \in Names(lo, fromBlock), end \in Names(hi, toBlock) :
        input' = [input EXCEPT ![arrived] =
                    [lo |-> lo, hi |-> hi, start |-> start, end |-> end,
                     blockStart |-> fromBlock, blockEnd |-> toBlock]]
  BY <1>1
<1>3. PICK plan \in PlansOver(lo, hi) :
        /\ plan.byBlock = (fromBlock \/ toBlock)
        /\ Executable(plan)
        /\ Commit(Apply(prune, plan)) /\ disk' = Saved(prune')
        /\ made' = Append(made, [call |-> arrived, included |-> plan.consumed])
  BY <1>1
<1> DEFINE i == [lo |-> lo, hi |-> hi, start |-> start, end |-> end,
                 blockStart |-> fromBlock, blockEnd |-> toBlock]
<1>4. /\ i.lo = lo /\ i.hi = hi /\ i.start = start /\ i.end = end
      /\ i.blockStart = fromBlock /\ i.blockEnd = toBlock
      /\ input' = [input EXCEPT ![arrived] = i]
  BY <1>2
<1> HIDE DEF i
<1>5. plan \in Plan /\ plan.consumed \subseteq prune.activeIds
  BY PlanFacts
<1>6. /\ plan.anchor = lo /\ plan.msgs = Selected(lo, hi)
      /\ plan.consumed = AnchoredIn(Between(lo, hi))
  BY DEF PlansOver
<1>7. prune.activeIds = {b \in Ids(prune) : prune.blocks[b].active}
  BY DEF IInv, Sound, Indexed
<1>8. \A S : AnchoredIn(S) = {x \in prune.activeIds : prune.blocks[x].anchor \in S}
  BY <1>7 DEF AnchoredIn
<1>9. Between(lo, hi) = Within(i, history) /\ Selected(lo, hi) \subseteq Direct(i, history)
  BY <1>4 DEF Between, Within, Direct, Selected
<1>10. /\ fromBlock => start \in prune.activeIds /\ prune.blocks[start].anchor = lo
       /\ ~fromBlock => start = Assigned[lo]
  BY <1>8 DEF Names
<1>11. /\ toBlock => end \in prune.activeIds /\ prune.blocks[end].anchor = hi
       /\ ~toBlock => end = Assigned[hi]
  BY <1>8 DEF Names
<1>12. plan.msgs # {}
  BY <1>3 DEF Executable
<1>13. Draws(i, plan)
  BY <1>1, <1>3, <1>4, <1>5, <1>6, <1>8, <1>9, <1>10, <1>11, <1>12 DEF Draws
<1>14. prune' = Apply(prune, plan) /\ UNCHANGED <<history, arrived>> /\ disk' = Saved(prune')
  BY <1>3 DEF Commit
<1>15. arrived \in CallAt /\ arrived \in history /\ input[arrived] = NoInput /\ refs' = Assigned
  BY DEF Call
<1> QED
  BY <1>3, <1>4, <1>13, <1>14, <1>15

LEMMA CallTells ==
  ASSUME IInv, Told, Call
  PROVE  Told' /\ Remembers
<1>0. PICK b, c : b = prune.next /\ c = arrived
  OBVIOUS
<1>1. PICK i, plan :
        /\ Draws(i, plan)
        /\ input' = [input EXCEPT ![arrived] = i]
        /\ prune' = Apply(prune, plan)
        /\ made' = Append(made, [call |-> arrived, included |-> plan.consumed])
  BY CallShape, Zenon
<1>2. /\ c \in CallAt /\ c \in history /\ input[c] = NoInput
      /\ disk' = Saved(prune') /\ refs' = Assigned /\ UNCHANGED <<history, arrived>>
  BY <1>0, CallShape
<1>3. /\ Sound(prune) /\ Typed(prune) /\ history \subseteq Msg
      /\ Ids(prune) = Older(b) /\ b \in Nat \ {0} /\ b \notin Ids(prune)
      /\ CallAt \subseteq Msg /\ 0 \notin Msg
  BY <1>0, ToldIds DEF IInv, TypeOK, Older
<1>4. /\ plan \in Plan /\ plan.consumed \subseteq prune.activeIds
      /\ plan.consumed \subseteq Nat
  BY <1>1, TypedFields DEF Draws, IInv, TypeOK
<1>5. /\ Sound(prune') /\ Extends(prune, prune') /\ Adds(prune, prune', Absorbed(prune, plan))
      /\ Absorbed(prune, plan) \subseteq prune.activeIds
  BY <1>1, <1>3, <1>4, ApplySound, ApplyExtends, ApplyAdds, ApplyBlocks
<1>6. Ids(prune') = Ids(prune) \cup {b} /\ prune'.next = b + 1 /\ prune'.next - 1 = b
  BY <1>0, <1>3, <1>5 DEF Adds
<1>7. /\ RefsGrow'
      /\ \A m \in Msg : refs[m] # 0 => refs'[m] = refs[m]
      /\ \A m \in history : refs'[m] # 0
  BY <1>2, <1>3, RefsKept DEF Told
<1>8. disk'.blocks = prune'.blocks
  BY <1>2, <1>5, SavedBlocks DEF Sound
<1>9. /\ made' \in Seq([call : CallAt \cup {0}, included : SUBSET Nat])
      /\ Len(made') = b /\ made'[b].call = c /\ made'[b].included = plan.consumed
      /\ \A x \in Ids(prune) : made'[x] = made[x]
  <2> DEFINE r == [call |-> c, included |-> plan.consumed]
  <2>1. /\ r \in [call : CallAt \cup {0}, included : SUBSET Nat]
        /\ r.call = c /\ r.included = plan.consumed
    BY <1>2, <1>4
  <2>2. made' = Append(made, r)
    BY <1>0, <1>1
  <2> HIDE DEF r
  <2> QED
    BY <1>0, <2>1, <2>2, AppendMade
<1>10. /\ input' = [k \in CallAt |-> input'[k]] /\ input'[c] = i
       /\ \A k \in CallAt : k # c => input'[k] = input[k]
  <2>1. input = [k \in CallAt |-> input[k]]
    BY DEF Told
  <2> QED
    BY <1>0, <1>1, <1>2, <2>1
<1>11. c \in Nat /\ c \in Msg /\ \A m \in Msg : m \in Nat
  BY <1>2, <1>3, MsgNat
<1>12. Remembers
  <2>1. \A x \in Ids(prune') \ Ids(prune), y \in Ids(prune) : y < x
    BY <1>3, <1>5, NewerIds DEF Sound
  <2>2. OffIds(prune') = {} => OffIds(prune) = {}
    BY <1>5 DEF Adds, OffIds, Off
  <2>3. Ids(prune') \ Ids(prune) = {b}
    BY <1>3, <1>6
  <2> QED
    BY <1>0, <1>2, <1>3, <1>5, <1>7, <1>9, <1>10, <1>11, <2>1, <2>2, <2>3 DEF Remembers
<1>13. /\ i.lo \in history /\ i.hi \in history /\ i.lo <= i.hi
       /\ plan.anchor = i.lo /\ plan.msgs \subseteq Direct(i, history) /\ plan.msgs # {}
       /\ plan.byBlock <=> (i.blockStart \/ i.blockEnd)
  BY <1>1 DEF Draws
<1>14. i.lo \in Msg /\ i.hi \in Msg /\ i.hi <= c /\ i.lo # 0
  BY <1>0, <1>3, <1>13 DEF Told, RefsGrow
<1>15. /\ i.blockStart \/ i.start = refs'[i.lo]
       /\ i.blockEnd \/ i.end = refs'[i.hi]
  BY <1>1, <1>2 DEF Draws
<1>16. i # NoInput
  BY <1>14 DEF NoInput
<1>17. CallTold(c)'
  <2>1. Listed(i, history)
    BY <1>13 DEF Listed
  <2>2. b \in Ids(prune') /\ made'[b].call = c
    BY <1>6, <1>9
  <2>3. refs'[i.lo] # 0 /\ refs'[i.hi] # 0 /\ refs'[c] # 0
    BY <1>2, <1>7, <1>13
  <2> QED
    BY <1>0, <1>2, <1>10, <1>11, <1>13, <1>14, <1>15, <2>1, <2>2, <2>3 DEF CallTold
<1>18. \A k \in CallAt : input'[k] # NoInput => CallTold(k)'
  BY <1>2, <1>10, <1>12, <1>17, CallStays
<1>19. MadeBy(prune', made', i, b)
  <2>1. plan.msgs \subseteq Direct(i, Msg)
    BY <1>3, <1>13 DEF Direct, Within
  <2>2. made'[prune.next].included = plan.consumed
    BY <1>0, <1>9
  <2>3. MadeBy(Apply(prune, plan), made', i, prune.next)
    BY <1>3, <1>4, <1>13, <2>1, <2>2, NewMadeBy
  <2> QED
    BY <1>0, <1>1, <2>3
<1>20. \A x \in Older(b) : made'[x].call < c
  <2> SUFFICES ASSUME NEW x \in Ids(prune) PROVE made[x].call < c
    BY <1>3, <1>9
  <2>1. CASE made[x].call = 0
    BY <1>3, <1>11, <2>1, MsgNat
  <2>2. CASE made[x].call # 0
    <3> DEFINE k == made[x].call
    <3>1. k \in CallAt /\ input[k] # NoInput
      BY <2>2 DEF Told, BlockTold
    <3>2. k <= c /\ k # c /\ k \in Nat
      BY <1>0, <1>2, <1>3, <3>1, MsgNat DEF Told, CallTold
    <3> QED
      BY <1>11, <3>2
  <2> QED
    BY <2>1, <2>2
<1>21. BlockTold(b)'
  BY <1>2, <1>9, <1>10, <1>16, <1>19, <1>20 DEF BlockTold
<1>22. \A x \in Ids(prune') : made'[x].call # 0 => BlockTold(x)'
  BY <1>6, <1>9, <1>12, <1>21, BlockStays
<1>23. ASSUME ~ClockMayStepBack, OffIds(prune') = {}
       PROVE  Gathered'
  <2>1. OffIds(prune) = {}
    BY <1>12, <1>23 DEF Remembers
  <2>2. Gathered
    BY <1>23, <2>1 DEF Told
  <2>3. prune'.activeIds = Free(prune', prune'.next)
    BY <1>3, <1>5, <2>2, AddsFree DEF Gathered
  <2>4. Gathers(prune', made', i, b, history)
    <3>1. /\ plan.consumed = {x \in prune.activeIds : prune.blocks[x].anchor \in Within(i, history)}
          /\ i.blockStart => i.start \in prune.activeIds /\ prune.blocks[i.start].anchor = i.lo
          /\ i.blockEnd => i.end \in prune.activeIds /\ prune.blocks[i.end].anchor = i.hi
      BY <1>1 DEF Draws
    <3>2. prune.activeIds = Free(prune, prune.next) /\ made'[prune.next].included = plan.consumed
      BY <1>0, <1>9, <2>2 DEF Gathered
    <3>3. Gathers(Apply(prune, plan), made', i, prune.next, history)
      BY <1>3, <1>4, <3>1, <3>2, NewGathers
    <3> QED
      BY <1>0, <1>1, <3>3
  <2>5. ASSUME NEW x \in Ids(prune'), made'[x].call \in history'
        PROVE  Gathers(prune', made', input'[made'[x].call], x, history')
    <3>1. CASE x = b
      BY <1>2, <1>9, <1>10, <2>4, <3>1
    <3>2. CASE x \in Ids(prune)
      <4>1. made[x].call \in history'
        BY <1>9, <2>5, <3>2
      <4> QED
        BY <1>12, <2>2, <3>2, <4>1, GathersStaysToo DEF Gathered
    <3> QED
      BY <1>6, <2>5, <3>1, <3>2
  <2> QED
    BY <2>3, <2>5 DEF Gathered
<1> QED
  BY <1>6, <1>7, <1>8, <1>9, <1>10, <1>12, <1>18, <1>22, <1>23 DEF Told

LEMMA InitTold ==
  ASSUME ForkInit
  PROVE  Told
<1>1. /\ prune = EmptyPrune /\ disk = EmptyPrune /\ history = {} /\ arrived = 0
      /\ refs = [m \in Msg |-> 0] /\ made = <<>>
      /\ input = [c \in CallAt |-> NoInput]
  BY DEF ForkInit, Init
<1>2. Ids(prune) = {} /\ prune.next = 1 /\ prune.activeIds = {} /\ disk.blocks = prune.blocks
  BY <1>1 DEF EmptyPrune, Ids
<1>3. Free(prune, prune.next) = {}
  BY <1>2 DEF Free, Older
<1>4. RefsGrow
  BY <1>1, MsgNat DEF RefsGrow
<1>5. made \in Seq([call : CallAt \cup {0}, included : SUBSET Nat]) /\ Len(made) = 0
  BY <1>1
<1>6. \A c \in CallAt : input[c] = NoInput
  BY <1>1
<1>7. input = [c \in CallAt |-> input[c]]
  BY <1>1
<1>8. Gathered
  BY <1>2, <1>3 DEF Gathered
<1> QED
  BY <1>2, <1>4, <1>5, <1>6, <1>7, <1>8 DEF Told

LEMMA SameTold ==
  ASSUME Told, UNCHANGED parent
  PROVE  Told'
<1>1. UNCHANGED <<prune, disk, history, arrived, refs, made, input>>
  BY DEF parent
<1>2. RefsGrow' <=> RefsGrow
  BY <1>1 DEF RefsGrow
<1>3. \A c : CallTold(c)' <=> CallTold(c)
  BY <1>1 DEF CallTold
<1>4. \A b : BlockTold(b)' <=> BlockTold(b)
  BY <1>1 DEF BlockTold
<1>5. Gathered' <=> Gathered
  BY <1>1 DEF Gathered
<1> QED
  BY <1>1, <1>2, <1>3, <1>4, <1>5 DEF Told

-----------------------------------------------------------------------------
(* What the fork has copies of.                                            *)

\* The copied calls had their ranges copied with them, and the calls before them.
ForkTold ==
  /\ calls \subseteq CallAt \cap copied
  /\ \A c \in calls : input[c] # NoInput /\ Listed(input[c], copied)
  /\ \A b, x \in Ids(prune) :
       (x < b /\ made[b].call \in calls /\ made[x].call \in copied) => made[x].call \in calls
  /\ ~ClockMayStepBack /\ OffIds(prune) = {} =>
       \A b \in Ids(prune) :
         made[b].call \in calls => Gathers(prune, made, input[made[b].call], b, copied)

LEMMA ParentTold ==
  ASSUME ForkIInv, Told, ForkTold, UNCHANGED <<copied, calls>>, Remembers
  PROVE  ForkTold'
<1>1. UNCHANGED <<copied, calls>> /\ IInv /\ copied \subseteq Msg
  BY DEF ForkIInv
<1>2. \A c \in calls : c \in CallAt /\ c \in copied /\ input[c] # NoInput /\ input'[c] = input[c]
                       /\ Listed(input[c], copied)
  BY DEF ForkTold, Remembers
<1>3. \A b \in Ids(prune) : made'[b] = made[b] /\ b \in Ids(prune')
  BY DEF Remembers, Extends
<1>4. \A b \in Ids(prune') : made'[b].call \in calls => b \in Ids(prune) /\ made[b].call \in calls
  <2> SUFFICES ASSUME NEW b \in Ids(prune'), made'[b].call \in calls, b \notin Ids(prune)
               PROVE  FALSE
    BY <1>3
  <2>1. made'[b].call = 0 \/ (made'[b].call \in CallAt /\ input[made'[b].call] = NoInput)
    BY DEF Remembers
  <2>2. 0 \notin calls
    BY <1>1, <1>2, ToldIds
  <2> QED
    BY <1>2, <2>1, <2>2
<1>5. ASSUME NEW b \in Ids(prune'), NEW x \in Ids(prune'),
             x < b, made'[b].call \in calls, made'[x].call \in copied
      PROVE  made'[x].call \in calls
  <2>1. b \in Ids(prune) /\ made[b].call \in calls
    BY <1>4, <1>5
  <2>2. x \in Ids(prune)
    <3> SUFFICES ASSUME x \notin Ids(prune) PROVE FALSE
      OBVIOUS
    <3>1. b < x
      BY <2>1 DEF Remembers
    <3>2. b \in Nat /\ x \in Nat
      <4>1. Typed(prune) /\ Ids(prune) = 1 .. (prune.next - 1) /\ prune.next \in Nat
        BY <1>1, ToldIds DEF IInv, TypeOK
      <4>2. b \in Nat
        BY <2>1, <4>1
      <4>3. x \in Ids(prune') \ Ids(prune)
        BY <1>5
      <4> QED
        BY <1>5, <3>1, <4>2
    <3> QED
      BY <1>5, <3>1, <3>2
  <2>3. made[x].call \in copied
    BY <1>3, <1>5, <2>2
  <2> QED
    BY <1>3, <1>5, <2>1, <2>2, <2>3 DEF ForkTold
<1>6. ASSUME ~ClockMayStepBack, OffIds(prune') = {},
             NEW b \in Ids(prune'), made'[b].call \in calls
      PROVE  Gathers(prune', made', input'[made'[b].call], b, copied)
  <2>1. b \in Ids(prune) /\ made[b].call \in calls /\ made'[b] = made[b]
    BY <1>3, <1>4, <1>6
  <2>2. Gathers(prune, made, input[made[b].call], b, copied)
    BY <1>6, <2>1 DEF ForkTold, Remembers
  <2>3. Gathers(prune', made', input[made[b].call], b, copied)
    BY <1>1, <2>1, <2>2, GathersStays DEF Remembers, IInv
  <2> QED
    BY <1>2, <2>1, <2>3
<1>7. \A c \in calls : input'[c] # NoInput /\ Listed(input'[c], copied)
  BY <1>2
<1>8. calls \subseteq CallAt \cap copied
  BY DEF ForkTold
<1> QED
  BY <1>1, <1>5, <1>6, <1>7, <1>8 DEF ForkTold

LEMMA ForkTells ==
  ASSUME ForkIInv, Told, Fork, UNCHANGED parent
  PROVE  ForkTold'
<1>1. /\ IInv /\ how' = "none" /\ history \subseteq Msg /\ CallAt \subseteq Msg /\ 0 \notin Msg
      /\ \A m \in Msg : m \in Nat
  BY ToldIds, MsgNat DEF ForkIInv, Fork
<1>2. UNCHANGED <<prune, made, input>>
  BY DEF parent
<1>3. PICK cut \in history : copied' = {m \in history : m <= cut}
  BY DEF Fork
<1>4. calls' = {c \in CallAt \cap copied' : input[c] # NoInput}
  BY DEF Fork
<1>5. ASSUME NEW c \in calls'
      PROVE  /\ input[c] # NoInput /\ Listed(input[c], copied')
             /\ Within(input[c], history) = Within(input[c], copied') /\ c \in history
  <2> DEFINE i == input[c]
  <2>1. c \in CallAt /\ c \in history /\ c <= cut /\ input[c] # NoInput
    BY <1>3, <1>4
  <2>2. CallTold(c)
    BY <2>1 DEF Told
  <2>3. i.lo \in Msg /\ i.hi \in Msg /\ i.lo <= i.hi /\ i.hi <= c /\ Listed(i, history)
    BY <2>1, <2>2 DEF CallTold
  <2> HIDE DEF i
  <2>4. /\ c \in Nat /\ cut \in Nat /\ i.lo \in Nat /\ i.hi \in Nat
        /\ history \subseteq Nat /\ copied' \subseteq Nat
    BY <1>1, <1>3, <2>1, <2>3
  <2>5. \A m \in Nat : m <= c => (m \in history <=> m \in copied')
    BY <1>3, <2>1, <2>4
  <2>6. Within(i, history) = Within(i, copied') /\ Direct(i, history) = Direct(i, copied')
    BY <2>3, <2>4, <2>5, SameWithin
  <2>7. i.lo <= c
    BY <2>3, <2>4
  <2>8. Listed(i, copied')
    BY <2>3, <2>4, <2>5, <2>6, <2>7 DEF Listed
  <2> QED
    BY <2>1, <2>6, <2>8 DEF i
<1>6. ASSUME NEW x \in Ids(prune), made[x].call \in copied'
      PROVE  made[x].call \in calls'
  <2>1. made[x].call # 0
    BY <1>1, <1>3, <1>6
  <2>2. BlockTold(x)
    BY <2>1 DEF Told
  <2> QED
    BY <1>4, <1>6, <2>2 DEF BlockTold
<1>7. ASSUME ~ClockMayStepBack, OffIds(prune) = {},
             NEW b \in Ids(prune), made[b].call \in calls'
      PROVE  Gathers(prune, made, input[made[b].call], b, copied')
  <2>1. Gathers(prune, made, input[made[b].call], b, history)
    BY <1>5, <1>7 DEF Told, Gathered
  <2>2. Within(input[made[b].call], history) = Within(input[made[b].call], copied')
    BY <1>5, <1>7
  <2> QED
    BY <2>1, <2>2 DEF Gathers
<1> QED
  BY <1>1, <1>2, <1>4, <1>5, <1>6, <1>7 DEF ForkTold


LEMMA SameForkTold ==
  ASSUME ForkTold, UNCHANGED <<parent, copied, calls>>
  PROVE  ForkTold'
BY DEF ForkTold, parent

-----------------------------------------------------------------------------
(* The places of the copied messages.                                      *)

LEMMA PlaceIsUpTo == \A m : Place(m) = UpTo(copied, m)
BY DEF Place, UpTo

LEMMA PlaceGrows ==
  ASSUME copied \subseteq Msg, NEW k \in copied, NEW m \in copied, k < m
  PROVE  Place(k) < Place(m)
BY PlaceIsUpTo, UpToGrows

LEMMA PlaceOrders ==
  ASSUME copied \subseteq Msg, NEW k \in copied, NEW m \in copied
  PROVE  /\ Place(k) \in ForkMsgs /\ Place(k) \in Nat
         /\ k <= m <=> Place(k) <= Place(m)
         /\ k = m <=> Place(k) = Place(m)
<1>1. \A j \in copied : j \in Nat
  BY MsgNat
<1>2. /\ IsFiniteSet(copied) /\ Cardinality(copied) \in Nat
      /\ ForkMsgs = 1 .. Cardinality(copied)
  BY MsgSets, ForkMsgsType
<1>3. \A j \in copied : Place(j) \in ForkMsgs /\ Place(j) \in Nat
  <2> SUFFICES ASSUME NEW j \in copied PROVE Place(j) \in 1 .. Cardinality(copied)
    BY <1>2
  <2>1. Place(j) \in Nat /\ Place(j) # 0
    <3>1. \A x \in copied : 0 < x
      BY MsgNat
    <3> QED
      BY <3>1, PlaceIsUpTo, UpToBound
  <2>2. Place(j) <= Cardinality(copied)
    <3>1. {x \in copied : x <= j} \in SUBSET copied
      OBVIOUS
    <3> QED
      BY <1>2, <3>1, FS_Subset DEF Place
  <2> QED
    BY <1>2, <2>1, <2>2
<1>4. \A i, j \in copied : i < j => Place(i) < Place(j)
  BY PlaceGrows
<1> QED
  BY <1>1, <1>3, <1>4

\* Every message of the fork is the copy of one.
LEMMA PlaceOnto ==
  ASSUME copied \subseteq Msg, NEW r \in ForkMsgs
  PROVE  \E m \in copied : Place(m) = r
<1>1. /\ IsFiniteSet(copied) /\ Cardinality(copied) \in Nat /\ r \in 1 .. Cardinality(copied)
      /\ \A j \in copied : j \in Nat /\ Place(j) \in Nat
  BY MsgSets, MsgNat, ForkMsgsType, PlaceOrders
<1> DEFINE Enough == {m \in copied : r <= Place(m)}
<1>2. Enough # {}
  <2>1. copied # {}
    BY <1>1, FS_EmptySet
  <2>2. PICK m \in copied : \A j \in copied : j <= m
    BY <1>1, <2>1, NumMsgsAssumption, GreatestId DEF Msg
  <2>3. {k \in copied : k <= m} = copied
    BY <2>2
  <2>4. Place(m) = Cardinality(copied)
    BY <2>3 DEF Place
  <2> QED
    BY <1>1, <2>4
<1>3. PICK m \in Enough : \A j \in Enough : m <= j
  <2>1. Enough \subseteq Nat
    BY <1>1
  <2> HIDE DEF Enough
  <2> QED
    BY <1>2, <2>1, NatMin
<1>4. m \in copied /\ r <= Place(m) /\ \A j \in copied : j < m => Place(j) < r
  <2>1. \A j \in copied : j < m => j \notin Enough
    BY <1>1, <1>3
  <2> QED
    BY <1>1, <2>1
<1>5. Place(m) <= r
  <2> DEFINE B == {k \in copied : k < m}
  <2>1. /\ {k \in copied : k <= m} = B \cup {m} /\ m \notin B
        /\ B \subseteq copied /\ IsFiniteSet(B) /\ Cardinality(B) \in Nat
    <3>1. B \subseteq copied
      OBVIOUS
    <3>2. {k \in copied : k <= m} = B \cup {m} /\ m \notin B
      BY <1>1, <1>4
    <3> QED
      BY <3>1, <3>2, MsgSets
  <2> HIDE DEF B
  <2>2. Place(m) = Cardinality(B) + 1
    BY <2>1, FS_AddElement DEF Place
  <2>3. CASE B = {}
    BY <1>1, <2>2, <2>3, FS_EmptySet
  <2>4. CASE B # {}
    <3>1. PICK k \in B : \A j \in B : j <= k
      <4>1. B \subseteq 1 .. NumMsgs
        BY <2>1 DEF Msg
      <4> QED
        BY <2>4, <4>1, NumMsgsAssumption, GreatestId
    <3>2. k \in copied /\ k < m /\ {j \in copied : j <= k} = B
      <4>1. k \in copied /\ k < m
        BY DEF B
      <4>2. \A j \in copied : j <= k <=> j \in B
        BY <1>1, <1>4, <3>1, <4>1 DEF B
      <4> QED
        BY <2>1, <4>1, <4>2
    <3>3. Place(k) = Cardinality(B)
      BY <3>2 DEF Place
    <3>4. Place(k) < r
      BY <1>4, <3>2
    <3> QED
      BY <1>1, <2>1, <2>2, <3>3, <3>4
  <2> QED
    BY <2>3, <2>4
<1> QED
  BY <1>1, <1>4, <1>5

LEMMA OriginOf ==
  ASSUME copied \subseteq Msg
  PROVE  /\ \A m \in copied : Place(m) \in ForkMsgs /\ Origin(Place(m)) = m
         /\ \A k \in ForkMsgs : Origin(k) \in copied /\ Place(Origin(k)) = k
<1>1. \A m \in copied : Place(m) \in ForkMsgs /\ Origin(Place(m)) = m
  <2> SUFFICES ASSUME NEW m \in copied PROVE Origin(Place(m)) = m
    BY PlaceOrders
  <2>1. \A j \in copied : Place(j) = Place(m) => j = m
    BY PlaceOrders
  <2> QED
    BY <2>1 DEF Origin
<1>2. \A k \in ForkMsgs : Origin(k) \in copied /\ Place(Origin(k)) = k
  BY PlaceOnto DEF Origin
<1> QED
  BY <1>1, <1>2

LEMMA PlaceIsRef ==
  ASSUME copied \subseteq Msg, SameRefs, NEW m \in copied
  PROVE  refs[m] = Place(m) /\ Place(m) \in ForkMsgs
BY OriginOf DEF SameRefs

\* While the references are the same, the fork has the calls before a copied one.
LEMMA EarlierCopied ==
  ASSUME IInv, Told, ForkTold, copied \subseteq Msg, SameRefs,
         NEW b \in Ids(prune), made[b].call \in calls,
         NEW x \in Older(b), made[x].call # 0
  PROVE  made[x].call \in calls /\ made[x].call < made[b].call
<1> DEFINE c == made[b].call
           k == made[x].call
<1>1. /\ x \in Ids(prune) /\ x < b /\ CallAt \subseteq Msg /\ 0 \notin Msg
      /\ c \in CallAt /\ c \in copied
  <2>1. Typed(prune) /\ b \in Nat /\ x < b /\ x \in Ids(prune)
    BY OlderIds DEF IInv, TypeOK, Older
  <2> QED
    BY <2>1, ToldIds DEF ForkTold
<1>2. BlockTold(b) /\ BlockTold(x)
  BY <1>1 DEF Told
<1>3. k < c /\ k \in CallAt /\ input[k] # NoInput /\ input[c] # NoInput
  BY <1>2 DEF BlockTold
<1>4. refs[k] # 0 /\ refs[c] # 0 /\ refs[k] \in Nat /\ refs[c] \in Nat /\ refs[k] < refs[c]
  <2>1. CallTold(k) /\ CallTold(c)
    BY <1>1, <1>3 DEF Told
  <2>2. k \in Msg /\ c \in Msg
    BY <1>1, <1>3
  <2> QED
    BY <1>3, <2>1, <2>2 DEF CallTold, Told, RefsGrow
<1>5. refs[k] \in ForkMsgs
  BY <1>1, <1>4, PlaceIsRef, ForkMsgsType
<1>6. PICK o \in copied : refs[o] = refs[k]
  BY <1>5, OriginOf DEF SameRefs
<1>7. o = k
  <2>1. o \in Msg /\ k \in Msg /\ o \in Nat /\ k \in Nat
    BY <1>1, <1>3, MsgNat
  <2>2. ~(o < k) /\ ~(k < o)
    BY <1>4, <1>6, <2>1 DEF Told, RefsGrow
  <2> QED
    BY <2>1, <2>2
<1> QED
  BY <1>1, <1>3, <1>6, <1>7 DEF ForkTold

-----------------------------------------------------------------------------
(* One replayed call.                                                      *)

LEMMA NamedByRef ==
  ASSUME copied \subseteq Msg, NEW ps, NEW m \in copied, NEW name, name = Place(m),
         NEW isBlock, ~isBlock
  PROVE  Resolved(ps, name, isBlock, FALSE) = {Place(m)}
<1>1. /\ Place(m) \in ForkMsgs /\ Place(m) \in Nat /\ \A k \in ForkMsgs : k \in Nat
  BY PlaceOrders, ForkMsgsType
<1>2. ASSUME NEW k
      PROVE  ForkRef(k, FALSE) = k
  <2> DEFINE asked == {j \in ForkMsgs : Origin(j) \in Users}
             skipped == {j \in asked : \A i \in asked : j <= i}
             early == \A j \in skipped : k < j
  <2>1. ForkRef(k, FALSE) = IF ~FALSE \/ early THEN k ELSE IF k \in skipped THEN 0 ELSE k - 1
    BY DEF ForkRef
  <2> HIDE DEF skipped, early
  <2> QED
    BY <2>1
<1> DEFINE Found(k) == \/ ForkRef(k, FALSE) = Place(m)
                       \/ /\ \A j \in ForkMsgs : ForkRef(j, FALSE) < Place(m)
                          /\ \A j \in ForkMsgs : ForkRef(j, FALSE) <= ForkRef(k, FALSE)
<1>3. Resolved(ps, name, isBlock, FALSE) = {k \in ForkMsgs : Found(k)}
  BY Zenon DEF Resolved
<1>4. ~ \A j \in ForkMsgs : ForkRef(j, FALSE) < Place(m)
  <2>1. ForkRef(Place(m), FALSE) = Place(m)
    BY <1>2, Zenon
  <2>2. Place(m) \in ForkMsgs /\ ~(Place(m) < Place(m))
    BY <1>1
  <2> QED
    BY <2>1, <2>2
<1>5. \A k \in ForkMsgs : Found(k) <=> k = Place(m)
  BY <1>2, <1>4
<1> HIDE DEF Found
<1> QED
  BY <1>1, <1>3, <1>5

\* A call whose ends are found compresses the copies of its messages.
LEMMA CallPlanned ==
  ASSUME copied \subseteq Msg, NEW ps, NEW at, NEW i,
         i.lo \in copied, i.hi \in copied, i.lo <= i.hi,
         Resolved(ps, i.start, i.blockStart, FALSE) = {Place(i.lo)},
         Resolved(ps, i.end, i.blockEnd, FALSE) = {Place(i.hi)}
  PROVE  LET plan == PlanOf(ps, i, Place(i.lo), Place(i.hi), at)
         IN /\ ReplayCall(ps, i, FALSE, at) = IF plan.msgs = {} THEN ps ELSE Apply(ps, plan)
            /\ plan.msgs = {Place(m) : m \in Direct(i, copied)}
<1> DEFINE lo == Place(i.lo)
           hi == Place(i.hi)
           plan == PlanOf(ps, i, lo, hi, at)
           ends == {lo} \cup {hi}
<1>1. lo \in Nat /\ hi \in Nat /\ lo <= hi /\ lo \in ForkMsgs /\ hi \in ForkMsgs
  BY PlaceOrders
<1> HIDE DEF lo, hi
<1>2. (CHOOSE k \in ends : \A j \in ends : k <= j) = lo
  <2>1. \A k \in ends : (\A j \in ends : k <= j) <=> k = lo
    BY <1>1
  <2> QED
    BY <2>1
<1>3. (CHOOSE k \in ends : \A j \in ends : j <= k) = hi
  <2>1. \A k \in ends : (\A j \in ends : j <= k) <=> k = hi
    BY <1>1
  <2> QED
    BY <2>1
<1>4. ReplayCall(ps, i, FALSE, at) = IF plan.msgs = {} THEN ps ELSE Apply(ps, plan)
  <2> DEFINE starts == Resolved(ps, i.start, i.blockStart, FALSE)
             stops == Resolved(ps, i.end, i.blockEnd, FALSE)
             found == starts \cup stops
             all == PlanOf(ps, i, CHOOSE k \in found : \A j \in found : k <= j,
                                  CHOOSE k \in found : \A j \in found : j <= k, at)
  <2>1. ReplayCall(ps, i, FALSE, at) =
          IF starts = {} \/ stops = {} THEN ps
          ELSE IF all.msgs = {} THEN ps ELSE Apply(ps, all)
    BY DEF ReplayCall
  <2>2. starts = {lo} /\ stops = {hi}
    BY DEF lo, hi
  <2> HIDE DEF starts, stops, plan
  <2>3. found = ends
    BY <2>2
  <2>4. all = plan
    BY <1>2, <1>3, <2>3 DEF plan
  <2> HIDE DEF all
  <2> QED
    BY <2>1, <2>2, <2>4
<1>5. plan.msgs = {Place(m) : m \in Direct(i, copied)}
  <2>1. plan.msgs = {k \in lo .. hi : Origin(k) \notin ProtectedTools}
    BY DEF PlanOf
  <2>2. lo .. hi \subseteq ForkMsgs
    BY <1>1, ForkMsgsType
  <2>3. \A m \in copied : /\ Place(m) \in Nat /\ Origin(Place(m)) = m
                          /\ i.lo <= m <=> lo <= Place(m)
                          /\ m <= i.hi <=> Place(m) <= hi
    BY PlaceOrders, OriginOf DEF lo, hi
  <2>4. \A k \in ForkMsgs : Origin(k) \in copied /\ Place(Origin(k)) = k
    BY OriginOf
  <2>5. ASSUME NEW k, k \in plan.msgs
        PROVE  \E m \in Direct(i, copied) : k = Place(m)
    <3>1. k \in lo .. hi /\ k \in ForkMsgs /\ Origin(k) \notin ProtectedTools
      BY <2>1, <2>2, <2>5
    <3>2. Origin(k) \in Direct(i, copied) /\ k = Place(Origin(k))
      BY <1>1, <2>3, <2>4, <3>1 DEF Direct, Within
    <3> QED
      BY <3>2
  <2>6. ASSUME NEW m \in Direct(i, copied)
        PROVE  Place(m) \in plan.msgs
    <3>1. m \in copied /\ i.lo <= m /\ m <= i.hi /\ m \notin ProtectedTools
      BY DEF Direct, Within
    <3>2. Place(m) \in lo .. hi /\ Origin(Place(m)) = m
      BY <1>1, <2>3, <3>1
    <3> QED
      BY <2>1, <3>1, <3>2
  <2> HIDE DEF plan
  <2> QED
    BY <2>5, <2>6
<1> HIDE DEF plan
<1>6. ReplayCall(ps, i, FALSE, at) = (IF plan.msgs = {} THEN ps ELSE Apply(ps, plan))
      /\ plan.msgs = {Place(m) : m \in Direct(i, copied)}
  BY <1>4, <1>5
<1> QED
  BY <1>6 DEF plan, lo, hi

LEMMA ApplyHides ==
  ASSUME NEW ps, Sound(ps), NEW plan \in Plan, plan.consumed \subseteq ps.activeIds
  PROVE  plan.msgs \subseteq Covered(Apply(ps, plan))
<1> DEFINE q == Apply(ps, plan)
<1>1. /\ Ids(q) = Ids(ps) \cup {ps.next}
      /\ q.blocks[ps.next] = NewBlock(ps, plan)
  BY ApplyBlocks
<1>2. /\ NewBlock(ps, plan).effective = plan.msgs \cup EffectiveOf(ps, Absorbed(ps, plan))
      /\ NewBlock(ps, plan).active
  BY DEF NewBlock, NewBlockOver, Fresh
<1> HIDE DEF q
<1>3. plan.msgs \subseteq Covered(q)
  BY <1>1, <1>2 DEF Covered, EffectiveOf
<1> QED
  BY <1>3 DEF q

LEMMA CallHides ==
  ASSUME copied \subseteq Msg, NEW at \in Times, NEW ps, Good(ps, at), NEW i,
         i.lo \in copied, i.hi \in copied, i.lo <= i.hi,
         Resolved(ps, i.start, i.blockStart, FALSE) = {Place(i.lo)},
         Resolved(ps, i.end, i.blockEnd, FALSE) = {Place(i.hi)}
  PROVE  {Place(m) : m \in Direct(i, copied)} \subseteq Covered(ReplayCall(ps, i, FALSE, at))
<1> DEFINE plan == PlanOf(ps, i, Place(i.lo), Place(i.hi), at)
<1>1. /\ ReplayCall(ps, i, FALSE, at) = IF plan.msgs = {} THEN ps ELSE Apply(ps, plan)
      /\ plan.msgs = {Place(m) : m \in Direct(i, copied)}
  BY CallPlanned
<1>2. plan \in Plan /\ plan.consumed \subseteq ps.activeIds
  <2>1. Place(i.lo) \in ForkMsgs /\ Place(i.hi) \in ForkMsgs
    BY PlaceOrders
  <2> QED
    BY <2>1, ReplayPlan
<1> HIDE DEF plan
<1>3. plan.msgs \subseteq Covered(Apply(ps, plan))
  BY <1>2, ApplyHides DEF Good
<1> QED
  BY <1>1, <1>3

LEMMA ReplayReveals ==
  ASSUME copied \subseteq Msg, NEW at \in Times, NEW ps, Good(ps, at), NEW call, NEW subagent
  PROVE  Covered(ps) \subseteq Covered(ReplayCall(ps, call, subagent, at))
<1> DEFINE starts == Resolved(ps, call.start, call.blockStart, subagent)
           stops == Resolved(ps, call.end, call.blockEnd, subagent)
           ends == starts \cup stops
           lo == CHOOSE k \in ends : \A j \in ends : k <= j
           hi == CHOOSE k \in ends : \A j \in ends : j <= k
           plan == PlanOf(ps, call, lo, hi, at)
<1>1. ends \subseteq ForkMsgs
  BY ResolvedType DEF Good
<1>2. ReplayCall(ps, call, subagent, at) =
        IF starts = {} \/ stops = {} THEN ps
        ELSE IF plan.msgs = {} THEN ps ELSE Apply(ps, plan)
  BY DEF ReplayCall
<1> HIDE DEF starts, stops
<1>3. CASE starts = {} \/ stops = {}
  BY <1>2, <1>3
<1>4. CASE ~(starts = {} \/ stops = {})
  <2>1. ends # {} /\ ends \subseteq Nat /\ ends \subseteq 1 .. Cardinality(copied)
        /\ Cardinality(copied) \in Nat
    BY <1>1, <1>4, ForkMsgsType
  <2> HIDE DEF ends
  <2>2. (\E k \in ends : \A j \in ends : k <= j) /\ (\E k \in ends : \A j \in ends : j <= k)
    BY <2>1, NatMin, GreatestId
  <2>3. lo \in ends /\ hi \in ends
    BY <2>2
  <2> HIDE DEF lo, hi
  <2>4. plan \in Plan /\ plan.consumed \subseteq ps.activeIds
    BY <1>1, <2>3, ReplayPlan
  <2> HIDE DEF plan
  <2>5. Covered(ps) \subseteq Covered(Apply(ps, plan))
    BY <2>4, ApplyReveals DEF Good
  <2> QED
    BY <1>2, <1>4, <2>5
<1> QED
  BY <1>3, <1>4

-----------------------------------------------------------------------------
(* The replay of all calls.                                                *)

\* References are the same and nothing was merged: the blocks are those of calls.
Replays ==
  /\ IInv /\ Told /\ ForkTold /\ copied \subseteq Msg /\ SameRefs
  /\ \A b \in Ids(prune) : made[b].call # 0

\* Nothing was decompressed either, and the clock is steady.
Plainly == ~ClockMayStepBack /\ OffIds(prune) = {}

\* The state ps has the blocks of the copied calls up to n, as the parent had them.
Mirrors(ps, n) ==
  /\ Ids(ps) = {b \in Ids(prune) : made[b].call \in calls /\ made[b].call <= n}
  /\ \A b \in Ids(ps) : /\ ps.blocks[b].anchor = Place(prune.blocks[b].anchor)
                        /\ ps.blocks[b].tier = prune.blocks[b].tier
                        /\ ps.blocks[b].consumed = prune.blocks[b].consumed
  /\ ps.activeIds = Free(ps, ps.next)

LEMMA CallEnds ==
  ASSUME Replays, NEW c \in calls, NEW ps
  PROVE  LET i == input[c]
         IN /\ i.lo \in copied /\ i.hi \in copied /\ i.lo <= i.hi /\ Direct(i, copied) # {}
            /\ ~i.blockStart => Resolved(ps, i.start, i.blockStart, FALSE) = {Place(i.lo)}
            /\ ~i.blockEnd => Resolved(ps, i.end, i.blockEnd, FALSE) = {Place(i.hi)}
            /\ \E b \in Ids(prune) : made[b].call = c
            /\ c \in Msg
<1> DEFINE i == input[c]
<1>1. c \in CallAt /\ c \in Msg /\ i # NoInput /\ Listed(i, copied) /\ copied \subseteq Msg
  BY DEF Replays, ForkTold
<1>2. CallTold(c)
  BY <1>1 DEF Replays, Told
<1>3. i.lo \in copied /\ i.hi \in copied /\ Direct(i, copied) # {}
  BY <1>1 DEF Listed
<1>4. /\ i.lo <= i.hi /\ \E b \in Ids(prune) : made[b].call = c
      /\ i.blockStart \/ i.start = refs[i.lo]
      /\ i.blockEnd \/ i.end = refs[i.hi]
  BY <1>2 DEF CallTold
<1>5. refs[i.lo] = Place(i.lo) /\ refs[i.hi] = Place(i.hi)
  BY <1>1, <1>3, PlaceIsRef DEF Replays
<1> HIDE DEF i
<1>6. ASSUME ~i.blockStart
      PROVE  Resolved(ps, i.start, i.blockStart, FALSE) = {Place(i.lo)}
  <2>1. i.start = Place(i.lo) /\ i.lo \in copied
    BY <1>3, <1>4, <1>5, <1>6
  <2> QED
    BY <1>1, <1>6, <2>1, NamedByRef, Zenon
<1>7. ASSUME ~i.blockEnd
      PROVE  Resolved(ps, i.end, i.blockEnd, FALSE) = {Place(i.hi)}
  <2>1. i.end = Place(i.hi) /\ i.hi \in copied
    BY <1>3, <1>4, <1>5, <1>7
  <2> QED
    BY <1>1, <1>7, <2>1, NamedByRef, Zenon
<1> QED
  BY <1>1, <1>3, <1>4, <1>6, <1>7 DEF i

LEMMA MirrorsNone ==
  ASSUME Replays
  PROVE  Mirrors(EmptyPrune, 0)
<1>1. /\ Ids(EmptyPrune) = {} /\ EmptyPrune.activeIds = {} /\ EmptyPrune.next = 1
  BY DEF EmptyPrune, Ids
<1>2. \A c \in calls : c \in Nat /\ 1 <= c
  BY MsgNat DEF Replays, ForkTold
<1>3. {b \in Ids(prune) : made[b].call \in calls /\ made[b].call <= 0} = {}
  BY <1>2
<1>4. Free(EmptyPrune, 1) = {}
  BY DEF Free, Older
<1> QED
  BY <1>1, <1>3, <1>4 DEF Mirrors

LEMMA MirrorsOn ==
  ASSUME Replays, NEW ps, NEW n \in Msg, n \notin calls, Mirrors(ps, n - 1)
  PROVE  Mirrors(ps, n)
<1>1. \A c \in calls : c \in Nat
  BY MsgNat DEF Replays, ForkTold
<1>2. n \in Nat
  BY MsgNat
<1>3. \A c \in calls : c <= n <=> c <= n - 1
  BY <1>1, <1>2
<1> QED
  BY <1>3 DEF Mirrors

\* The blocks that are older than that of a call are those of the calls before it.
LEMMA MirrorsOlder ==
  ASSUME Replays, NEW b \in Ids(prune), made[b].call \in calls
  PROVE  /\ \A x \in Ids(prune) :
              (made[x].call \in calls /\ made[x].call <= made[b].call - 1) <=> x \in Older(b)
         /\ \A x \in Ids(prune) :
              (made[x].call \in calls /\ made[x].call <= made[b].call) <=> x \in Older(b) \cup {b}
<1>1. /\ IInv /\ Told /\ ForkTold /\ copied \subseteq Msg /\ SameRefs
      /\ \A x \in Ids(prune) : made[x].call # 0 /\ BlockTold(x)
  BY DEF Replays, Told
<1>2. Ids(prune) \subseteq Nat /\ \A x \in Ids(prune) : 1 <= x
  <2>1. Typed(prune)
    BY <1>1 DEF IInv, TypeOK
  <2> QED
    BY <2>1, OlderIds
<1>3. \A x \in Ids(prune) : made[x].call \in Nat
  <2>1. \A x \in Ids(prune) : made[x].call \in CallAt
    BY <1>1 DEF BlockTold
  <2> QED
    BY <1>1, <2>1, ToldIds, MsgNat
<1>4. \A x \in Older(b) : made[x].call \in calls /\ made[x].call < made[b].call
  <2> SUFFICES ASSUME NEW x \in Older(b)
               PROVE  made[x].call \in calls /\ made[x].call < made[b].call
    OBVIOUS
  <2>1. x \in Ids(prune)
    <3>1. Typed(prune)
      BY <1>1 DEF IInv, TypeOK
    <3> QED
      BY <3>1, OlderIds
  <2> QED
    BY <1>1, <2>1, EarlierCopied
<1>5. \A x \in Ids(prune) : x \notin Older(b) /\ x # b => made[b].call < made[x].call
  <2> SUFFICES ASSUME NEW x \in Ids(prune), x \notin Older(b), x # b
               PROVE  made[b].call < made[x].call
    OBVIOUS
  <2>1. b \in Older(x)
    BY <1>2 DEF Older
  <2> QED
    BY <1>1, <2>1 DEF BlockTold
<1>6. b \notin Older(b)
  BY <1>2 DEF Older
<1> QED
  BY <1>3, <1>4, <1>5, <1>6

LEMMA CallMirrored ==
  ASSUME Replays, Plainly, NEW at \in Times, NEW ps, Good(ps, at), NEW c \in calls,
         Mirrors(ps, c - 1)
  PROVE  LET i == input[c]
         IN /\ Resolved(ps, i.start, i.blockStart, FALSE) = {Place(i.lo)}
            /\ Resolved(ps, i.end, i.blockEnd, FALSE) = {Place(i.hi)}
            /\ Mirrors(ReplayCall(ps, i, FALSE, at), c)
<1>1. /\ IInv /\ Told /\ ForkTold /\ copied \subseteq Msg /\ SameRefs /\ Sound(ps) /\ Typed(ps)
      /\ \A x \in Ids(prune) : made[x].call # 0 /\ BlockTold(x)
  BY DEF Replays, Told, Good, Sound
<1>2. PICK i : i = input[c]
  OBVIOUS
<1>3. /\ i.lo \in copied /\ i.hi \in copied /\ i.lo <= i.hi /\ Direct(i, copied) # {}
      /\ ~i.blockStart => Resolved(ps, i.start, i.blockStart, FALSE) = {Place(i.lo)}
      /\ ~i.blockEnd => Resolved(ps, i.end, i.blockEnd, FALSE) = {Place(i.hi)}
      /\ \E b \in Ids(prune) : made[b].call = c
  BY <1>2, CallEnds
<1>4. PICK b \in Ids(prune) : made[b].call = c
  BY <1>3
<1>5. /\ Ids(ps) = Older(b) /\ b \notin Older(b) /\ b \in Nat \ {0} /\ Older(b) \subseteq Ids(prune)
      /\ {x \in Ids(prune) : made[x].call \in calls /\ made[x].call <= c} = Older(b) \cup {b}
      /\ \A x \in Older(b) : made[x].call \in calls
  <2>1. b \notin Older(b) /\ b \in Nat \ {0} /\ Older(b) \subseteq Ids(prune)
    <3>1. Typed(prune)
      BY <1>1 DEF IInv, TypeOK
    <3> QED
      BY <3>1, OlderIds
  <2>2. \A x \in Ids(prune) :
          /\ (made[x].call \in calls /\ made[x].call <= c - 1) <=> x \in Older(b)
          /\ (made[x].call \in calls /\ made[x].call <= c) <=> x \in Older(b) \cup {b}
    BY <1>4, MirrorsOlder
  <2> QED
    BY <1>4, <2>1, <2>2 DEF Mirrors
<1>6. ps.next = b
  <2>1. Older(ps.next) = Older(b) /\ ps.next \in Nat \ {0}
    BY <1>1, <1>5, TypedFields DEF Older
  <2> QED
    BY <1>5, <2>1 DEF Older
<1>7. \A x \in Older(b) : /\ ps.blocks[x].anchor = Place(prune.blocks[x].anchor)
                          /\ ps.blocks[x].tier = prune.blocks[x].tier
                          /\ ps.blocks[x].consumed = prune.blocks[x].consumed
                          /\ prune.blocks[x].anchor \in copied
  <2> SUFFICES ASSUME NEW x \in Older(b) PROVE prune.blocks[x].anchor \in copied
    BY <1>5 DEF Mirrors
  <2>1. prune.blocks[x].anchor = input[made[x].call].lo
    BY <1>1, <1>5 DEF BlockTold, MadeBy
  <2> QED
    BY <1>1, <1>5, <2>1 DEF ForkTold, Listed
<1>8. ps.activeIds = Free(prune, b) /\ ps.activeIds = Free(ps, ps.next)
  BY <1>5, <1>6, <1>7 DEF Mirrors, Free
<1>9. /\ Gathers(prune, made, i, b, copied) /\ MadeBy(prune, made, i, b)
  BY <1>1, <1>2, <1>4 DEF ForkTold, Plainly, BlockTold
<1>10. /\ Resolved(ps, i.start, i.blockStart, FALSE) = {Place(i.lo)}
       /\ Resolved(ps, i.end, i.blockEnd, FALSE) = {Place(i.hi)}
  <2>1. ASSUME i.blockStart
       PROVE  Resolved(ps, i.start, i.blockStart, FALSE) = {Place(i.lo)}
    <3>1. i.start \in ps.activeIds /\ prune.blocks[i.start].anchor = i.lo /\ i.start \in Older(b)
      BY <1>8, <1>9, <2>1 DEF Gathers, Free
    <3>2. Place(prune.blocks[i.start].anchor) = Place(i.lo)
      BY <3>1, Zenon
    <3>3. ps.blocks[i.start].anchor = Place(i.lo)
      BY <1>7, <3>1, <3>2
    <3> QED
      BY <2>1, <3>1, <3>3 DEF Resolved
  <2>2. ASSUME i.blockEnd
       PROVE  Resolved(ps, i.end, i.blockEnd, FALSE) = {Place(i.hi)}
    <3>1. i.end \in ps.activeIds /\ prune.blocks[i.end].anchor = i.hi /\ i.end \in Older(b)
      BY <1>8, <1>9, <2>2 DEF Gathers, Free
    <3>2. Place(prune.blocks[i.end].anchor) = Place(i.hi)
      BY <3>1, Zenon
    <3>3. ps.blocks[i.end].anchor = Place(i.hi)
      BY <1>7, <3>1, <3>2
    <3> QED
      BY <2>2, <3>1, <3>3 DEF Resolved
  <2>3. Resolved(ps, i.start, i.blockStart, FALSE) = {Place(i.lo)}
    BY <1>3, <2>1
  <2>4. Resolved(ps, i.end, i.blockEnd, FALSE) = {Place(i.hi)}
    BY <1>3, <2>2
  <2> QED
    BY <2>3, <2>4
<1> DEFINE plan == PlanOf(ps, i, Place(i.lo), Place(i.hi), at)
<1>11. plan.msgs # {} /\ ReplayCall(ps, i, FALSE, at) = Apply(ps, plan)
  <2>1. /\ ReplayCall(ps, i, FALSE, at) = IF plan.msgs = {} THEN ps ELSE Apply(ps, plan)
        /\ plan.msgs = {Place(m) : m \in Direct(i, copied)}
    BY <1>1, <1>3, <1>10, CallPlanned
  <2> HIDE DEF plan
  <2> QED
    BY <1>3, <2>1
<1>12. plan \in Plan /\ plan.consumed \subseteq ps.activeIds
  <2>1. Place(i.lo) \in ForkMsgs /\ Place(i.hi) \in ForkMsgs
    BY <1>1, <1>3, PlaceOrders
  <2> QED
    BY <1>1, <2>1, ReplayPlan
<1>13. /\ plan.anchor = Place(i.lo)
       /\ plan.byBlock <=> (i.blockStart \/ i.blockEnd)
       /\ plan.consumed = {x \in ps.activeIds : ps.blocks[x].anchor \in Place(i.lo) .. Place(i.hi)}
  BY DEF PlanOf
<1> HIDE DEF plan
<1>14. plan.consumed = made[b].included
  <2>1. made[b].included = {x \in Free(prune, b) : prune.blocks[x].anchor \in Within(i, copied)}
    BY <1>9 DEF Gathers
  <2>2. ASSUME NEW x \in Free(prune, b)
        PROVE  ps.blocks[x].anchor \in Place(i.lo) .. Place(i.hi)
               <=> prune.blocks[x].anchor \in Within(i, copied)
    <3>1. PICK a \in copied : a = prune.blocks[x].anchor /\ ps.blocks[x].anchor = Place(a)
      BY <1>7 DEF Free
    <3>2. /\ Place(a) \in Nat /\ Place(i.lo) \in Nat /\ Place(i.hi) \in Nat
          /\ i.lo <= a <=> Place(i.lo) <= Place(a)
          /\ a <= i.hi <=> Place(a) <= Place(i.hi)
      BY <1>1, <1>3, PlaceOrders
    <3>3. a \in Within(i, copied) <=> Place(a) \in Place(i.lo) .. Place(i.hi)
      BY <3>2 DEF Within
    <3> QED
      BY <3>1, <3>3
  <2> QED
    BY <1>8, <1>13, <2>1, <2>2
<1>15. /\ Absorbed(ps, plan) = prune.blocks[b].consumed
       /\ OutputTier(ps, plan) = prune.blocks[b].tier
  <2> DEFINE drawn == Drawn(made, i, b)
  <2>1. drawn.consumed = plan.consumed /\ (drawn.byBlock <=> plan.byBlock)
    <3>1. drawn.consumed = made[b].included /\ (drawn.byBlock <=> (i.blockStart \/ i.blockEnd))
      BY DEF Drawn
    <3> HIDE DEF drawn
    <3> QED
      BY <1>13, <1>14, <3>1
  <2>2. plan.consumed \subseteq Older(b)
    BY <1>8, <1>12 DEF Free
  <2> HIDE DEF drawn
  <2>3. Absorbed(prune, drawn) = Absorbed(ps, plan) /\ OutputTier(prune, drawn) = OutputTier(ps, plan)
    BY <1>5, <1>7, <2>1, <2>2, SameTiers
  <2> QED
    BY <1>9, <2>3 DEF MadeBy, drawn
<1>16. PICK q : q = Apply(ps, plan)
  OBVIOUS
<1>17. /\ Extends(ps, q) /\ Adds(ps, q, Absorbed(ps, plan)) /\ Ids(q) = Ids(ps) \cup {b}
       /\ q.blocks[b] = NewBlock(ps, plan) /\ Absorbed(ps, plan) \subseteq ps.activeIds
  BY <1>1, <1>6, <1>12, <1>16, ApplyExtends, ApplyAdds, ApplyBlocks
<1>18. q.activeIds = Free(q, q.next)
  BY <1>1, <1>8, <1>17, AddsFree
<1>19. /\ q.blocks[b].anchor = Place(prune.blocks[b].anchor)
       /\ q.blocks[b].tier = prune.blocks[b].tier
       /\ q.blocks[b].consumed = prune.blocks[b].consumed
  <2>1. /\ NewBlock(ps, plan).anchor = plan.anchor
        /\ NewBlock(ps, plan).tier = OutputTier(ps, plan)
        /\ NewBlock(ps, plan).consumed = Absorbed(ps, plan)
    BY DEF NewBlock, NewBlockOver, Fresh
  <2>2. prune.blocks[b].anchor = i.lo
    BY <1>9 DEF MadeBy
  <2>3. Place(prune.blocks[b].anchor) = Place(i.lo)
    BY <2>2, Zenon
  <2> QED
    BY <1>13, <1>15, <1>17, <2>1, <2>3
<1>20. Mirrors(q, c)
  BY <1>5, <1>7, <1>17, <1>18, <1>19 DEF Mirrors, Extends
<1> QED
  BY <1>2, <1>10, <1>11, <1>16, <1>20

\* The calls up to n whose ends the replay is sure to find: named by references,
\* or by blocks where the replay mirrors the parent.  The state ps hides what they
\* compressed.
Hidden(ps, n) ==
  \A c \in calls :
    (c <= n /\ (Plainly \/ ~(input[c].blockStart \/ input[c].blockEnd))) =>
      {Place(m) : m \in Direct(input[c], copied)} \subseteq Covered(ps)

Staged(ps, n, at) == Good(ps, at) /\ (Plainly => Mirrors(ps, n)) /\ Hidden(ps, n)

LEMMA StageStarts ==
  ASSUME Replays, NEW at \in Times
  PROVE  Staged(EmptyPrune, 0, at)
<1>1. \A c \in calls : c \in Nat /\ 1 <= c
  BY MsgNat DEF Replays, ForkTold
<1>2. Hidden(EmptyPrune, 0)
  BY <1>1 DEF Hidden
<1> QED
  BY <1>2, EmptyIsGood, MirrorsNone DEF Staged

LEMMA StageSkips ==
  ASSUME Replays, NEW at \in Times, NEW ps, NEW n \in Msg, n \notin calls, Staged(ps, n - 1, at)
  PROVE  Staged(ps, n, at)
<1>1. \A c \in calls : c \in Nat
  BY MsgNat DEF Replays, ForkTold
<1>2. n \in Nat
  BY MsgNat
<1>3. \A c \in calls : c <= n <=> c <= n - 1
  BY <1>1, <1>2
<1>4. Hidden(ps, n)
  BY <1>3 DEF Staged, Hidden
<1> QED
  BY <1>4, MirrorsOn DEF Staged

LEMMA StageCalls ==
  ASSUME Replays, NEW at \in Times, NEW ps, NEW n \in calls, Staged(ps, n - 1, at)
  PROVE  Staged(ReplayCall(ps, input[n], FALSE, at), n, at)
<1>1. copied \subseteq Msg /\ Good(ps, at) /\ \A c \in calls : c \in Nat
  BY MsgNat DEF Replays, Staged, ForkTold
<1>2. PICK i : i = input[n]
  OBVIOUS
<1>3. PICK q : q = ReplayCall(ps, i, FALSE, at)
  OBVIOUS
<1>4. Good(q, at) /\ Covered(ps) \subseteq Covered(q)
  BY <1>1, <1>3, ReplayCallKeeps, ReplayReveals
<1>5. /\ i.lo \in copied /\ i.hi \in copied /\ i.lo <= i.hi
      /\ ~i.blockStart => Resolved(ps, i.start, i.blockStart, FALSE) = {Place(i.lo)}
      /\ ~i.blockEnd => Resolved(ps, i.end, i.blockEnd, FALSE) = {Place(i.hi)}
  BY <1>2, CallEnds
<1>6. ASSUME Plainly
      PROVE  /\ Mirrors(q, n)
             /\ Resolved(ps, i.start, i.blockStart, FALSE) = {Place(i.lo)}
             /\ Resolved(ps, i.end, i.blockEnd, FALSE) = {Place(i.hi)}
  <2>1. Mirrors(ps, n - 1)
    BY <1>6 DEF Staged
  <2> QED
    BY <1>1, <1>2, <1>3, <1>6, <2>1, CallMirrored
<1>7. ASSUME Plainly \/ ~(i.blockStart \/ i.blockEnd)
      PROVE  {Place(m) : m \in Direct(i, copied)} \subseteq Covered(q)
  <2>1. /\ Resolved(ps, i.start, i.blockStart, FALSE) = {Place(i.lo)}
        /\ Resolved(ps, i.end, i.blockEnd, FALSE) = {Place(i.hi)}
    BY <1>5, <1>6, <1>7
  <2> QED
    BY <1>1, <1>3, <1>5, <2>1, CallHides
<1>8. Hidden(q, n)
  <2> SUFFICES ASSUME NEW c \in calls, c <= n,
                      Plainly \/ ~(input[c].blockStart \/ input[c].blockEnd)
               PROVE  {Place(m) : m \in Direct(input[c], copied)} \subseteq Covered(q)
    BY DEF Hidden
  <2>1. CASE c = n
    BY <1>2, <1>7, <2>1
  <2>2. CASE c # n
    <3>1. c <= n - 1
      BY <1>1, <2>2
    <3>2. {Place(m) : m \in Direct(input[c], copied)} \subseteq Covered(ps)
      BY <3>1 DEF Staged, Hidden
    <3> QED
      BY <1>4, <3>2
  <2> QED
    BY <2>1, <2>2
<1> QED
  BY <1>2, <1>3, <1>4, <1>6, <1>8 DEF Staged

LEMMA RebuiltHides ==
  ASSUME Replays, NEW at \in Times
  PROVE  Hidden(Rebuilt(calls, FALSE, at), NumMsgs)
<1>0. PICK subagent : subagent = FALSE
  OBVIOUS
<1>1. PICK after :
        /\ after = [n \in 0 .. NumMsgs |->
                      IF n = 0 THEN EmptyPrune
                      ELSE IF n \in calls
                           THEN ReplayCall(after[n - 1], input[n], subagent, at)
                           ELSE after[n - 1]]
        /\ Rebuilt(calls, subagent, at) = after[NumMsgs]
  BY RebuiltStages
<1> DEFINE Bad == {n \in 0 .. NumMsgs : ~Staged(after[n], n, at)}
<1>2. NumMsgs \in Nat
  BY NumMsgsAssumption
<1>3. ASSUME Bad # {}
      PROVE  FALSE
  <2>1. PICK n \in Bad : \A m \in Bad : n <= m
    <3>1. Bad \subseteq Nat
      BY <1>2
    <3> HIDE DEF Bad
    <3> QED
      BY <1>3, <3>1, NatMin
  <2>2. n \in 0 .. NumMsgs /\ ~Staged(after[n], n, at)
    OBVIOUS
  <2>3. CASE n = 0
    <3>1. after[0] = EmptyPrune
      BY <1>1, <1>2
    <3> QED
      BY <2>2, <2>3, <3>1, StageStarts
  <2>4. CASE n # 0
    <3>1. n - 1 \in 0 .. NumMsgs /\ ~(n <= n - 1) /\ n \in Msg
      BY <1>2, <2>2, <2>4 DEF Msg
    <3>2. Staged(after[n - 1], n - 1, at)
      BY <2>1, <3>1
    <3>3. after[n] = IF n \in calls THEN ReplayCall(after[n - 1], input[n], FALSE, at)
                     ELSE after[n - 1]
      BY <1>0, <1>1, <2>2, <2>4
    <3>4. CASE n \in calls
      <4>1. Staged(ReplayCall(after[n - 1], input[n], FALSE, at), n, at)
        BY <3>2, <3>4, StageCalls
      <4> QED
        BY <2>2, <3>3, <3>4, <4>1
    <3>5. CASE n \notin calls
      <4>1. Staged(after[n - 1], n, at)
        BY <3>1, <3>2, <3>5, StageSkips
      <4> QED
        BY <2>2, <3>3, <3>5, <4>1
    <3> QED
      BY <3>4, <3>5
  <2> QED
    BY <2>3, <2>4
<1>4. NumMsgs \in 0 .. NumMsgs
  BY <1>2
<1>5. Staged(after[NumMsgs], NumMsgs, at)
  BY <1>3, <1>4, Zenon
<1>6. Rebuilt(calls, FALSE, at) = after[NumMsgs]
  BY <1>0, <1>1
<1> QED
  BY <1>5, <1>6, Zenon DEF Staged

-----------------------------------------------------------------------------
(* What a replayed fork hides.                                             *)

\* A block whose call, and those of the blocks below it, are replayed.
Repeated(b) ==
  \A c \in {b} \cup ConsumedBelow(disk, b) :
    /\ made[c].call \in calls
    /\ (input[made[c].call].blockStart \/ input[made[c].call].blockEnd) => OffIds(disk) = {}

HidesAsMuch(ps) ==
  (SameRefs /\ \A b \in Ids(disk) : made[b].call # 0) =>
    \A b \in Ids(disk) \ OffIds(disk) : Repeated(b) =>
      {Place(m) : m \in disk.blocks[b].effective \cap copied} \subseteq Covered(ps)

LEMMA HidesMeans == ReplayHidesAsMuch <=> (how = "replayed" => HidesAsMuch(own))
BY DEF ReplayHidesAsMuch, HidesAsMuch, Repeated

LEMMA ReplayHides ==
  ASSUME ~ClockMayStepBack, IInv, Told, ForkTold, copied \subseteq Msg, NEW at \in Times
  PROVE  HidesAsMuch(Rebuilt(calls, FALSE, at))
<1>1. PICK ps : ps = Rebuilt(calls, FALSE, at)
  OBVIOUS
<1>2. SUFFICES ASSUME SameRefs, \A b \in Ids(disk) : made[b].call # 0,
                      NEW b \in Ids(disk), Repeated(b)
               PROVE  {Place(m) : m \in disk.blocks[b].effective \cap copied} \subseteq Covered(ps)
  BY <1>1 DEF HidesAsMuch
<1>3. /\ disk.blocks = prune.blocks /\ Ids(disk) = Ids(prune) /\ OffIds(disk) = OffIds(prune)
      /\ Sound(disk)
  BY DEF Told, IInv, Ids, OffIds, Off
<1>4. Replays
  BY <1>2, <1>3 DEF Replays
<1>5. Hidden(ps, NumMsgs)
  BY <1>1, <1>4, RebuiltHides
<1> DEFINE chain == {b} \cup ConsumedBelow(disk, b)
           shown(x) == \E m \in disk.blocks[x].effective \cap copied : Place(m) \notin Covered(ps)
           Bad == {x \in chain : shown(x)}
<1>6. chain \subseteq Ids(disk) /\ chain \subseteq Nat
  <2>1. ConsumedBelow(disk, b) \subseteq Ids(disk)
    BY <1>3, BelowIsWithin
  <2>2. Ids(disk) \subseteq Nat
    BY <1>3, TypedFields DEF Sound
  <2> QED
    BY <2>1, <2>2
<1>7. ASSUME NEW x \in chain
      PROVE  {Place(m) : m \in Direct(input[made[x].call], copied)} \subseteq Covered(ps)
  <2> DEFINE c == made[x].call
  <2>1. c \in calls /\ (Plainly \/ ~(input[c].blockStart \/ input[c].blockEnd))
    BY <1>2, <1>3 DEF Repeated, Plainly
  <2>2. c <= NumMsgs
    <3>1. c \in Msg
      BY <1>4, <2>1, CallEnds
    <3> QED
      BY <3>1, NumMsgsAssumption DEF Msg
  <2> QED
    BY <1>5, <2>1, <2>2 DEF Hidden
<1>8. ASSUME NEW x \in chain, NEW y \in disk.blocks[x].consumed
      PROVE  y \in chain /\ y < x
  <2> DEFINE next == [d \in Ids(disk) |-> disk.blocks[d].consumed]
  <2>1. x \in Ids(disk) /\ y \in Ids(disk) /\ y < x
    BY <1>3, <1>6 DEF Sound, Lineage
  <2>2. DOMAIN next = Ids(disk) /\ next[x] = disk.blocks[x].consumed
        /\ ConsumedBelow(disk, b) = Closure(next, disk.blocks[b].consumed)
    BY <2>1 DEF ConsumedBelow
  <2> HIDE DEF next
  <2>3. CASE x = b
    BY <2>1, <2>2, <2>3, ClosureSeeds
  <2>4. CASE x \in ConsumedBelow(disk, b)
    BY <2>1, <2>2, <2>4, ClosureSteps
  <2> QED
    BY <2>1, <2>3, <2>4
<1>9. ASSUME Bad # {}
      PROVE  FALSE
  <2>1. PICK x \in Bad : \A y \in Bad : x <= y
    <3>1. Bad \subseteq Nat
      BY <1>6
    <3> HIDE DEF Bad
    <3> QED
      BY <1>9, <3>1, NatMin
  <2>2. x \in chain /\ x \in Ids(prune) /\ shown(x)
    BY <1>3, <1>6
  <2>3. PICK m \in disk.blocks[x].effective \cap copied : Place(m) \notin Covered(ps)
    BY <2>2
  <2>4. m \in Direct(input[made[x].call], Msg) \/ m \in EffectiveOf(prune, prune.blocks[x].consumed)
    <3>1. BlockTold(x)
      BY <1>2, <1>3, <2>2 DEF Told
    <3> QED
      BY <1>3, <2>3, <3>1 DEF BlockTold, MadeBy
  <2>5. CASE m \in Direct(input[made[x].call], Msg)
    <3>1. m \in Direct(input[made[x].call], copied)
      BY <2>3, <2>5 DEF Direct, Within
    <3> QED
      BY <1>7, <2>2, <2>3, <3>1
  <2>6. CASE m \in EffectiveOf(prune, prune.blocks[x].consumed)
    <3>1. PICK y \in disk.blocks[x].consumed : m \in disk.blocks[y].effective
      BY <1>3, <2>6 DEF EffectiveOf
    <3>2. y \in chain /\ y < x
      BY <1>8, <2>2
    <3>3. y \in Bad
      BY <2>3, <3>1, <3>2
    <3>4. x \in Nat /\ y \in Nat
      BY <1>6, <2>2, <3>2
    <3> QED
      BY <2>1, <3>2, <3>3, <3>4
  <2> QED
    BY <2>4, <2>5, <2>6
<1>10. ~shown(b)
  BY <1>9
<1> QED
  BY <1>10

LEMMA SameHides ==
  ASSUME UNCHANGED <<parent, copied, calls>>, how' = "replayed" => HidesAsMuch(own')
  PROVE  ReplayHidesAsMuch'
<1>1. UNCHANGED <<disk, refs, made, input, copied, calls>>
  BY DEF parent
<1>2. \A m : Place(m)' = Place(m)
  BY <1>1 DEF Place
<1>3. SameRefs' <=> SameRefs
  <2>1. ForkMsgs' = ForkMsgs /\ \A k : Origin(k)' = Origin(k)
    BY <1>1 DEF ForkMsgs, Origin, Place
  <2> QED
    BY <1>1, <2>1 DEF SameRefs
<1>4. \A b : Repeated(b)' <=> Repeated(b)
  BY <1>1 DEF Repeated
<1>5. ASSUME HidesAsMuch(own')
      PROVE  HidesAsMuch(own)'
  BY <1>1, <1>2, <1>3, <1>4, <1>5 DEF HidesAsMuch
<1>6. ReplayHidesAsMuch' <=> (how' = "replayed" => HidesAsMuch(own)')
  BY DEF ReplayHidesAsMuch, HidesAsMuch, Repeated
<1> QED
  BY <1>5, <1>6

\* The parent remembers each of its calls, and a fork has, of what it copied, what
\* the calls need: the inductive invariant of the replay.
THEOREM CallsAreTold == ForkSpec => [](Told /\ ForkTold)
<1>1. ForkInit => Told /\ ForkTold
  <2> SUFFICES ASSUME ForkInit PROVE Told /\ ForkTold
    OBVIOUS
  <2>1. calls = {} /\ Ids(prune) = {}
    BY DEF ForkInit, Init, EmptyPrune, Ids
  <2> QED
    BY <2>1, InitTold DEF ForkTold
<1>2. ForkIInv /\ Told /\ ForkTold /\ [ForkNext]_<<parent, forked>> => Told' /\ ForkTold'
  <2> SUFFICES ASSUME ForkIInv, Told, ForkTold, [ForkNext]_<<parent, forked>>
               PROVE  Told' /\ ForkTold'
    OBVIOUS
  <2>1. IInv
    BY DEF ForkIInv
  <2>2. CASE how = "none" /\ (Call \/ Work \/ Talk) /\ UNCHANGED forked
    <3>1. Told' /\ Remembers
      BY <2>1, <2>2, CallTells, WorkTold, TalkTold
    <3>2. UNCHANGED <<copied, calls>>
      BY <2>2 DEF forked
    <3> QED
      BY <3>1, <3>2, ParentTold
  <2>3. CASE Fork /\ UNCHANGED parent
    BY <2>3, SameTold, ForkTells
  <2>4. CASE Open /\ UNCHANGED parent
    <3>1. UNCHANGED <<copied, calls>>
      BY <2>4 DEF Open
    <3> QED
      BY <2>4, <3>1, SameTold, SameForkTold
  <2>5. CASE UNCHANGED <<parent, forked>>
    <3>1. UNCHANGED parent /\ UNCHANGED <<copied, calls>>
      BY <2>5 DEF forked
    <3> QED
      BY <3>1, SameTold, SameForkTold
  <2> QED
    BY <2>2, <2>3, <2>4, <2>5 DEF ForkNext
<1> QED
  BY <1>1, <1>2, ForkInductive, PTL DEF ForkSpec

\* While the clock is steady, the replay hides the copy of every message under a
\* block made in a copied call out of such blocks, as long as references are the
\* same, nothing was merged, and no call names a block where something was
\* decompressed: call after call, the replay finds the same ends, takes in the
\* same blocks and leaves the same ones active (lib/state/rebuild.ts,
\* rebuildCompressionState, "the primary goal is met").
THEOREM ReplayHidesEnough ==
  ASSUME ~ClockMayStepBack
  PROVE  ForkSpec => []ReplayHidesAsMuch
<1>1. ForkInit => ReplayHidesAsMuch
  BY DEF ForkInit, ReplayHidesAsMuch
<1>2. ReplayHidesAsMuch /\ ForkIInv /\ Told /\ ForkTold /\ [ForkNext]_<<parent, forked>>
        => ReplayHidesAsMuch'
  <2> SUFFICES ASSUME ReplayHidesAsMuch, ForkIInv, Told, ForkTold,
                      [ForkNext]_<<parent, forked>>
               PROVE  ReplayHidesAsMuch'
    OBVIOUS
  <2>1. CASE how' # "replayed"
    BY <2>1 DEF ReplayHidesAsMuch
  <2>2. CASE Open /\ UNCHANGED parent /\ how' = "replayed"
    <3>1. UNCHANGED <<copied, calls>> /\ IInv /\ copied \subseteq Msg
      BY <2>2 DEF Open, ForkIInv
    <3>2. \E at \in Times : own' = Rebuilt(calls, FALSE, at)
      <4>1. PICK child \in BOOLEAN, file \in BOOLEAN, inputs \in BOOLEAN, at \in Times :
              IF child /\ file /\ history # {} /\ Restorable
              THEN own' = Restored /\ how' = "restored"
              ELSE /\ own' = Rebuilt(IF inputs THEN calls ELSE {},
                                     child /\ ~(file /\ history # {}), at)
                   /\ how' = IF ~inputs THEN "empty"
                             ELSE IF child /\ ~(file /\ history # {})
                                  THEN "replayed as a subagent" ELSE "replayed"
        BY <2>2 DEF Open
      <4>2. /\ own' = Rebuilt(IF inputs THEN calls ELSE {},
                              child /\ ~(file /\ history # {}), at)
            /\ inputs /\ ~(child /\ ~(file /\ history # {}))
        BY <2>2, <4>1
      <4>3. (IF inputs THEN calls ELSE {}) = calls /\ (child /\ ~(file /\ history # {})) = FALSE
        BY <4>2
      <4>4. own' = Rebuilt(calls, FALSE, at)
        BY <4>2, <4>3
      <4> QED
        BY <4>4
    <3>3. HidesAsMuch(own')
      BY <3>1, <3>2, ReplayHides
    <3> QED
      BY <2>2, <3>1, <3>3, SameHides
  <2>3. CASE UNCHANGED <<parent, forked>>
    <3>1. UNCHANGED <<parent, copied, calls>> /\ UNCHANGED <<own, how>>
      BY <2>3 DEF forked
    <3>2. how' = "replayed" => HidesAsMuch(own')
      BY <3>1, HidesMeans
    <3> QED
      BY <3>1, <3>2, SameHides
  <2>4. CASE how' = how /\ how = "none"
    BY <2>4 DEF ReplayHidesAsMuch
  <2>5. CASE Fork
    <3>1. how' = how /\ copied = {}
      BY <2>5 DEF Fork
    <3>2. how' = "none"
      BY <3>1 DEF ForkIInv
    <3> QED
      BY <2>1, <3>2
  <2> QED
    BY <2>1, <2>2, <2>3, <2>4, <2>5 DEF ForkNext, forked
<1> QED
  BY <1>1, <1>2, CallsAreTold, ForkInductive, PTL DEF ForkSpec
=============================================================================
