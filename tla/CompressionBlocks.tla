------------------------- MODULE CompressionBlocks -------------------------
(***************************************************************************)
(* The compression blocks of one session: the part of the state the source *)
(* calls PruneMessagesState, and the pure functions that change it.        *)
(*                                                                         *)
(*   Apply       lib/compress/state.ts        applyCompressionState        *)
(*   Sync        lib/messages/sync.ts         syncCompressionBlocks        *)
(*   Deactivate  lib/compress/decompress-logic.ts                          *)
(*                                            deactivateCompressionTarget  *)
(*   Merge       lib/gc/merge.ts              mergeMarkedBlocks            *)
(*   Load        lib/state/utils.ts           loadPruneMessagesState       *)
(*                                                                         *)
(* A state is a record ps:                                                 *)
(*   blocks     blocksById, a function from the block ids in use           *)
(*   activeIds  activeBlockIds, the index of the blocks that are active    *)
(*   all        byMessageId[m].allBlockIds ({}: m has no entry)            *)
(*   act        byMessageId[m].activeBlockIds                              *)
(*   next       nextBlockId                                                *)
(*   verified   membershipsVerified                                        *)
(*   synced     structureVersion = lastSyncedStructureVersion              *)
(*                                                                         *)
(* A message is a number, its place in the conversation.  The map          *)
(* activeByAnchorMessageId is left out: the source keeps it up to date and *)
(* saves it, but never reads an entry of it.                               *)
(***************************************************************************)
EXTENDS Integers, FiniteSets

CONSTANTS
  NumMsgs,             \* messages a conversation may have
  PromotionThreshold,  \* gc.promotionThreshold
  Times                \* values of Date.now() that createdAt may take

ASSUME NumMsgsAssumption == NumMsgs \in Nat
ASSUME ThresholdAssumption == PromotionThreshold \in Nat \ {0}
ASSUME TimesAssumption == Times \subseteq Nat

Msg == 1 .. NumMsgs
Tier == 1 .. 3

Block ==
  [active : BOOLEAN, byUser : BOOLEAN, byUserDeep : BOOLEAN,
   tier : Tier, consumed : SUBSET Nat, parents : SUBSET Nat,
   effective : SUBSET Msg, anchor : Msg, createdAt : Times,
   age : 0 .. PromotionThreshold, old : BOOLEAN, long : BOOLEAN,
   byTool : BOOLEAN]

PruneState(next) ==
  [blocks : [1 .. (next - 1) -> Block], activeIds : SUBSET (1 .. (next - 1)),
   all : [Msg -> SUBSET (1 .. (next - 1))], act : [Msg -> SUBSET (1 .. (next - 1))],
   next : {next}, verified : BOOLEAN, synced : BOOLEAN]

EmptyPrune ==
  [blocks |-> [b \in 1 .. 0 |-> {}], activeIds |-> {},
   all |-> [m \in Msg |-> {}], act |-> [m \in Msg |-> {}],
   next |-> 1, verified |-> FALSE, synced |-> FALSE]

-----------------------------------------------------------------------------
Ids(ps) == DOMAIN ps.blocks

Off(ps, b) == ps.blocks[b].byUser \/ ps.blocks[b].byUserDeep

OffIds(ps) == {b \in Ids(ps) : Off(ps, b)}

EffectiveOf(ps, S) == UNION {ps.blocks[b].effective : b \in S}

\* The messages some active block stands for.
Covered(ps) == EffectiveOf(ps, {b \in Ids(ps) : ps.blocks[b].active})

HasEntry(ps, m) == ps.all[m] # {}

IsCompressed(ps, m) == ps.act[m] # {}

\* The order of the replay: by createdAt, then by blockId.
Earlier(ps, b, c) ==
  \/ ps.blocks[b].createdAt < ps.blocks[c].createdAt
  \/ /\ ps.blocks[b].createdAt = ps.blocks[c].createdAt
     /\ b < c

\* The smallest set that holds S and is closed under next.
Closure(next, S) ==
  {b \in DOMAIN next :
     \A T \in SUBSET DOMAIN next :
       (/\ S \cap DOMAIN next \subseteq T
        /\ \A c \in T : next[c] \cap DOMAIN next \subseteq T) => b \in T}

\* Faults of ConsumedBelow: none; every older block.
ConsumedNone(ps, b) == {}
AllOlder(ps, b) == {c \in Ids(ps) : c < b}

ConsumedBelow(ps, b) ==
  Closure([c \in Ids(ps) |-> ps.blocks[c].consumed], ps.blocks[b].consumed)

Ancestors(ps, b) ==
  Closure([c \in Ids(ps) |-> ps.blocks[c].parents], ps.blocks[b].parents)

-----------------------------------------------------------------------------
(* applyCompressionState.  A plan is what prepareExecutableRangePlans and  *)
(* the compress tool hand to it.                                           *)

Plan ==
  [anchor : Msg, msgs : SUBSET Msg, consumed : SUBSET Nat,
   byBlock : BOOLEAN, long : BOOLEAN, at : Times]

LowestTier(ps, S) ==
  CHOOSE t \in Tier :
    /\ S = {} => t = 1
    /\ S # {} => /\ \E b \in S : ps.blocks[b].tier = t
                 /\ \A b \in S : ps.blocks[b].tier >= t

TargetTier(ps, plan) ==
  IF plan.byBlock THEN LowestTier(ps, plan.consumed) ELSE 1

OutputTier(ps, plan) ==
  IF ~plan.byBlock THEN 1
  ELSE IF LowestTier(ps, plan.consumed) = 3 THEN 3
  ELSE LowestTier(ps, plan.consumed) + 1

\* The consumed blocks of the target tier: only these are absorbed.
Absorbed(ps, plan) ==
  {c \in plan.consumed \cap Ids(ps) : ps.blocks[c].tier = TargetTier(ps, plan)}

Fresh(tier, consumed, effective, anchor, at) ==
  [active |-> TRUE, byUser |-> FALSE, byUserDeep |-> FALSE,
   tier |-> tier, consumed |-> consumed, parents |-> {},
   effective |-> effective, anchor |-> anchor, createdAt |-> at,
   age |-> 0, old |-> FALSE, long |-> FALSE, byTool |-> FALSE]

NewBlockOver(ps, plan, consumed, effective) ==
  [Fresh(OutputTier(ps, plan), consumed, effective, plan.anchor, plan.at)
     EXCEPT !.long = plan.long, !.byTool = TRUE]

\* A fault of NewBlock: it forgets the messages of the blocks it absorbs.
NewBlockOfDirect(ps, plan) ==
  NewBlockOver(ps, plan, Absorbed(ps, plan), plan.msgs)

NewBlock(ps, plan) ==
  NewBlockOver(ps, plan, Absorbed(ps, plan),
               plan.msgs \cup EffectiveOf(ps, Absorbed(ps, plan)))

\* Faults of Retired: the parent is not noted; the block stays active.
RetiredAlone(block, by) == [block EXCEPT !.active = FALSE]
RetiredActive(block, by) == [block EXCEPT !.parents = @ \cup {by}]

Retired(block, by) ==
  [block EXCEPT !.active = FALSE, !.parents = @ \cup {by}]

\* A block that outlives a compression: survivedCount, and its promotion.
Aged(block) ==
  LET n == IF block.age < PromotionThreshold THEN block.age + 1 ELSE block.age
  IN [block EXCEPT !.age = n, !.old = @ \/ n = PromotionThreshold]

Apply(ps, plan) ==
  LET b == ps.next
      new == NewBlock(ps, plan)
      absorbed == Absorbed(ps, plan)
      retired == {c \in absorbed : ps.blocks[c].active}
      member == plan.msgs \cup {m \in new.effective : HasEntry(ps, m)}
      with(S, m) == IF m \in member THEN S \cup {b} ELSE S
  IN [blocks |->
        [c \in Ids(ps) \cup {b} |->
           IF c = b THEN new
           ELSE IF c \in retired THEN Retired(ps.blocks[c], b)
           ELSE IF ps.blocks[c].active /\ c \notin plan.consumed
                THEN Aged(ps.blocks[c]) ELSE ps.blocks[c]],
      activeIds |-> (ps.activeIds \cup {b}) \ retired,
      all |-> [m \in Msg |-> with(ps.all[m], m)],
      act |-> [m \in Msg |->
                 with(ps.act[m] \ {c \in absorbed : m \in ps.blocks[c].effective}, m)],
      next |-> b + 1, verified |-> FALSE, synced |-> FALSE]

-----------------------------------------------------------------------------
(* syncCompressionBlocks.                                                  *)

\* Faults of Live: a block once consumed stays dead when the consumer is
\* decompressed; a consumer kills blocks replayed after it.
LiveOnce(ps) ==
  {b \in Ids(ps) : ~Off(ps, b) /\ \A c \in Ids(ps) : b \notin ps.blocks[c].consumed}
LiveUnordered(ps) ==
  {b \in Ids(ps) :
     ~Off(ps, b) /\ \A c \in Ids(ps) : Off(ps, c) \/ b \notin ps.blocks[c].consumed}

\* What the chronological replay leaves active: a block the user has not
\* decompressed, unless a block replayed after it has consumed it.
Live(ps) ==
  {b \in Ids(ps) :
     /\ ~Off(ps, b)
     /\ \A c \in Ids(ps) :
          (~Off(ps, c) /\ b \in ps.blocks[c].consumed) => ~Earlier(ps, b, c)}

EmptySync(ps) ==
  IF ps.verified THEN ps
  ELSE [ps EXCEPT !.activeIds = {}, !.act = [m \in Msg |-> {}], !.verified = TRUE]

Replayed(ps, live) ==
  LET rebuilt == ~ps.verified \/ ps.activeIds # live
  IN [ps EXCEPT
        !.blocks = [b \in Ids(ps) |-> [ps.blocks[b] EXCEPT !.active = b \in live]],
        !.activeIds = live,
        !.act = IF rebuilt THEN [m \in Msg |-> ps.all[m] \cap live] ELSE @,
        !.verified = TRUE,
        !.synced = TRUE]

\* A fault of FullSync: the replay revives no block.
FullSyncOfActive(ps) == Replayed(ps, Live(ps) \cap {b \in Ids(ps) : ps.blocks[b].active})

FullSync(ps) == Replayed(ps, Live(ps))

\* While structureVersion is the one last synced, the replay is skipped.
Sync(ps) ==
  IF Ids(ps) = {} THEN EmptySync(ps)
  ELSE IF ps.synced THEN ps
  ELSE FullSync(ps)

-----------------------------------------------------------------------------
(* deactivateCompressionTarget, for a set of targets.                      *)

Deactivate(ps, targets, full) ==
  LET deep == IF full THEN UNION {ConsumedBelow(ps, b) : b \in targets} ELSE {}
  IN [ps EXCEPT
        !.blocks = [b \in Ids(ps) |->
                      [ps.blocks[b] EXCEPT !.active = @ /\ b \notin targets,
                                           !.byUser = @ \/ b \in targets,
                                           !.byUserDeep = @ \/ b \in deep]],
        !.verified = FALSE,
        !.synced = @ /\ targets = {}]

-----------------------------------------------------------------------------
(* runBatchCleanup and mergeMarkedBlocks.                                  *)

\* collectActiveOldGenBlocks.
Mergeable(ps) ==
  {b \in ps.activeIds : ps.blocks[b].active /\ (ps.blocks[b].old \/ ps.blocks[b].long)}

Oldest(S) == CHOOSE b \in S : \A c \in S : b <= c

MergedBlock(ps, S, at) ==
  [Fresh(1, S, EffectiveOf(ps, S), ps.blocks[Oldest(S)].anchor, at) EXCEPT !.old = TRUE]

Merge(ps, S, at) ==
  LET b == ps.next
      new == MergedBlock(ps, S, at)
      member == {m \in new.effective : HasEntry(ps, m)}
  IN [blocks |->
        [c \in Ids(ps) \cup {b} |->
           IF c = b THEN new
           ELSE IF c \in S THEN Retired(ps.blocks[c], b) ELSE ps.blocks[c]],
      activeIds |-> (ps.activeIds \ S) \cup {b},
      all |-> [m \in Msg |-> IF m \in member THEN ps.all[m] \cup {b} ELSE ps.all[m]],
      act |-> [m \in Msg |->
                 IF m \in member THEN (ps.act[m] \ S) \cup {b} ELSE ps.act[m]],
      next |-> b + 1, verified |-> FALSE, synced |-> FALSE]

-----------------------------------------------------------------------------
(* serializePruneMessagesState and loadPruneMessagesState.                 *)

\* What is written: the two version marks are not.
Saved(ps) == [ps EXCEPT !.verified = FALSE, !.synced = FALSE]

\* A fault of Load: whatever the user has not decompressed is active.
LoadAllOpen(ps) ==
  [ps EXCEPT !.activeIds = Ids(ps) \ OffIds(ps), !.verified = FALSE, !.synced = FALSE]

Load(ps) ==
  [ps EXCEPT !.activeIds = {b \in Ids(ps) : ps.blocks[b].active},
             !.verified = FALSE, !.synced = FALSE]
-----------------------------------------------------------------------------
(* What every operation above keeps of a state.                            *)

Typed(ps) == ps \in PruneState(ps.next) /\ ps.next \in Nat \ {0}

\* activeBlockIds lists the active blocks; byMessageId lists, for each message,
\* the blocks that hold it and, of these, the active ones.
Indexed(ps) ==
  /\ ps.activeIds = {b \in Ids(ps) : ps.blocks[b].active}
  /\ \A m \in Msg :
       /\ ps.all[m] = {b \in Ids(ps) : m \in ps.blocks[b].effective}
       /\ ps.act[m] = ps.all[m] \cap ps.activeIds

\* A block consumes older blocks only, stands for all they stood for, and is
\* one of their parents.
Lineage(ps) ==
  \A b \in Ids(ps) : \A c \in ps.blocks[b].consumed :
    /\ c \in Ids(ps) /\ c < b
    /\ ps.blocks[c].effective \subseteq ps.blocks[b].effective
    /\ b \in ps.blocks[c].parents

\* A decompressed block is not active; one that is neither was consumed by a
\* block that is not decompressed.
Retained(ps) ==
  \A b \in Ids(ps) :
    /\ ps.blocks[b].active => ~Off(ps, b)
    /\ \/ ps.blocks[b].active \/ Off(ps, b)
       \/ \E c \in Ids(ps) : ~Off(ps, c) /\ b \in ps.blocks[c].consumed

FixedPoint(ps) == Live(ps) = ps.activeIds

Sound(ps) ==
  /\ Typed(ps) /\ Indexed(ps) /\ Lineage(ps) /\ Retained(ps)
  /\ ps.synced => FixedPoint(ps)
=============================================================================
