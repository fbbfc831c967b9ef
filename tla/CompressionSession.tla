------------------------- MODULE CompressionSession -------------------------
(***************************************************************************)
(* One session of the plugin: the live compression state, its copy on      *)
(* disk, and the messages the host lists.  Every action is one guarded     *)
(* operation (lib/state/state.ts withSessionMutation), so it is atomic:    *)
(* the compress and decompress tools, the message transform, and a restart *)
(* of the process.  The host appends and removes messages at any time.     *)
(***************************************************************************)
EXTENDS CompressionBlocks

CONSTANTS
  MaxBlocks,         \* bound on the blocks ever created
  Users,             \* the messages whose role is user
  ProtectedTools,    \* the messages that hold a protected tool output
  PreserveRecent,    \* compress.preserveRecentMessages
  LongSummaries,     \* may a summary exceed gc.maxOldGenSummaryLength?
  FencedHost,        \* TRUE: V2 (commit, then save); FALSE: V1 (save, or roll back)
  ClockMayStepBack   \* may Date.now() run backwards between two compressions?

ASSUME SessionAssumption ==
  /\ MaxBlocks \in Nat
  /\ Users \subseteq Msg /\ ProtectedTools \subseteq Msg
  /\ PreserveRecent \in Nat
  /\ LongSummaries \subseteq BOOLEAN
  /\ FencedHost \in BOOLEAN /\ ClockMayStepBack \in BOOLEAN

VARIABLES
  prune,    \* state.prune.messages
  disk,     \* the copy the last successful save left in the session file
  history,  \* the messages the host lists
  arrived   \* how many messages there have been

vars == <<prune, disk, history, arrived>>

TypeOK ==
  /\ Typed(prune) /\ Typed(disk)
  /\ history \subseteq Msg
  /\ arrived \in 0 .. NumMsgs

Init ==
  /\ prune = EmptyPrune
  /\ disk = EmptyPrune
  /\ history = {}
  /\ arrived = 0

-----------------------------------------------------------------------------
(* From the arguments of a compress call to its plans.                     *)

\* Messages that were never in a block, which the two filters call visible.
NeverCompressed == {m \in history : ~HasEntry(prune, m)}

\* filterLastUserMessage.
LastUser ==
  {m \in NeverCompressed \cap Users :
     \A k \in NeverCompressed \cap Users : k <= m}

\* filterProtectedRecentMessages.
Recent ==
  {m \in NeverCompressed :
     Cardinality({k \in NeverCompressed : k > m}) < PreserveRecent}

Between(lo, hi) == {m \in history : lo <= m /\ m <= hi}

\* What is left of a range after the three filters.
Selected(lo, hi) == Between(lo, hi) \ (ProtectedTools \cup LastUser \cup Recent)

\* resolveSelection's requiredBlockIds: the active blocks anchored in range.
AnchoredIn(S) ==
  {b \in Ids(prune) : prune.blocks[b].active /\ prune.blocks[b].anchor \in S}

Now(at) ==
  ClockMayStepBack \/ \A b \in Ids(prune) : prune.blocks[b].createdAt <= at

\* A boundary is a block reference only where an active block is anchored.
BoundaryKinds(lo, hi) == IF AnchoredIn({lo, hi}) = {} THEN {FALSE} ELSE BOOLEAN

PlansOver(lo, hi) ==
  {[anchor |-> lo,
    msgs |-> Selected(lo, hi),
    consumed |-> AnchoredIn(Between(lo, hi)),
    byBlock |-> byBlock, long |-> long, at |-> at] :
     byBlock \in BoundaryKinds(lo, hi), long \in LongSummaries,
     at \in {t \in Times : Now(t)}}

\* identifyPhantomPlans: no message is newly hidden, and the plan does not
\* gather at least two blocks of one tier.
Phantom(plan) ==
  /\ \A m \in plan.msgs \cup EffectiveOf(prune, plan.consumed) : IsCompressed(prune, m)
  /\ ~ /\ Cardinality(plan.consumed) >= 2
       /\ Cardinality({prune.blocks[b].tier : b \in plan.consumed}) = 1

Executable(plan) == plan.msgs # {} /\ ~Phantom(plan)

-----------------------------------------------------------------------------
(* How a tool call ends.  A save that fails after a V2 commit leaves the   *)
(* file as it was; a V1 compress whose save fails is rolled back, which is *)
(* no step at all.                                                         *)

MaySave(ps) == disk' \in {Saved(ps), disk}

Commit(ps) ==
  /\ prune' = ps
  /\ IF FencedHost THEN MaySave(ps) ELSE disk' = Saved(ps)
  /\ UNCHANGED <<history, arrived>>

CompressRange ==
  \E lo, hi \in history :
    /\ lo <= hi
    /\ \E plan \in PlansOver(lo, hi) :
         /\ Executable(plan)
         /\ prune.next <= MaxBlocks
         /\ Commit(Apply(prune, plan))

\* A batch of two ranges that do not overlap, in either order.  When one is
\* dropped as a phantom, the call is a CompressRange.
CompressBatch ==
  \E lo1, hi1, lo2, hi2 \in history :
    /\ lo1 <= hi1 /\ lo2 <= hi2 /\ (hi1 < lo2 \/ hi2 < lo1)
    /\ \E first \in PlansOver(lo1, hi1), second \in PlansOver(lo2, hi2) :
         /\ Executable(first) /\ Executable(second)
         /\ first.at <= second.at \/ ClockMayStepBack
         /\ prune.next < MaxBlocks
         /\ Commit(Apply(Apply(prune, first), second))

-----------------------------------------------------------------------------
(* The decompress tool.                                                    *)

DecompressTargets(targets, full) ==
  LET ps == Sync(Deactivate(prune, targets, full))
  IN /\ prune' = ps
     /\ MaySave(ps)
     /\ UNCHANGED <<history, arrived>>

\* Block mode: an inactive block is refused when an ancestor of it is active.
DecompressBlock(b, full) ==
  /\ b \in Ids(prune)
  /\ \/ prune.blocks[b].active
     \/ \A c \in Ancestors(prune, b) : ~prune.blocks[c].active
  /\ DecompressTargets({b}, full)

\* Range mode: every active block that touches the range.
DecompressRange(lo, hi, full) ==
  LET targets == {b \in Ids(prune) :
                    /\ prune.blocks[b].active
                    /\ prune.blocks[b].effective \cap Between(lo, hi) # {}}
  IN /\ targets # {}
     /\ DecompressTargets(targets, full)

Decompress ==
  \E full \in BOOLEAN :
    \/ \E b \in Ids(prune) : DecompressBlock(b, full)
    \/ \E lo, hi \in history : lo <= hi /\ DecompressRange(lo, hi, full)

-----------------------------------------------------------------------------
(* The message transform: syncCompressionBlocks, then runBatchCleanup when *)
(* the context is full.  A save may or may not be asked for (the nudges    *)
(* ask for one too), and one that is rejected is only logged.              *)

Transform ==
  \E contextFull \in BOOLEAN, at \in {t \in Times : Now(t)} :
    LET synced == Sync(prune)
        merge == contextFull /\ Cardinality(Mergeable(synced)) >= 2
        ps == IF merge THEN Merge(synced, Mergeable(synced), at) ELSE synced
    IN /\ merge => prune.next <= MaxBlocks
       /\ prune' = ps
       /\ MaySave(ps)
       /\ UNCHANGED <<history, arrived>>

\* The process ends at any time; the session is loaded from its file, and
\* saved again once it is.
Restart ==
  /\ prune' = Load(disk)
  /\ MaySave(prune')
  /\ UNCHANGED <<history, arrived>>

-----------------------------------------------------------------------------
(* The host.                                                               *)

AddMessage ==
  /\ arrived < NumMsgs
  /\ arrived' = arrived + 1
  /\ history' = history \cup {arrived + 1}
  /\ UNCHANGED <<prune, disk>>

\* Compaction or a revert by the host.
RemoveMessage ==
  \E m \in history :
    /\ history' = history \ {m}
    /\ UNCHANGED <<prune, disk, arrived>>

Next ==
  \/ CompressRange \/ CompressBatch \/ Decompress \/ Transform \/ Restart
  \/ AddMessage \/ RemoveMessage

Spec == Init /\ [][Next]_vars

-----------------------------------------------------------------------------
(* Safety invariants.                                                      *)

\* The indexes of the live state, and of the file, say what the blocks say.
\* applyCompressionState and mergeMarkedBlocks edit all three by hand; every
\* reader (phantom check, prune, status) trusts them, and a crash after any
\* save leaves a session that needs no repair.
IndexesAgree == Indexed(prune) /\ Indexed(disk)

\* The fast path of syncCompressionBlocks is exact: whenever it would skip the
\* replay, the replay would change nothing (lib/messages/sync.ts, "liveness is
\* already at its fixed point").
FastPathExact == prune.synced => FixedPoint(prune)

\* The blocks that compress, merge, decompress and a reload leave active are
\* those the replay of the whole history would leave active, as long as the
\* clock does not step back: no block dies or comes back at the next transform.
AtFixpoint == FixedPoint(prune)

\* A message a block stands for stays under an active block until the user
\* decompresses that block: absorbing, merging, aging, crashing and replaying
\* never drop a summary and leave its messages to nobody.
NoSummaryLost ==
  \A b \in Ids(prune) \ OffIds(prune) :
    prune.blocks[b].effective \subseteq Covered(prune)

\* A block that is neither active nor decompressed is nested in an active one,
\* found through parentBlockIds: so the decompress tool refuses it and names
\* the block to open first (findActiveParentBlockId).
NestedIsRefused ==
  \A b \in Ids(prune) \ OffIds(prune) :
    prune.blocks[b].active \/ \E c \in Ancestors(prune, b) : prune.blocks[c].active

\* A message with a protected tool output (the compress calls always are) is
\* under no block, whatever ranges were compressed around it, merged or
\* absorbed (README.md, Protected tools).
ProtectedToolsStay ==
  \A b \in Ids(prune) : prune.blocks[b].effective \cap ProtectedTools = {}

\* The inductive invariant: the live state and the file are sound, and at the
\* fixed point of the replay when the clock does not step back.
IInv ==
  /\ TypeOK
  /\ Sound(prune) /\ Sound(disk)
  /\ ~ClockMayStepBack => FixedPoint(prune) /\ FixedPoint(disk)

-----------------------------------------------------------------------------
(* Action properties.                                                      *)

\* The messages a step shows again.
Revealed == Covered(prune) \ Covered(prune')

\* Only a decompress, or a crash that loses what was not saved, shows a
\* compressed message again: a transform, a merge or a compression never does.
OnlyDecompressReveals == [][Revealed # {} => Decompress \/ Restart]_vars

\* Decompressing a block shows messages of that block only.
RevealsOnlyTarget ==
  [][\A m \in Revealed, b \in Ids(prune), full \in BOOLEAN :
       DecompressBlock(b, full) => m \in prune.blocks[b].effective]_vars

\* decompress without full restores one tier: of an active block it shows what
\* the block captured itself, and what it took from a block the user had
\* opened before; the summaries it had absorbed stand in for the rest.
SoftRestoresOneTier ==
  [][\A m \in Revealed, b \in prune.activeIds :
       DecompressBlock(b, FALSE) =>
         m \notin EffectiveOf(prune, prune.blocks[b].consumed \ OffIds(prune))]_vars

\* decompress with full goes down to the messages: no block comes alive.
FullRevivesNothing ==
  [][prune'.activeIds \ prune.activeIds # {} =>
       \A b \in Ids(prune) : ~DecompressBlock(b, TRUE)]_vars
=============================================================================
