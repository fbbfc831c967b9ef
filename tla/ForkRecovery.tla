---------------------------- MODULE ForkRecovery ----------------------------
(***************************************************************************)
(* A session without a file of its own, most often a fork: a copy of the   *)
(* first messages of another session, under new ids.  When it is opened    *)
(* (lib/state/state.ts ensureSessionInitialized) its compression state is  *)
(* translated from the file of the parent, or the compress calls in its    *)
(* history are replayed (lib/state/rebuild.ts).  Messages of the two       *)
(* sessions are told to be the same by their references, which both count  *)
(* from the first message (lib/message-ids.ts).                            *)
(*                                                                         *)
(* The parent is a CompressionSession whose saves all succeed.  A message  *)
(* of the fork is its place among the copied ones.                         *)
(***************************************************************************)
EXTENDS CompressionSession, Sequences

CONSTANTS
  CallAt,    \* the messages that may hold a compress call
  Content    \* what a message says, as far as fingerprintMessage tells

ASSUME ForkAssumption ==
  /\ CallAt \subseteq ProtectedTools  \* a compress call is never compressed
  /\ DOMAIN Content = Msg

VARIABLES
  refs,    \* messageIds.byRawId of the parent; 0: none
  made,    \* of each block: the call that made it (0: a merge), includedBlockIds
  input,   \* the input of each completed compress call
  copied,  \* the messages of the parent the fork has copies of
  calls,   \* the compress calls among them that had completed
  own,     \* state.prune.messages of the fork
  how      \* the fork got it

parent == <<prune, disk, history, arrived, refs, made, input>>
forked == <<copied, calls, own, how>>

NoInput == [lo |-> 0, hi |-> 0, start |-> 0, end |-> 0, blockStart |-> FALSE, blockEnd |-> FALSE]

ForkInit ==
  /\ Init
  /\ refs = [m \in Msg |-> 0]
  /\ made = <<>>
  /\ input = [c \in CallAt |-> NoInput]
  /\ copied = {} /\ calls = {} /\ own = EmptyPrune /\ how = "none"

ForkTypeOK ==
  /\ TypeOK
  /\ refs \in [Msg -> 0 .. NumMsgs]
  /\ made \in Seq([call : CallAt \cup {0}, included : SUBSET Nat])
  /\ input \in [CallAt -> [lo : 0 .. NumMsgs, hi : 0 .. NumMsgs, start : Nat, end : Nat,
                           blockStart : BOOLEAN, blockEnd : BOOLEAN]]
  /\ copied \subseteq Msg /\ calls \subseteq CallAt \cap copied
  /\ how \in {"none", "restored", "replayed", "replayed as a subagent", "empty"}

-----------------------------------------------------------------------------
(* The parent.                                                             *)

\* assignMessageRefs: in the order of the history, and none is used twice.
Assigned ==
  LET last == CHOOSE r \in 0 .. NumMsgs :
                /\ \A m \in Msg : refs[m] <= r
                /\ r = 0 \/ \E m \in Msg : refs[m] = r
      bare == {m \in history : refs[m] = 0}
  IN [m \in Msg |-> IF m \in bare THEN last + Cardinality({k \in bare : k <= m}) ELSE refs[m]]

\* The two ways to name an end of a range: the reference of a message, or an
\* active block anchored there.
Names(m, byBlock) == IF byBlock THEN AnchoredIn({m}) ELSE {Assigned[m]}

\* A compress call is made in the newest message.
Call ==
  /\ arrived \in CallAt \cap history
  /\ input[arrived] = NoInput
  /\ \E lo, hi \in history, fromBlock, toBlock \in BOOLEAN :
       /\ lo <= hi
       /\ \E start \in Names(lo, fromBlock), end \in Names(hi, toBlock) :
            input' = [input EXCEPT ![arrived] =
                        [lo |-> lo, hi |-> hi, start |-> start, end |-> end,
                         blockStart |-> fromBlock, blockEnd |-> toBlock]]
       /\ \E plan \in PlansOver(lo, hi) :
            /\ plan.byBlock = (fromBlock \/ toBlock)
            /\ Executable(plan)
            /\ prune.next <= MaxBlocks
            /\ Commit(Apply(prune, plan)) /\ disk' = Saved(prune')
            /\ made' = Append(made, [call |-> arrived, included |-> plan.consumed])
  /\ refs' = Assigned

\* A decompress, or a request; it may merge blocks.
Work ==
  /\ Decompress \/ Transform
  /\ disk' = Saved(prune')
  /\ refs' = Assigned
  /\ made' = IF prune'.next = prune.next THEN made
             ELSE Append(made, [call |-> 0, included |-> prune'.blocks[prune.next].consumed])
  /\ UNCHANGED input

\* The user takes back the newest message, and speaks again.
Revert == RemoveMessage /\ \A m \in history' : m < CHOOSE k \in history : k \notin history'

Talk == (AddMessage \/ Revert) /\ UNCHANGED <<refs, made, input>>

-----------------------------------------------------------------------------
(* The messages of the fork.                                               *)

ForkMsgs == 1 .. Cardinality(copied)

Place(m) == Cardinality({k \in copied : k <= m})

Origin(k) == CHOOSE m \in copied : Place(m) = k

\* assignMessageRefs in the fork.  A subagent is given no reference for its
\* first user message.
ForkRef(k, subagent) ==
  LET asked == {j \in ForkMsgs : Origin(j) \in Users}
      skipped == {j \in asked : \A i \in asked : j <= i}
  IN IF ~subagent \/ \A j \in skipped : k < j THEN k
     ELSE IF k \in skipped THEN 0 ELSE k - 1

-----------------------------------------------------------------------------
(* restoreForkCompressionState.                                            *)

\* Faults of Alike: the reference alone decides; so does the text.
AlikeByRef(m) == m \in history /\ refs[m] \in ForkMsgs

\* mapForkIds: both sessions have a message of that reference, and the two say
\* the same.  The message of the fork is the one the reference counts to.
Alike(m) ==
  /\ m \in history
  /\ refs[m] \in ForkMsgs
  /\ Content[m] = Content[Origin(refs[m])]

\* translatedBlocks: a merged block has no message that made it, and is not one.
Translatable(b) ==
  /\ made[b].call \in Msg
  /\ \A m \in {disk.blocks[b].anchor, made[b].call} \cup disk.blocks[b].effective : Alike(m)

Translated == {b \in Ids(disk) : Translatable(b)}

\* A fault of Restorable: what can be translated is.
RestorableInPart == disk.activeIds \cap Translated # {}

\* All active blocks or none, each with the blocks it was made from.
Restorable ==
  /\ disk.activeIds # {}
  /\ disk.activeIds \subseteq Translated
  /\ \A b \in disk.activeIds : made[b].included \subseteq Translated

Images(S) == {refs[m] : m \in {k \in S : Alike(k)}}

Restored ==
  LET active == disk.activeIds \cap Translated
      all == [k \in Msg |-> UNION {disk.all[m] \cap Translated :
                                   m \in {j \in Msg : Alike(j) /\ refs[j] = k}}]
  IN [blocks |-> [b \in Translated |->
                    [disk.blocks[b] EXCEPT !.anchor = refs[@], !.effective = Images(@)]],
      activeIds |-> active,
      all |-> all,
      act |-> [k \in Msg |-> all[k] \cap active],
      next |-> disk.next, verified |-> TRUE, synced |-> FALSE]

-----------------------------------------------------------------------------
(* rebuildCompressionState.                                                *)

\* A fault of Resolved: all calls are resolved in the context of the first.
ResolvedAtFirst(ps, name, isBlock, subagent) ==
  IF isBlock THEN {} ELSE {k \in ForkMsgs : ForkRef(k, subagent) = name}

\* resolveBoundaryIds, in the fork: a reference beyond the last one means the
\* last, and a block must be active.  None, or one, message.
Resolved(ps, name, isBlock, subagent) ==
  IF isBlock THEN {ps.blocks[b].anchor : b \in {name} \cap ps.activeIds}
  ELSE {k \in ForkMsgs :
          \/ ForkRef(k, subagent) = name
          \/ /\ \A j \in ForkMsgs : ForkRef(j, subagent) < name
             /\ \A j \in ForkMsgs : ForkRef(j, subagent) <= ForkRef(k, subagent)}

\* rebuildRangeInvocation: of the filters of the compress tool only that of the
\* protected tools is applied, and a plan is never a phantom.
PlanOf(ps, call, lo, hi, at) ==
  [anchor |-> lo,
   msgs |-> {k \in lo .. hi : Origin(k) \notin ProtectedTools},
   consumed |-> {b \in ps.activeIds : ps.blocks[b].anchor \in lo .. hi},
   byBlock |-> call.blockStart \/ call.blockEnd, long |-> FALSE, at |-> at]

\* One call; what cannot be resolved is passed over.
ReplayCall(ps, call, subagent, at) ==
  LET ends == Resolved(ps, call.start, call.blockStart, subagent)
              \cup Resolved(ps, call.end, call.blockEnd, subagent)
      missing == \/ Resolved(ps, call.start, call.blockStart, subagent) = {}
                 \/ Resolved(ps, call.end, call.blockEnd, subagent) = {}
      plan == PlanOf(ps, call, CHOOSE k \in ends : \A j \in ends : k <= j,
                               CHOOSE k \in ends : \A j \in ends : j <= k, at)
  IN IF missing THEN ps
     ELSE IF plan.msgs = {} THEN ps ELSE Apply(ps, plan)

\* collectCompressInvocations, replayed in the order of the history: the state
\* after the first n messages.
Rebuilt(called, subagent, at) ==
  LET after[n \in 0 .. NumMsgs] ==
        IF n = 0 THEN EmptyPrune
        ELSE IF n \in called THEN ReplayCall(after[n - 1], input[n], subagent, at)
        ELSE after[n - 1]
  IN after[NumMsgs]

-----------------------------------------------------------------------------
(* The host forks; the fork is opened.                                     *)

Fork ==
  /\ copied = {}
  /\ \E cut \in history : copied' = {m \in history : m <= cut}
  /\ calls' = {c \in CallAt \cap copied' : input[c] # NoInput}
  /\ UNCHANGED <<own, how>>

\* The host may not name the parent of the fork, the file of the parent may be
\* out of reach, and the copies of the calls may lack their inputs.  A child for
\* which the parent was asked has references for all its messages.
Open ==
  /\ copied # {} /\ how = "none"
  /\ \E child, file, inputs \in BOOLEAN, at \in Times :
       IF child /\ file /\ history # {} /\ Restorable
       THEN own' = Restored /\ how' = "restored"
       ELSE LET subagent == child /\ ~(file /\ history # {})
            IN /\ own' = Rebuilt(IF inputs THEN calls ELSE {}, subagent, at)
               /\ how' = IF ~inputs THEN "empty"
                         ELSE IF subagent THEN "replayed as a subagent" ELSE "replayed"
  /\ UNCHANGED <<copied, calls>>

ForkNext ==
  \/ how = "none" /\ (Call \/ Work \/ Talk) /\ UNCHANGED forked
  \/ (Fork \/ Open) /\ UNCHANGED parent

ForkSpec == ForkInit /\ [][ForkNext]_<<parent, forked>>

-----------------------------------------------------------------------------
(* The inductive invariant: the parent is a session, and the fork has what *)
(* the way it was opened gives.                                            *)

\* Every block hides copies of messages without a protected tool output.
Replayable(ps) ==
  \A b \in Ids(ps) :
    /\ ps.blocks[b].anchor \in ForkMsgs
    /\ ps.blocks[b].effective \subseteq {k \in ForkMsgs : Origin(k) \notin ProtectedTools}

ForkIInv ==
  /\ IInv
  /\ copied \subseteq Msg
  /\ how # "none" => copied # {}
  /\ how = "restored" => own = Restored /\ Restorable
  /\ how \notin {"none", "restored"} => Sound(own) /\ FixedPoint(own) /\ Replayable(own)

-----------------------------------------------------------------------------
\* A state translated from the parent hides, with the same active blocks, one
\* message for each the parent hides, and one that says the same: a mapping that
\* is uncertain is never used in part (restoreForkCompressionState).
RestoredAsParent ==
  how = "restored" =>
    /\ own.activeIds = disk.activeIds
    /\ Indexed(own)
    /\ \A k \in ForkMsgs :
         k \in Covered(own) <=>
           \E m \in Covered(disk) : refs[m] = k /\ Content[m] = Content[Origin(k)]

\* A replayed state is one the compress tool could have left: indexes, lineage
\* and liveness agree, and no protected output is hidden.
ReplayedIsSound ==
  how \notin {"none", "restored"} =>
    /\ Sound(own) /\ FixedPoint(own)
    /\ \A k \in Covered(own) : Origin(k) \notin ProtectedTools

\* The references of the fork are those of the parent.
SameRefs == \A k \in ForkMsgs : refs[Origin(k)] = k

\* Where references have stayed the same and nothing was merged, the replay
\* hides the copy of every message under a block, not decompressed, that was
\* made in a copied call out of blocks that were: context the parent saved is
\* not sent by the fork (rebuild.ts, "the primary goal is met").  A call that
\* names a block is told apart: one the parent named because a decompress had
\* brought it back is not active in the replay, where nothing is decompressed.
ReplayHidesAsMuch ==
  LET named(c) == input[made[c].call].blockStart \/ input[made[c].call].blockEnd
      replayable(b) == \A c \in {b} \cup ConsumedBelow(disk, b) :
                         made[c].call \in calls /\ (named(c) => OffIds(disk) = {})
  IN how = "replayed" /\ SameRefs /\ (\A b \in Ids(disk) : made[b].call # 0) =>
       \A b \in Ids(disk) \ OffIds(disk) : replayable(b) =>
         {Place(m) : m \in disk.blocks[b].effective \cap copied} \subseteq Covered(own)
=============================================================================
