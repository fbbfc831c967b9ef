-------------------------- MODULE RequestViewProofs --------------------------
(***************************************************************************)
(* The requests take the steps of the session, so what is proved of the    *)
(* session holds of the state every request is built from; and what a      *)
(* request shows of it agrees with it, for any number of messages, blocks  *)
(* and calls, of either host.  A block keeps the place its call gave it    *)
(* through saves, merges and restarts, and the cached index of calls is    *)
(* always that of the blocks it is read with.                              *)
(***************************************************************************)
EXTENDS RequestView, CompressionSessionProofs

-----------------------------------------------------------------------------
(* The session.                                                            *)

LEMMA RequestStep == RequestNext => [Next]_vars
<1> SUFFICES ASSUME RequestNext PROVE [Next]_vars
  OBVIOUS
<1>1. CASE Compress \/ Reopen \/ Request \/ Reload
  BY <1>1, Zenon DEF Compress, Reopen, Request, Reload, Next
<1>2. CASE CompressFails \/ DropCalls
  BY <1>2, Zenon DEF CompressFails, DropCalls, vars
<1>3. CASE Talk
  BY <1>3, Zenon DEF Talk, Next
<1> QED
  BY <1>1, <1>2, <1>3 DEF RequestNext

\* A request view is a session with the calls beside it: it takes no step of
\* the blocks, the file or the history that the session does not take.
THEOREM RequestsKeepTheSession == RequestSpec => Spec
<1>1. RequestInit => Init
  BY DEF RequestInit
<1>2. [RequestNext]_requestVars => [Next]_vars
  BY RequestStep DEF requestVars
<1> QED
  BY <1>1, <1>2, PTL DEF RequestSpec, Spec

LEMMA RequestKeepsSession ==
  ASSUME IInv, [RequestNext]_requestVars
  PROVE  IInv'
BY RequestStep, NextKeeps DEF requestVars

\* The operations save what they leave, or nothing.
LEMMA SavesOrNot ==
  ASSUME CompressRange \/ CompressBatch \/ Decompress \/ Transform \/ Restart
  PROVE  disk' \in {disk, Saved(prune')}
<1>1. ASSUME NEW ps, Commit(ps)
      PROVE  disk' \in {disk, Saved(prune')}
  BY <1>1 DEF Commit, MaySave
<1>2. ASSUME NEW ps, prune' = ps, MaySave(ps)
      PROVE  disk' \in {disk, Saved(prune')}
  BY <1>2 DEF MaySave
<1>3. CASE CompressRange
  <2>1. PICK lo, hi : \E plan \in PlansOver(lo, hi) : Commit(Apply(prune, plan))
    BY <1>3 DEF CompressRange
  <2> QED
    BY <1>1, <2>1
<1>4. CASE CompressBatch
  <2>1. PICK lo1, hi1, lo2, hi2 :
          \E first \in PlansOver(lo1, hi1), second \in PlansOver(lo2, hi2) :
            Commit(Apply(Apply(prune, first), second))
    BY <1>4, Zenon DEF CompressBatch
  <2> QED
    BY <1>1, <2>1
<1>5. CASE Decompress
  <2>1. PICK targets, full : DecompressTargets(targets, full)
    BY <1>5, Zenon DEF Decompress, DecompressBlock, DecompressRange
  <2> QED
    BY <1>2, <2>1 DEF DecompressTargets
<1>6. CASE Transform
  BY <1>2, <1>6, Zenon DEF Transform
<1>7. CASE Restart
  BY <1>2, <1>7 DEF Restart
<1> QED
  BY <1>3, <1>4, <1>5, <1>6, <1>7

\* A compression makes at least one block.
LEMMA CompressGrows ==
  ASSUME IInv, CompressRange \/ CompressBatch
  PROVE  prune'.next \in Nat /\ prune.next < prune'.next
<1>1. prune.next \in Nat
  BY DEF IInv, TypeOK, Typed
<1>2. \A ps, plan : Apply(ps, plan).next = ps.next + 1
  BY DEF Apply
<1>3. CASE CompressRange
  <2>1. PICK plan : prune' = Apply(prune, plan)
    BY <1>3 DEF CompressRange, Commit
  <2> QED
    BY <1>1, <1>2, <2>1
<1>4. CASE CompressBatch
  <2>1. PICK first, second : prune' = Apply(Apply(prune, first), second)
    BY <1>4, Zenon DEF CompressBatch, Commit
  <2> QED
    BY <1>1, <1>2, <2>1
<1> QED
  BY <1>3, <1>4

\* Decompressing neither makes nor forgets a block.
LEMMA DecompressIds ==
  ASSUME IInv, Decompress
  PROVE  Ids(prune') = Ids(prune)
<1>1. PICK full \in BOOLEAN, targets \in SUBSET Ids(prune) :
        targets # {} /\ prune' = Sync(Deactivate(prune, targets, full))
  <2>1. PICK full \in BOOLEAN :
          \/ \E b \in Ids(prune) : DecompressTargets({b}, full)
          \/ \E lo, hi \in history : DecompressRange(lo, hi, full)
    BY DEF Decompress, DecompressBlock
  <2>2. ASSUME NEW b \in Ids(prune), DecompressTargets({b}, full)
        PROVE  \E targets \in SUBSET Ids(prune) :
                 targets # {} /\ prune' = Sync(Deactivate(prune, targets, full))
    BY <2>2 DEF DecompressTargets
  <2>3. ASSUME NEW lo, NEW hi, DecompressRange(lo, hi, full)
        PROVE  \E targets \in SUBSET Ids(prune) :
                 targets # {} /\ prune' = Sync(Deactivate(prune, targets, full))
    BY <2>3, Zenon DEF DecompressRange, DecompressTargets
  <2> QED
    BY <2>1, <2>2, <2>3
<1>2. Sound(prune)
  BY DEF IInv
<1>3. Ids(Deactivate(prune, targets, full)) = Ids(prune)
  BY DEF Deactivate, Ids
<1>4. Typed(Deactivate(prune, targets, full))
  BY <1>1, <1>2, DeactivateSyncable DEF Syncable
<1> QED
  BY <1>1, <1>3, <1>4, SyncKeeps

\* A request makes the block of the cleanup, or none.
LEMMA TransformGrows ==
  ASSUME IInv, Transform
  PROVE  prune'.next \in {prune.next, prune.next + 1}
<1> DEFINE synced == Sync(prune)
<1>1. \E at \in Times : prune' \in {synced, Merge(synced, Mergeable(synced), at)}
  BY DEF Transform
<1>2. synced.next = prune.next
  BY SyncKeeps DEF IInv, Sound
<1> HIDE DEF synced
<1>3. \A S, at : Merge(synced, S, at).next = synced.next + 1
  BY DEF Merge
<1> QED
  BY <1>1, <1>2, <1>3

-----------------------------------------------------------------------------
(* The places of the blocks.                                               *)

\* They stay what they are while calls are added, or are dropped by the host.
LEMMA PlacedExtends ==
  ASSUME NEW list \in Seq(CompressCall), NEW longer \in Seq(CompressCall),
         Len(list) <= Len(longer),
         \A n \in 1 .. Len(list) : /\ longer[n].size = list[n].size
                                   /\ list[n].ok => longer[n].ok,
         NEW ps, NEW origin, Placed(list, ps, origin)
  PROVE  Placed(longer, ps, origin)
<1>1. ASSUME NEW b \in Ids(ps)
      PROVE  /\ origin[b] \in [call : 0 .. Len(longer), entry : Nat]
             /\ origin[b].call # 0 =>
                  /\ longer[origin[b].call].ok
                  /\ origin[b].entry \in 1 .. longer[origin[b].call].size
                  /\ \A c \in Ids(ps) : origin[c] = origin[b] => c = b
  <2>1. /\ origin[b] \in [call : 0 .. Len(list), entry : Nat]
        /\ origin[b].call # 0 =>
             /\ list[origin[b].call].ok
             /\ origin[b].entry \in 1 .. list[origin[b].call].size
             /\ \A c \in Ids(ps) : origin[c] = origin[b] => c = b
    BY DEF Placed
  <2>2. origin[b].call # 0 => origin[b].call \in 1 .. Len(list)
    BY <2>1
  <2> QED
    BY <2>1, <2>2
<1> QED
  BY <1>1 DEF Placed

\* A call adds its blocks at its own entries.
LEMMA PlacedNew ==
  ASSUME NEW list \in Seq(CompressCall), NEW ps, NEW q, NEW origin,
         Placed(list, ps, origin), Typed(ps), Typed(q), ps.next < q.next,
         NEW place \in Nat, NEW record,
         record = [ok |-> TRUE, listed |-> TRUE, size |-> q.next - ps.next, at |-> place]
  PROVE  Placed(Append(list, record), q,
                [b \in Ids(q) |-> IF b \in Ids(ps) THEN origin[b]
                                  ELSE [call |-> Len(list) + 1, entry |-> b + 1 - ps.next]])
<1> DEFINE longer == Append(list, record)
           new == [b \in Ids(q) |-> IF b \in Ids(ps) THEN origin[b]
                                    ELSE [call |-> Len(list) + 1, entry |-> b + 1 - ps.next]]
<1>1. /\ ps.next \in Nat \ {0} /\ q.next \in Nat \ {0}
      /\ Ids(ps) = 1 .. (ps.next - 1) /\ Ids(q) = 1 .. (q.next - 1)
  BY TypedFields
<1>2. record \in CompressCall
  BY <1>1 DEF CompressCall
<1>3. /\ longer \in Seq(CompressCall) /\ Len(longer) = Len(list) + 1 /\ Len(list) \in Nat
      /\ longer[Len(list) + 1] = record
      /\ \A n \in 1 .. Len(list) : longer[n] = list[n]
  BY <1>2
<1> HIDE DEF longer
<1>4. Placed(longer, ps, origin)
  <2>1. \A n \in 1 .. Len(list) : /\ longer[n].size = list[n].size
                                 /\ list[n].ok => longer[n].ok
    BY <1>3
  <2>2. Len(list) <= Len(longer)
    BY <1>3
  <2> QED
    BY <1>3, <2>1, <2>2, PlacedExtends
<1>5. \A b \in Ids(ps) : new[b] = origin[b] /\ new[b].call \in 0 .. Len(list)
  BY <1>1 DEF Placed
<1>6. \A b \in Ids(q) \ Ids(ps) :
        /\ new[b] \in [call : 0 .. Len(longer), entry : Nat]
        /\ new[b].call = Len(list) + 1 /\ new[b].entry = b + 1 - ps.next
        /\ new[b].entry \in 1 .. record.size
  <2>1. \A b \in Ids(q) \ Ids(ps) : b + 1 - ps.next \in 1 .. (q.next - ps.next)
    BY <1>1
  <2>2. \A b \in Ids(q) \ Ids(ps) :
          new[b] = [call |-> Len(list) + 1, entry |-> b + 1 - ps.next]
    OBVIOUS
  <2>3. record.size = q.next - ps.next /\ record.ok
    OBVIOUS
  <2> HIDE DEF new
  <2>4. ASSUME NEW b \in Ids(q) \ Ids(ps)
        PROVE  /\ new[b] \in [call : 0 .. Len(longer), entry : Nat]
               /\ new[b].call = Len(list) + 1 /\ new[b].entry = b + 1 - ps.next
    <3>1. Len(list) + 1 \in 0 .. Len(longer) /\ b + 1 - ps.next \in Nat
      BY <1>3, <2>1
    <3>2. new[b] = [call |-> Len(list) + 1, entry |-> b + 1 - ps.next]
      BY <2>2
    <3> QED
      BY ONLY <3>1, <3>2
  <2> QED
    BY <2>1, <2>3, <2>4
<1>7. ASSUME NEW b \in Ids(q)
      PROVE  /\ new[b] \in [call : 0 .. Len(longer), entry : Nat]
             /\ new[b].call # 0 =>
                  /\ longer[new[b].call].ok
                  /\ new[b].entry \in 1 .. longer[new[b].call].size
                  /\ \A c \in Ids(q) : new[c] = new[b] => c = b
  <2> HIDE DEF new
  <2>1. CASE b \in Ids(ps)
    <3>1. /\ new[b] \in [call : 0 .. Len(longer), entry : Nat]
          /\ new[b].call # 0 =>
               /\ longer[new[b].call].ok
               /\ new[b].entry \in 1 .. longer[new[b].call].size
               /\ \A c \in Ids(ps) : new[c] = new[b] => c = b
      <4>1. new[b] = origin[b] /\ \A c \in Ids(ps) : new[c] = origin[c]
        BY <1>5, <2>1
      <4>2. /\ origin[b] \in [call : 0 .. Len(longer), entry : Nat]
            /\ origin[b].call # 0 =>
                 /\ longer[origin[b].call].ok
                 /\ origin[b].entry \in 1 .. longer[origin[b].call].size
                 /\ \A c \in Ids(ps) : origin[c] = origin[b] => c = b
        BY <1>4, <2>1 DEF Placed
      <4> QED
        BY <4>1, <4>2
    <3>2. \A c \in Ids(q) \ Ids(ps) : new[c].call # new[b].call
      BY <1>3, <1>5, <1>6, <2>1
    <3> QED
      BY <3>1, <3>2
  <2>2. CASE b \notin Ids(ps)
    <3>1. /\ new[b].call = Len(list) + 1 /\ new[b].entry = b + 1 - ps.next
          /\ new[b] \in [call : 0 .. Len(longer), entry : Nat]
          /\ new[b].entry \in 1 .. record.size /\ record.ok
      BY <1>6, <2>2
    <3>2. ASSUME NEW c \in Ids(q), new[c] = new[b]
          PROVE  c = b
      <4>1. c \notin Ids(ps)
        BY <1>3, <1>5, <3>1, <3>2
      <4>2. new[c].entry = c + 1 - ps.next
        BY <1>6, <4>1
      <4> QED
        BY <1>1, <3>1, <3>2, <4>2
    <3> QED
      BY <1>3, <3>1, <3>2
  <2> QED
    BY <2>1, <2>2
<1> QED
  BY <1>7 DEF Placed, longer

\* The cleanup's block has no place in a call.
LEMMA PlacedMerged ==
  ASSUME NEW list \in Seq(CompressCall), NEW ps, NEW q, NEW origin, Placed(list, ps, origin)
  PROVE  Placed(list, q, [b \in Ids(q) |-> IF b \in Ids(ps) THEN origin[b] ELSE NoOrigin])
<1> DEFINE new == [b \in Ids(q) |-> IF b \in Ids(ps) THEN origin[b] ELSE NoOrigin]
<1>1. ASSUME NEW b \in Ids(q), b \in Ids(ps)
      PROVE  /\ new[b] \in [call : 0 .. Len(list), entry : Nat]
             /\ new[b].call # 0 =>
                  /\ list[new[b].call].ok
                  /\ new[b].entry \in 1 .. list[new[b].call].size
                  /\ \A c \in Ids(q) : new[c] = new[b] => c = b
  <2>1. \A c \in Ids(q) : c \notin Ids(ps) => new[c].call = 0
    BY DEF NoOrigin
  <2>2. \A c \in Ids(q) : c \in Ids(ps) => new[c] = origin[c]
    OBVIOUS
  <2> HIDE DEF new
  <2> QED
    BY <1>1, <2>1, <2>2 DEF Placed
<1>2. ASSUME NEW b \in Ids(q), b \notin Ids(ps)
      PROVE  new[b].call = 0 /\ new[b] \in [call : 0 .. Len(list), entry : Nat]
  BY <1>2 DEF NoOrigin
<1> QED
  BY <1>1, <1>2 DEF Placed

\* The copy in the file is that of the state that was saved last.
LEMMA TrackKeeps ==
  ASSUME Track, disk' \in {disk, Saved(prune')},
         NEW list, Placed(list, prune', made'), Placed(list, disk, madeOnDisk)
  PROVE  Placed(list, disk', madeOnDisk')
<1>1. \A ps : Ids(Saved(ps)) = Ids(ps)
  BY DEF Saved, Ids
<1>2. CASE disk' = disk
  BY <1>2 DEF Track
<1>3. CASE disk' # disk
  <2>1. madeOnDisk' = made' /\ Ids(disk') = Ids(prune')
    BY <1>1, <1>3 DEF Track
  <2> QED
    BY <2>1 DEF Placed
<1> QED
  BY <1>2, <1>3

-----------------------------------------------------------------------------
(* The inductive invariant.                                                *)

LEMMA CallFacts ==
  ASSUME NEW list \in Seq(CompressCall)
  PROVE  /\ Len(list) \in Nat /\ DOMAIN list = 1 .. Len(list)
         /\ list = [n \in 1 .. Len(list) |-> list[n]]
         /\ \A n \in 1 .. Len(list) : /\ n \in Nat /\ list[n] \in CompressCall
                                     /\ list[n].at \in Nat
<1>1. /\ Len(list) \in Nat /\ DOMAIN list = 1 .. Len(list)
      /\ list = [n \in 1 .. Len(list) |-> list[n]]
      /\ \A n \in 1 .. Len(list) : n \in Nat /\ list[n] \in CompressCall
  OBVIOUS
<1>2. \A record \in CompressCall : record.at \in Nat
  BY DEF CompressCall
<1> QED
  BY <1>1, <1>2

\* A new call is in the message of the last one, or in one after it.
LEMMA NewCallPlaced ==
  ASSUME RequestIInv, NEW ok \in BOOLEAN, NEW size \in Nat, NewCall(ok, size)
  PROVE  \E record \in CompressCall :
           /\ \E place \in Nat :
                record = [ok |-> ok, listed |-> TRUE, size |-> size, at |-> place]
           /\ calls' = Append(calls, record)
           /\ calls' \in Seq(CompressCall) /\ Len(calls) <= Len(calls')
           /\ \A n \in 1 .. Len(calls) : calls'[n] = calls[n]
           /\ \A i, j \in DOMAIN calls' : i <= j => calls'[i].at <= calls'[j].at
<1> DEFINE newest == IF calls = <<>> THEN 0 ELSE calls[Len(calls)].at
           place == IF open THEN newest ELSE newest + 1
           record == [ok |-> ok, listed |-> TRUE, size |-> size, at |-> place]
<1>1. /\ calls \in Seq(CompressCall) /\ Len(calls) \in Nat /\ DOMAIN calls = 1 .. Len(calls)
      /\ \A n \in 1 .. Len(calls) : calls[n] \in CompressCall /\ calls[n].at \in Nat
      /\ \A i, j \in DOMAIN calls : i <= j => calls[i].at <= calls[j].at
  BY CallFacts DEF RequestIInv
<1>2. newest \in Nat /\ \A n \in 1 .. Len(calls) : calls[n].at <= newest
  <2>1. CASE calls = <<>>
    BY <2>1
  <2>2. CASE calls # <<>>
    <3>1. Len(calls) \in 1 .. Len(calls)
      BY <1>1, <2>2
    <3> QED
      BY <1>1, <2>2, <3>1
  <2> QED
    BY <2>1, <2>2
<1> HIDE DEF newest
<1>3. place \in Nat /\ newest <= place
  BY <1>2
<1> HIDE DEF place
<1>4. record \in CompressCall /\ record.at = place
  BY <1>3 DEF CompressCall
<1>5. calls' = Append(calls, record)
  BY DEF NewCall, newest, place
<1> HIDE DEF record
<1>6. /\ calls' \in Seq(CompressCall) /\ Len(calls') = Len(calls) + 1
      /\ DOMAIN calls' = 1 .. (Len(calls) + 1)
      /\ calls'[Len(calls) + 1] = record
      /\ \A n \in 1 .. Len(calls) : calls'[n] = calls[n]
  BY <1>1, <1>4, <1>5
<1>7. ASSUME NEW i \in DOMAIN calls', NEW j \in DOMAIN calls', i <= j
      PROVE  calls'[i].at <= calls'[j].at
  <2>1. CASE j = Len(calls) + 1
    <3>1. CASE i = j
      BY <1>3, <1>4, <1>6, <2>1, <3>1
    <3>2. CASE i # j
      <4>1. i \in 1 .. Len(calls)
        BY <1>1, <1>6, <1>7, <2>1, <3>2
      <4>2. calls'[i].at <= newest /\ calls'[i].at \in Nat /\ calls'[j].at = place
        BY <1>1, <1>2, <1>4, <1>6, <2>1, <4>1
      <4> QED
        BY <1>2, <1>3, <4>2
    <3> QED
      BY <3>1, <3>2
  <2>2. CASE j # Len(calls) + 1
    <3>1. i \in 1 .. Len(calls) /\ j \in 1 .. Len(calls)
      BY <1>1, <1>6, <1>7, <2>2
    <3> QED
      BY <1>1, <1>6, <1>7, <3>1
  <2> QED
    BY <2>1, <2>2
<1> QED
  <2>1. Len(calls) <= Len(calls')
    BY <1>1, <1>6
  <2>2. \E p \in Nat : record = [ok |-> ok, listed |-> TRUE, size |-> size, at |-> p]
    BY <1>3 DEF record
  <2> QED
    BY <1>4, <1>5, <1>6, <1>7, <2>1, <2>2

LEMMA CompressPlaces ==
  ASSUME RequestIInv, Compress
  PROVE  RequestIInv'
<1>1. /\ calls \in Seq(CompressCall) /\ IInv /\ IInv'
      /\ Typed(prune) /\ Typed(prune')
      /\ Placed(calls, prune, made) /\ Placed(calls, disk, madeOnDisk)
  BY RequestKeepsSession DEF RequestIInv, RequestNext, IInv, TypeOK
<1>2. prune'.next \in Nat /\ prune.next \in Nat /\ prune.next < prune'.next
  BY <1>1, CompressGrows DEF Compress, Typed
<1>3. NewCall(TRUE, prune'.next - prune.next) /\ prune'.next - prune.next \in Nat
  <2>1. NewCall(TRUE, prune'.next - prune.next)
    BY Zenon DEF Compress
  <2>2. prune'.next - prune.next \in Nat
    BY <1>2
  <2> QED
    BY <2>1, <2>2
<1>4. PICK record \in CompressCall :
        /\ \E place \in Nat : record = [ok |-> TRUE, listed |-> TRUE,
                                      size |-> prune'.next - prune.next, at |-> place]
        /\ calls' = Append(calls, record)
        /\ calls' \in Seq(CompressCall) /\ Len(calls) <= Len(calls')
        /\ \A n \in 1 .. Len(calls) : calls'[n] = calls[n]
        /\ \A i, j \in DOMAIN calls' : i <= j => calls'[i].at <= calls'[j].at
  BY <1>3, NewCallPlaced
<1>5. Placed(calls', prune', made')
  <2>1. made' = [b \in Ids(prune') |->
                   IF b \in Ids(prune) THEN made[b]
                   ELSE [call |-> Len(calls) + 1, entry |-> b + 1 - prune.next]]
    BY Zenon DEF Compress, Origin
  <2> QED
    BY <1>1, <1>2, <1>4, <2>1, PlacedNew
<1>6. Placed(calls', disk, madeOnDisk)
  BY <1>1, <1>4, PlacedExtends
<1>7. Placed(calls', disk', madeOnDisk')
  BY <1>5, <1>6, SavesOrNot, TrackKeeps DEF Compress
<1> QED
  BY <1>1, <1>4, <1>5, <1>7 DEF RequestIInv, Compress, NewCall

\* A call that fails, or is dropped by the host, moves no block.
LEMMA CallsPlace ==
  ASSUME RequestIInv, CompressFails \/ DropCalls
  PROVE  RequestIInv'
<1>1. /\ calls \in Seq(CompressCall) /\ IInv
      /\ Placed(calls, prune, made) /\ Placed(calls, disk, madeOnDisk)
      /\ index = Stale \/ index = BlockCalls(prune, made)
      /\ \A i, j \in DOMAIN calls : i <= j => calls[i].at <= calls[j].at
  BY DEF RequestIInv
<1>2. /\ UNCHANGED <<vars, made, madeOnDisk, index>> /\ open' \in BOOLEAN
      /\ UNCHANGED <<prune, disk, history, arrived>>
  BY DEF CompressFails, DropCalls, NewCall, vars
<1>3. IInv'
  BY <1>1, <1>2, NextKeeps
<1>4. /\ calls' \in Seq(CompressCall) /\ Len(calls) <= Len(calls')
      /\ \A n \in 1 .. Len(calls) : /\ calls'[n].size = calls[n].size
                                    /\ calls[n].ok => calls'[n].ok
      /\ \A i, j \in DOMAIN calls' : i <= j => calls'[i].at <= calls'[j].at
  <2>1. CASE CompressFails
    <3>1. PICK ok \in BOOLEAN : NewCall(ok, 1)
      BY <2>1, SessionAssumption DEF CompressFails
    <3>2. 1 \in Nat
      OBVIOUS
    <3>3. /\ calls' \in Seq(CompressCall) /\ Len(calls) <= Len(calls')
          /\ \A n \in 1 .. Len(calls) : calls'[n] = calls[n]
          /\ \A i, j \in DOMAIN calls' : i <= j => calls'[i].at <= calls'[j].at
      BY <3>1, <3>2, NewCallPlaced
    <3> QED
      BY <3>3
  <2>2. CASE DropCalls
    <3>1. PICK n \in Listed :
            calls' = [k \in DOMAIN calls |->
                        IF calls[k].at # calls[n].at THEN calls[k]
                        ELSE [calls[k] EXCEPT !.listed = FALSE, !.ok = TRUE]]
      BY <2>2, Zenon DEF DropCalls
    <3>2. DOMAIN calls = 1 .. Len(calls) /\ Len(calls) \in Nat
      BY <1>1
    <3>3. ASSUME NEW k \in 1 .. Len(calls)
          PROVE  /\ calls[k] \in CompressCall
                 /\ [calls[k] EXCEPT !.listed = FALSE, !.ok = TRUE] \in CompressCall
                 /\ [calls[k] EXCEPT !.listed = FALSE, !.ok = TRUE].size = calls[k].size
                 /\ [calls[k] EXCEPT !.listed = FALSE, !.ok = TRUE].at = calls[k].at
                 /\ [calls[k] EXCEPT !.listed = FALSE, !.ok = TRUE].ok
      <4>1. calls[k] \in CompressCall
        BY <1>1
      <4>2. [calls[k] EXCEPT !.listed = FALSE, !.ok = TRUE] \in CompressCall
        BY <4>1 DEF CompressCall
      <4>3. calls[k] \in [ok : BOOLEAN, listed : BOOLEAN, size : Nat, at : Nat]
        BY <4>1 DEF CompressCall
      <4> QED
        BY <4>1, <4>2, <4>3
    <3>4. \A k \in 1 .. Len(calls) :
            /\ calls'[k] \in CompressCall
            /\ calls'[k].size = calls[k].size /\ calls'[k].at = calls[k].at
            /\ calls[k].ok => calls'[k].ok
      <4> SUFFICES ASSUME NEW k \in 1 .. Len(calls)
                   PROVE  /\ calls'[k] \in CompressCall
                          /\ calls'[k].size = calls[k].size /\ calls'[k].at = calls[k].at
                          /\ calls[k].ok => calls'[k].ok
        OBVIOUS
      <4>1. calls'[k] = IF calls[k].at # calls[n].at THEN calls[k]
                        ELSE [calls[k] EXCEPT !.listed = FALSE, !.ok = TRUE]
        BY <3>1, <3>2
      <4>2. CASE calls[k].at # calls[n].at
        BY <3>3, <4>1, <4>2
      <4>3. CASE calls[k].at = calls[n].at
        <5>1. calls'[k] = [calls[k] EXCEPT !.listed = FALSE, !.ok = TRUE]
          BY <4>1, <4>3
        <5> QED
          BY <3>3, <5>1
      <4> QED
        BY <4>2, <4>3
    <3>5. calls' = [k \in 1 .. Len(calls) |-> calls'[k]]
      BY <3>1, <3>2
    <3>6. calls' \in Seq(CompressCall) /\ Len(calls') = Len(calls) /\ DOMAIN calls' = 1 .. Len(calls)
      BY <3>2, <3>4, <3>5
    <3> QED
      BY <1>1, <3>2, <3>4, <3>6
  <2> QED
    BY <2>1, <2>2
<1>5. Placed(calls', prune, made) /\ Placed(calls', disk, madeOnDisk)
  BY <1>1, <1>4, PlacedExtends
<1> QED
  BY <1>1, <1>2, <1>3, <1>4, <1>5 DEF RequestIInv, BlockCalls

LEMMA ReopenPlaces ==
  ASSUME RequestIInv, Reopen
  PROVE  RequestIInv'
<1>1. /\ calls \in Seq(CompressCall) /\ IInv /\ IInv'
      /\ Placed(calls, prune, made) /\ Placed(calls, disk, madeOnDisk)
      /\ Decompress /\ calls' = calls /\ open' = open /\ made' = made
  BY RequestKeepsSession DEF RequestIInv, RequestNext, Reopen
<1>2. Ids(prune') = Ids(prune)
  BY <1>1, DecompressIds
<1>3. Placed(calls, prune', made')
  BY <1>1, <1>2 DEF Placed
<1>4. Placed(calls, disk', madeOnDisk')
  BY <1>1, <1>3, SavesOrNot, TrackKeeps DEF Reopen
<1> QED
  BY <1>1, <1>3, <1>4 DEF RequestIInv, Reopen

\* The index a request uses is that of the blocks it is built from, computed anew
\* or cached: only a new block, or a decompress, changes the calls of the blocks.
LEMMA RequestPlaces ==
  ASSUME RequestIInv, Request
  PROVE  RequestIInv'
<1>1. /\ calls \in Seq(CompressCall) /\ IInv /\ IInv'
      /\ Typed(prune) /\ Typed(prune') /\ Transform /\ calls' = calls /\ open' = FALSE
      /\ Placed(calls, prune, made) /\ Placed(calls, disk, madeOnDisk)
      /\ made' = [b \in Ids(prune') |-> IF b \in Ids(prune) THEN made[b] ELSE NoOrigin]
  BY RequestKeepsSession DEF RequestIInv, RequestNext, Request, IInv, TypeOK
<1>2. Placed(calls, prune', made')
  BY <1>1, PlacedMerged
<1>3. Placed(calls, disk', madeOnDisk')
  BY <1>1, <1>2, SavesOrNot, TrackKeeps DEF Request
<1>4. index' = BlockCalls(prune', made')
  <2>1. CASE index = Stale \/ prune'.next # prune.next
    BY <2>1 DEF Request
  <2>2. CASE index # Stale /\ prune'.next = prune.next
    <3>1. Ids(prune') = Ids(prune)
      BY <1>1, <2>2, TypedFields
    <3>2. \A b \in Ids(prune) : made'[b] = made[b]
      BY <1>1, <3>1
    <3>3. BlockCalls(prune', made') = BlockCalls(prune, made)
      BY <3>1, <3>2 DEF BlockCalls
    <3> QED
      BY <2>2, <3>3 DEF Request, RequestIInv
  <2> QED
    BY <2>1, <2>2
<1> QED
  BY <1>1, <1>2, <1>3, <1>4 DEF RequestIInv

LEMMA ReloadPlaces ==
  ASSUME RequestIInv, Reload
  PROVE  RequestIInv'
<1>1. /\ calls \in Seq(CompressCall) /\ IInv /\ IInv'
      /\ Placed(calls, disk, madeOnDisk)
      /\ Restart /\ calls' = calls /\ open' = FALSE /\ made' = madeOnDisk
  BY RequestKeepsSession DEF RequestIInv, RequestNext, Reload
<1>2. Ids(prune') = Ids(disk)
  BY <1>1 DEF Restart, Load, Ids
<1>3. Placed(calls, prune', made')
  BY <1>1, <1>2 DEF Placed
<1>4. Placed(calls, disk', madeOnDisk')
  BY <1>1, <1>3, SavesOrNot, TrackKeeps DEF Reload
<1> QED
  BY <1>1, <1>3, <1>4 DEF RequestIInv, Reload

LEMMA TalkPlaces ==
  ASSUME RequestIInv, Talk
  PROVE  RequestIInv'
<1>1. IInv'
  BY RequestKeepsSession DEF RequestIInv, RequestNext
<1>2. UNCHANGED <<prune, disk, calls, open, made, madeOnDisk, index>>
  BY DEF Talk, AddMessage, RemoveMessage
<1> QED
  BY <1>1, <1>2 DEF RequestIInv, BlockCalls

\* Every block keeps the place its call gave it, an entry of its own, through
\* saves that fail, merges and restarts (compressCallId, blockId in the file); and
\* the cached index of the calls is that of the blocks or is thrown away.
THEOREM RequestInductive == RequestSpec => []RequestIInv
<1>1. RequestInit => RequestIInv
  <2> SUFFICES ASSUME RequestInit PROVE RequestIInv
    OBVIOUS
  <2>1. Ids(prune) = {} /\ Ids(disk) = {}
    BY DEF RequestInit, Init, EmptyPrune, Ids
  <2>2. DOMAIN made = {} /\ DOMAIN madeOnDisk = {} /\ calls \in Seq(CompressCall)
    BY DEF RequestInit
  <2>3. Placed(calls, prune, made) /\ Placed(calls, disk, madeOnDisk)
    BY <2>1, <2>2 DEF Placed
  <2> QED
    BY <2>2, <2>3, InitKeeps DEF RequestInit, RequestIInv
<1>2. RequestIInv /\ [RequestNext]_requestVars => RequestIInv'
  <2> SUFFICES ASSUME RequestIInv, [RequestNext]_requestVars PROVE RequestIInv'
    OBVIOUS
  <2>1. CASE UNCHANGED requestVars
    BY <2>1 DEF requestVars, vars, RequestIInv, BlockCalls, IInv, TypeOK
  <2> QED
    BY <2>1, CompressPlaces, CallsPlace, ReopenPlaces, RequestPlaces, ReloadPlaces,
       TalkPlaces DEF RequestNext
<1> QED
  BY <1>1, <1>2, PTL DEF RequestSpec

-----------------------------------------------------------------------------
(* What a request shows.                                                   *)

\* The calls that are left are listed, and the host's.
LEMMA SentIsListed ==
  ASSUME NEW list \in Seq(CompressCall), calls = list, NEW ps, NEW origin, NEW known
  PROVE  /\ Listed \subseteq 1 .. Len(list)
         /\ SentCalls(ps, origin, known) \subseteq AfterConsumed(ps, origin, known)
         /\ AfterConsumed(ps, origin, known) \subseteq Listed
BY DEF Listed, SentCalls, AfterFailed, AfterConsumed, ActiveCalls, Orphans

\* A call the plugin knows is shown for its live blocks only.
LEMMA KnownIsActive ==
  ASSUME NEW ps, NEW origin, NEW b \in Ids(ps), origin[b].call # 0,
         origin[b].call \in AfterConsumed(ps, origin, BlockCalls(ps, origin))
  PROVE  LiveEntries(ps, origin, origin[b].call) # {}
BY DEF AfterConsumed, Orphans, ActiveCalls, BlockCalls

\* One request, on the state it is built from, with the calls of that state.
LEMMA SummariesMatch ==
  ASSUME calls \in Seq(CompressCall),
         NEW ps, NEW origin, Placed(calls, ps, origin),
         NEW b \in Ids(ps), origin[b].call \in Listed
  PROVE  LET n == origin[b].call
             sent == b \in SentSummaries(ps, origin, BlockCalls(ps, origin))
         IN /\ IsLive(ps, b) /\ Exact(n, origin[b].entry) => sent
            /\ sent /\ (\A i \in Entries(n) : Exact(n, i)) => IsLive(ps, b)
            /\ sent => LiveEntries(ps, origin, n) # {}
<1> DEFINE n == origin[b].call
           known == BlockCalls(ps, origin)
           live == LiveEntries(ps, origin, n)
           sent == b \in SentSummaries(ps, origin, known)
<1>1. n \in 1 .. Len(calls) /\ n # 0
  BY DEF Listed
<1>2. /\ calls[n].ok /\ origin[b].entry \in Entries(n)
      /\ \A c \in Ids(ps) : origin[c] = origin[b] => c = b
  BY <1>1 DEF Placed, Entries
<1>3. \A c \in Ids(ps) : (origin[c].call = n /\ origin[c].entry = origin[b].entry) => c = b
  <2>1. ASSUME NEW c \in Ids(ps), origin[c].call = n, origin[c].entry = origin[b].entry
        PROVE  c = b
    <3>1. /\ origin[c] \in [call : 0 .. Len(calls), entry : Nat]
          /\ origin[b] \in [call : 0 .. Len(calls), entry : Nat]
      BY DEF Placed
    <3>2. origin[c] = origin[b]
      BY <2>1, <3>1
    <3> QED
      BY <1>2, <3>2
  <2> QED
    BY <2>1
<1>4. sent <=> /\ n \in AfterFailed(AfterConsumed(ps, origin, known))
               /\ origin[b].entry \in EntriesKept(ps, origin, n)
  BY DEF SentSummaries, SentCalls
<1>5. ASSUME IsLive(ps, b), Exact(n, origin[b].entry)
      PROVE  sent
  <2>1. origin[b].entry \in live
    BY <1>5 DEF LiveEntries
  <2>2. n \in AfterFailed(AfterConsumed(ps, origin, known))
    BY <1>2, <2>1 DEF AfterConsumed, ActiveCalls, AfterFailed
  <2>3. origin[b].entry \in EntriesKept(ps, origin, n)
    BY <1>5, <2>1 DEF EntriesKept, Matching
  <2> QED
    BY <1>4, <2>2, <2>3
<1>6. ASSUME sent
      PROVE  live # {}
  <2>1. n \in AfterConsumed(ps, origin, known)
    BY <1>4, <1>6 DEF AfterFailed
  <2> QED
    BY <1>1, <2>1, KnownIsActive
<1>7. ASSUME sent, \A i \in Entries(n) : Exact(n, i)
      PROVE  IsLive(ps, b)
  <2>1. live \subseteq Entries(n)
    <3>1. ASSUME NEW c \in Ids(ps), origin[c].call = n
          PROVE  origin[c].entry \in Entries(n)
      BY <1>1, <3>1 DEF Placed, Entries
    <3> QED
      BY <3>1 DEF LiveEntries
  <2>2. Matching(ps, origin, n) = live
    BY <1>7, <2>1 DEF Matching
  <2>3. origin[b].entry \in live
    BY <1>4, <1>6, <1>7, <2>2 DEF EntriesKept
  <2>4. PICK c \in Ids(ps) : IsLive(ps, c) /\ origin[c].call = n /\ origin[c].entry = origin[b].entry
    BY <2>3 DEF LiveEntries
  <2> QED
    BY <1>3, <2>4
<1> QED
  BY <1>5, <1>6, <1>7

\* Where the index stands it is that of the blocks.
LEMMA RequestFacts ==
  ASSUME RequestIInv, index # Stale
  PROVE  /\ calls \in Seq(CompressCall) /\ Placed(calls, prune, made)
         /\ index = BlockCalls(prune, made)
         /\ \A i, j \in DOMAIN calls : i <= j => calls[i].at <= calls[j].at
BY DEF RequestIInv

\* A request shows the summaries of the live blocks, and no absorbed or reopened
\* one, except where references were given with blanks
\* (lib/compress/hide-consumed.ts, hideConsumedCompressCalls).
THEOREM SummariesAreThoseOfTheBlocks == RequestSpec => []SummariesMatchBlocks
<1>1. RequestIInv => SummariesMatchBlocks
  <2> SUFFICES ASSUME RequestIInv, index # Stale PROVE SummariesMatchBlocks
    BY DEF SummariesMatchBlocks
  <2>1. /\ calls \in Seq(CompressCall) /\ Placed(calls, prune, made)
        /\ index = BlockCalls(prune, made)
    BY RequestFacts
  <2> QED
    BY <2>1, SummariesMatch DEF SummariesMatchBlocks
<1> QED
  BY <1>1, RequestInductive, PTL

\* A call the host lists as failed made no block.
LEMMA FailedIsUnknown ==
  ASSUME calls \in Seq(CompressCall), Placed(calls, prune, made),
         NEW n \in Listed, ~calls[n].ok
  PROVE  n \notin BlockCalls(prune, made) /\ LiveEntries(prune, made, n) = {}
<1>1. n \in 1 .. Len(calls)
  BY DEF Listed
<1>2. \A b \in Ids(prune) : made[b].call # n
  BY <1>1 DEF Placed
<1> QED
  BY <1>2 DEF BlockCalls, LiveEntries

\* Of the calls without a block the first pass keeps two: with one of them every
\* newer one.
LEMMA NewerOrphans ==
  ASSUME calls \in Seq(CompressCall), NEW known, NEW n \in Orphans(known),
         NEW k \in Listed \ known, n < k
  PROVE  k \in Orphans(known)
<1> DEFINE above(i) == {j \in Listed \ known : j > i}
<1>1. Listed \subseteq 1 .. Len(calls) /\ Len(calls) \in Nat
  BY DEF Listed
<1>2. n \in Listed
  BY DEF Orphans
<1>3. n \in Nat /\ k \in Nat /\ Listed \subseteq Nat
  BY <1>1, <1>2
<1>4. above(k) \subseteq above(n)
  <2>1. \A j \in Listed : j > k => j > n
    BY <1>3
  <2> QED
    BY <2>1
<1>5. IsFiniteSet(above(n))
  <2>1. IsFiniteSet(1 .. Len(calls))
    BY <1>1, FS_Interval
  <2> QED
    BY <1>1, <2>1, FS_Subset
<1>6. Cardinality(above(k)) <= Cardinality(above(n))
  BY <1>4, <1>5, FS_Subset
<1>7. Cardinality(above(n)) < 2
  BY DEF Orphans
<1>8. Cardinality(above(n)) \in Nat /\ Cardinality(above(k)) \in Nat
  BY <1>4, <1>5, FS_Subset, FS_CardinalityType
<1>9. Cardinality(above(k)) < 2
  BY <1>6, <1>7, <1>8
<1> QED
  BY <1>9 DEF Orphans

\* The model sees its last call when that call made no block, and no failed call
\* older than the newest message with a failure (hide-consumed.ts and
\* hide-failed.ts, one after the other).
THEOREM RetryIsAlwaysPossible == RequestSpec => []RetryIsPossible
<1>1. RequestIInv => RetryIsPossible
  <2> SUFFICES ASSUME RequestIInv, index # Stale PROVE RetryIsPossible
    BY DEF RetryIsPossible
  <2> DEFINE known == BlockCalls(prune, made)
             left == AfterConsumed(prune, made, known)
             sent == SentCalls(prune, made, known)
  <2>1. /\ calls \in Seq(CompressCall) /\ Placed(calls, prune, made) /\ index = known
        /\ \A i, j \in DOMAIN calls : i <= j => calls[i].at <= calls[j].at
    BY RequestFacts
  <2>2. /\ Listed \subseteq 1 .. Len(calls) /\ sent \subseteq left /\ left \subseteq Listed
    BY <2>1, SentIsListed
  <2>3. /\ DOMAIN calls = 1 .. Len(calls)
        /\ \A n \in 1 .. Len(calls) : n \in Nat /\ calls[n].at \in Nat
    BY <2>1, CallFacts
  <2>4. ASSUME NEW n \in sent, NEW k \in Listed, ~calls[n].ok, ~calls[k].ok
        PROVE  calls[k].at <= calls[n].at
    <3>1. n \in 1 .. Len(calls) /\ k \in 1 .. Len(calls) /\ n \in Listed /\ n \in left
      <4> HIDE DEF sent, left
      <4> QED
        BY <2>2, <2>4
    <3>2. CASE k <= n
      BY <2>1, <2>3, <3>1, <3>2
    <3>3. CASE n < k
      \* then the first pass has kept k with n, and the second compared them
      <4>1. n \in Orphans(known)
        BY <2>1, <2>4, <3>1, FailedIsUnknown DEF AfterConsumed, ActiveCalls
      <4>2. k \in Listed \ known
        BY <2>1, <2>4, FailedIsUnknown
      <4>3. k \in left
        <5>1. k \in Orphans(known)
          BY <2>1, <3>3, <4>1, <4>2, NewerOrphans
        <5> QED
          BY <5>1 DEF AfterConsumed
      <4>4. n \in AfterFailed(left)
        BY <2>4 DEF SentCalls
      <4> QED
        BY <2>4, <4>3, <4>4 DEF AfterFailed
    <3> QED
      BY <3>1, <3>2, <3>3
  <2>5. ASSUME NEW n \in Listed \ known, \A k \in Listed : k <= n
        PROVE  n \in sent
    <3>1. {k \in Listed \ known : k > n} = {}
      <4>1. Listed \subseteq Nat
        <5> HIDE DEF sent, left
        <5> QED
          BY <2>2
      <4>2. \A k \in Listed : ~(k > n)
        BY <2>5, <4>1
      <4> QED
        BY <4>2
    <3>2. n \in left
      BY <2>5, <3>1, FS_EmptySet DEF AfterConsumed, Orphans
    <3>3. \A k \in left : calls[k].at <= calls[n].at
      <4>1. \A k \in left : k \in 1 .. Len(calls) /\ k <= n
        <5> HIDE DEF sent, left
        <5> QED
          BY <2>2, <2>5
      <4> HIDE DEF left
      <4> QED
        BY <2>1, <2>2, <2>3, <3>2, <4>1
    <3> QED
      BY <3>2, <3>3 DEF SentCalls, AfterFailed
  <2> HIDE DEF known, sent
  <2> QED
    BY <2>1, <2>4, <2>5 DEF RetryIsPossible, sent, known
<1> QED
  BY <1>1, RequestInductive, PTL
=============================================================================
