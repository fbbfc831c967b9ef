----------------------------- MODULE RequestView -----------------------------
(***************************************************************************)
(* What a request shows of a session: the message transform                *)
(* (lib/messages/transform.ts) drops the messages under active blocks      *)
(* (prune.ts), the compress calls none of whose summaries is live          *)
(* (hide-consumed.ts) and the failed calls but those of the newest message *)
(* with one (hide-failed.ts).                                              *)
(*                                                                         *)
(* A summary is shown to the model only as an argument of the compress     *)
(* call that made its block: one entry of a batch for each block.  The     *)
(* calls are the host's, the blocks the plugin's, and a call finds its     *)
(* blocks by its id and by the pair of references of each entry.  Every    *)
(* action is one of CompressionSession together with what becomes of the   *)
(* calls.                                                                  *)
(***************************************************************************)
EXTENDS CompressionSession, Sequences

CONSTANTS
  MaxCalls,   \* bound on the compress calls
  PaddedCalls \* the calls whose first entry gives its references with blanks

ASSUME RequestAssumption == MaxCalls \in Nat /\ PaddedCalls \subseteq 1 .. MaxCalls

VARIABLES
  calls,      \* the compress calls, oldest first: did the call end well, does
              \* the host list it, how many entries has it, and which of the
              \* assistant messages with calls is it in
  open,       \* is a further call one of the message of the last
  made,       \* compressCallId and the references of each block, in memory
  madeOnDisk, \* the same, in the file
  index       \* hideConsumedIndex.allBlockCallIds, or Stale

requestVars == <<vars, calls, open, made, madeOnDisk, index>>

Stale == {0}

NoOrigin == [call |-> 0, entry |-> 0]

RequestInit ==
  /\ Init
  /\ calls = <<>> /\ open = FALSE
  /\ made = <<>> /\ madeOnDisk = <<>>
  /\ index = Stale

Listed == {n \in DOMAIN calls : calls[n].listed}

-----------------------------------------------------------------------------
(* hideConsumedCompressCalls.  prune' is the state the request is built    *)
(* from: synchronised, and merged when the context is full.                *)

IsLive(ps, b) == ps.blocks[b].active /\ ~Off(ps, b)

\* A fault of BlockCalls: only the live blocks are looked at.
BlockCallsLive(ps, origin) ==
  {origin[b].call : b \in {c \in Ids(ps) : IsLive(ps, c)}} \ {0}

BlockCalls(ps, origin) == {origin[b].call : b \in Ids(ps)} \ {0}

LiveEntries(ps, origin, n) ==
  {origin[b].entry : b \in {c \in Ids(ps) : IsLive(ps, c) /\ origin[c].call = n}}

ActiveCalls(ps, origin) == {n \in Listed : LiveEntries(ps, origin, n) # {}}

\* The two newest calls that made no block the plugin knows of.
Orphans(known) ==
  {n \in Listed \ known : Cardinality({k \in Listed \ known : k > n}) < 2}

Entries(n) == 1 .. calls[n].size

Exact(n, i) == n \notin PaddedCalls \/ i > 1

\* rewriteCompressInput: the entries whose references are those of a live
\* block.  A block notes them trimmed, the call holds them as they were given.
Matching(ps, origin, n) ==
  {i \in LiveEntries(ps, origin, n) : Exact(n, i)}

\* A fault of EntriesKept: a call is kept as it is, or not at all.
EntriesKeptWhole(ps, origin, n) == Entries(n)

EntriesKept(ps, origin, n) ==
  IF Matching(ps, origin, n) = {} THEN Entries(n) ELSE Matching(ps, origin, n)

AfterConsumed(ps, origin, known) ==
  ActiveCalls(ps, origin) \cup Orphans(known)

-----------------------------------------------------------------------------
(* hideFailedCompressCalls, on what the pass before it has left.           *)

\* A fault of AfterFailed: the oldest message with a failure is spared.
AfterFailedFirst(S) ==
  {n \in S : ~calls[n].ok => \A k \in S : ~calls[k].ok => calls[n].at <= calls[k].at}

\* The newest message with a failed call keeps all of its own.
AfterFailed(S) ==
  {n \in S : ~calls[n].ok => \A k \in S : ~calls[k].ok => calls[k].at <= calls[n].at}

SentCalls(ps, origin, known) == AfterFailed(AfterConsumed(ps, origin, known))

\* The blocks whose summaries the request carries.
SentSummaries(ps, origin, known) ==
  LET sent == SentCalls(ps, origin, known)
  IN {b \in Ids(ps) :
     /\ origin[b].call \in sent
     /\ origin[b].entry \in EntriesKept(ps, origin, origin[b].call)}

-----------------------------------------------------------------------------
(* filterCompressedRanges: the first user message survives.                *)

FirstUser == {m \in history \cap Users : \A k \in history \cap Users : m <= k}

Hidden(ps) == {m \in history : IsCompressed(ps, m)} \ FirstUser

-----------------------------------------------------------------------------
(* The tools.                                                              *)

\* commitSessionState, loadPruneMessagesState and the snapshots copy the
\* blocks with their call ids.
Track == madeOnDisk' = IF disk' = disk THEN madeOnDisk ELSE made'

\* The new blocks come in the order of the entries.
Origin(b) == [call |-> Len(calls) + 1, entry |-> b + 1 - prune.next]

\* The calls an assistant message makes side by side run one after the other
\* (reserveSessionOperation).
NewCall(ok, size) ==
  LET newest == IF calls = <<>> THEN 0 ELSE calls[Len(calls)].at
  IN /\ calls' = Append(calls, [ok |-> ok, listed |-> TRUE, size |-> size,
                               at |-> IF open THEN newest ELSE newest + 1])
     /\ open' = TRUE

Compress ==
  /\ Len(calls) < MaxCalls
  /\ CompressRange \/ CompressBatch
  /\ made' = [b \in Ids(prune') |-> IF b \in Ids(prune) THEN made[b] ELSE Origin(b)]
  /\ Track
  /\ NewCall(TRUE, prune'.next - prune.next)
  /\ index' = Stale

\* A call that is refused or rolled back changes nothing but the history.  A V2
\* tool reports what went wrong as its result: the host lists the call as
\* completed, unless it was refused before it came to the tool.
CompressFails ==
  /\ Len(calls) < MaxCalls
  /\ \E ok \in {FALSE, FencedHost} : NewCall(ok, 1)
  /\ UNCHANGED <<vars, made, madeOnDisk, index>>

Reopen ==
  /\ Decompress
  /\ UNCHANGED <<calls, open, made>>
  /\ Track
  /\ index' = Stale

\* One request; what the model answers is a new message.  The index is computed
\* anew when a block was made or decompressed since (structureVersion), a merge
\* of this request included.
Request ==
  /\ UNCHANGED calls /\ open' = FALSE
  /\ Transform
  /\ made' = [b \in Ids(prune') |-> IF b \in Ids(prune) THEN made[b] ELSE NoOrigin]
  /\ Track
  /\ index' = IF index = Stale \/ prune'.next # prune.next
              THEN BlockCalls(prune', made') ELSE index

Reload ==
  /\ UNCHANGED calls /\ open' = FALSE
  /\ Restart
  /\ made' = madeOnDisk
  /\ Track
  /\ index' = Stale

-----------------------------------------------------------------------------
(* The host.                                                               *)

Talk ==
  /\ AddMessage \/ RemoveMessage
  /\ UNCHANGED <<calls, open, made, madeOnDisk, index>>

\* Compaction or a revert by the host, of a message with all its calls.
DropCalls ==
  \E n \in Listed :
    /\ calls' = [k \in DOMAIN calls |->
                   IF calls[k].at # calls[n].at THEN calls[k]
                   ELSE [calls[k] EXCEPT !.listed = FALSE, !.ok = TRUE]]
    /\ open' = FALSE
    /\ UNCHANGED <<vars, made, madeOnDisk, index>>

RequestNext ==
  \/ Compress \/ CompressFails \/ Reopen \/ Request \/ Reload \/ Talk \/ DropCalls

RequestSpec == RequestInit /\ [][RequestNext]_requestVars

-----------------------------------------------------------------------------
(* The inductive invariant.                                                *)

CompressCall == [ok : BOOLEAN, listed : BOOLEAN, size : Nat, at : Nat]

\* A block has its place in a call: an entry of its own, of a call that ended
\* well.  A block of the cleanup is of no call.
Placed(list, ps, origin) ==
  /\ DOMAIN origin = Ids(ps)
  /\ \A b \in Ids(ps) :
       /\ origin[b] \in [call : 0 .. Len(list), entry : Nat]
       /\ origin[b].call # 0 =>
            /\ list[origin[b].call].ok
            /\ origin[b].entry \in 1 .. list[origin[b].call].size
            /\ \A c \in Ids(ps) : origin[c] = origin[b] => c = b

RequestIInv ==
  /\ IInv
  /\ calls \in Seq(CompressCall) /\ open \in BOOLEAN
  /\ \A i, j \in DOMAIN calls : i <= j => calls[i].at <= calls[j].at
  /\ Placed(calls, prune, made) /\ Placed(calls, disk, madeOnDisk)
  /\ index = Stale \/ index = BlockCalls(prune, made)

-----------------------------------------------------------------------------
(* Properties, of the state a request was built from, and of those that    *)
(* follow as long as no block changes: there the index stands.             *)

\* The view agrees with the blocks: of the summaries still in the history, a
\* request shows those of the live blocks, which stand for the messages it
\* leaves out, and no other: a summary that was absorbed, or whose messages
\* were restored, is not told twice.  hide-consumed.ts reads the ids of all
\* calls from a cache and the live ones anew; batches are taken apart, by
\* references that must have been given without blanks.
SummariesMatchBlocks ==
  index # Stale =>
    LET shown == SentSummaries(prune, made, index)
    IN \A b \in Ids(prune) :
         made[b].call \in Listed =>
           LET n == made[b].call
           IN /\ IsLive(prune, b) /\ Exact(n, made[b].entry) => b \in shown
              /\ b \in shown /\ (\A i \in Entries(n) : Exact(n, i)) => IsLive(prune, b)
              /\ b \in shown => LiveEntries(prune, made, n) # {}

\* A model whose last call made no block sees that call, and what was wrong
\* with it, when it tries again; and of the calls the host lists as failed it
\* sees none older than the newest message with one.  Two passes hide calls:
\* the first counts the failed ones, call by call, among the orphans, of which
\* it keeps two, and the second finds its message among those that are left.
RetryIsPossible ==
  index # Stale =>
    LET sent == SentCalls(prune, made, index)
    IN /\ \A n \in sent, k \in Listed :
            ~calls[n].ok /\ ~calls[k].ok => calls[k].at <= calls[n].at
       /\ \A n \in Listed \ BlockCalls(prune, made) :
            (\A k \in Listed : k <= n) => n \in sent
=============================================================================
