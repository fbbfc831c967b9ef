# opencode-acp: a verification project

opencode-acp is a plugin of the opencode coding agent. It gives the model a
`compress` tool: a range of the conversation is replaced by a summary the model
writes, the original messages stay in the host's database, and a `decompress`
tool shows them again. The plugin's own state is the graph of *compression
blocks* of each session, kept in memory, saved to one JSON file per session, and
*replayed* before each request to the model. Around it the plugin decides when
to ask the model to compress, what to offer it, what of the history a request
shows, and how that view is put back into the host's own format.

This directory holds TLA+ modules for that state and for the machinery that
guards and uses it, TLC configurations that check them on small instances, and
TLAPS proofs of most properties for every instance. Line numbers are those of
the sources under `src/`; `PROJECT.json` maps each definition to them.

    tlc -workers 2 -config session.cfg MCCompressionSession   # a run
    tlapm CompressionSessionProofs.tla                        # proofs

## 1. The system

### 1.1 Components

| Component | State | Operations | Correct when |
|---|---|---|---|
| **Compression blocks** `lib/compress/state.ts`, `lib/state/utils.ts`, `lib/messages/sync.ts`, `lib/compress/decompress-logic.ts`, `lib/gc/merge.ts` | `prune.messages`: `blocksById`, `activeBlockIds`, `byMessageId`, `nextBlockId`, `structureVersion` and the last synced version | apply a compression, merge old blocks, replay (`syncCompressionBlocks`), deactivate, save, load | the indexes agree; the replay never disagrees with what the operations left; no message is orphaned |
| **Session operations** `lib/compress/{range,range-utils,pipeline,types,decompress}.ts`, `lib/hooks.ts` | the live state, its file, the host's messages | compress (one range or a batch), decompress (block or range, one tier or all), transform, restart | only a decompress shows a message again, and only what was asked for |
| **Protection filters** `lib/compress/protected-content.ts`, `lib/protected-patterns.ts` | none | filter a range | protected tool outputs, the last user message and the recent messages are not compressed |
| **Range resolution** `lib/compress/search.ts` | none | references to messages and blocks, widened to whole tool pairs | what was offered is accepted; no tool pair is split |
| **Quality gate** `lib/compress/quality-gate/` | a one-shot retry mark | evaluate, reject, retry | one rejection lets one poor summary through |
| **Rebuild** `lib/state/rebuild.ts` | none | blocks from the parent's file, or from the compress calls of the history | hides what the parent hid, and no less than the calls said |
| **Message references** `lib/message-ids.ts` | `byRawId`, `byRef`, the next index | allocate, reset | no reference names two messages |
| **Session file and save queue** `lib/state/persistence.ts` | per file: the item being written, the pending item with its waiters | save, write ends or fails, load | no stale write lands last; each caller is told the truth |
| **Session registry** `lib/state/state.ts`, `lib/state/transaction.ts` | `states`, `mutationTails`, `initializations`, `guardedWork`, `activeWork` | `withSessionMutation`, `withSessionMutationAndInitialize`, `enforceSoftCap` | one operation at a time per session, all of it or nothing; no eviction under work |
| **Compression timing** `lib/compress/timing.ts`, `lib/v2/timing.ts` | start and pending entries shared by all sessions | record, apply, restore, dispose | a duration reaches its block |
| **Pruning, hiding** `lib/messages/prune.ts`, `lib/compress/hide-*.ts` | a cache by `structureVersion` | which messages and compress calls a request shows | what is hidden is spoken for by a summary, and no summary is told twice |
| **Nudges** `lib/messages/inject/` | anchors, growth baselines | when to ask the model to compress, and what to offer it | asks neither never nor each turn; offers only what is accepted |
| **Context budget** `lib/messages/enforce-budget.ts`, `truncate-tools.ts`, `lib/token-utils.ts` | none | estimate and trim one request | the estimate is not below what is sent; what is saved is what is counted |
| **V1 host adapter** `lib/v1/`, `lib/hooks.ts` | closures | hooks and tools on the live state | a failed save rolls back |
| **V2 host adapter** `lib/v2/` | leases, the stack of registrations, the fence of a clone | setup, tools on a clone, commit then save, hooks, disposal | disposal waits for all work; nothing is accepted after |
| **Proxy detection** `lib/v2/proxy.ts` | `proxyState.disabled` | a catalog monitor that reloads tools and commands | both domains show what the plugin acts on |
| **V2 projection** `lib/v2/projection/` | none | normalize a request, restore, patch | untouched parts survive; the edited view is what is sent |
| **Commands, configuration, prompts, notifications, update, filters** | none that is saved | reports, text, I/O | |

### 1.2 How they interact

Every operation goes through the **registry**: it is queued behind the
operations of its session, loads the session when it is not in memory, runs, and
is kept or undone. A session without a file is **rebuilt**. Inside it the
**session operations** resolve a range, apply the **filters** and the **gate**,
change the **blocks** and ask the **save queue** to write them. V1 tools work on
the live state, save, and roll back when the save fails; V2 tools work on a
clone, commit it to the live state, and save after, if the lease of their
**plugin instance** still holds. The **transform** of a request replays the
blocks, merges old blocks when the context is full, leaves out what is
compressed, decides about a **nudge** and what it offers, and trims the request
to the **budget**. On the V2 host the transform works on a **projection** of
the history, and its edits are patched into the provider's request. The host
appends messages, removes them (revert, compaction), forks sessions, and may
stop at any time.

### 1.3 What is hard in it

* **A graph edited by hand.** `applyCompressionState` maintains three indexes in
  five loops, absorbs blocks of one tier only, and leaves the rest to the replay,
  which is skipped when a version number says so.
* **Chains of tiers.** What a replay keeps depends on compressions, merges and
  decompresses made long before; a decompress of one tier relies on the next
  replay to revive exactly the tier below.
* **A clock as an order.** The replay sorts by `Date.now()`.
* **Failure.** Saves fail; files are overwritten in place; processes end between
  a commit and its save; operations throw half way; one of two reloads fails.
* **Interleaving.** Saves of a session overlap; calls queue on their session;
  the caller that finds an initialization in progress waits for it; idle sessions
  are evicted while others queue; an instance is disposed of under its calls.
* **Planned here, executed there.** A nudge offers ranges on one history, the
  tool takes them on a longer one; a fork has the parent's messages under other
  ids; a view is edited and the edits are applied to another format.
* **Stale measures.** The size of the context is what the last reply reported,
  which is the size before what that reply did.

`PROJECT.json` lists each hazard at its line with the properties that cover it,
or the reason why none does.

## 2. The modules

| Module | Models | Composition |
|---|---|---|
| `CompressionBlocks` | the block graph as values: `Apply`, `Merge`, `Sync`, `Deactivate`, `Saved`, `Load`, and the predicates `Typed`, `Indexed`, `Sound` | |
| `CompressionSession` | one session: live state, file, messages; one action per guarded operation | extends `CompressionBlocks` |
| `CompressionReplay` | the replay as the loop of the source, round by round | extends `CompressionSession` |
| `RequestView` | compress calls and what a request shows of them | extends `CompressionSession` |
| `ForkRecovery` | a fork: references, translation, replay of calls | extends `CompressionSession` |
| `Ranges` | ranges and candidates of a nudge, the planner of the tool, the gate | |
| `NudgeGate` | when a request carries a nudge | |
| `ContextBudget` | estimate and guard of one request | |
| `V2Lowering`, `V2Projection`, `V2Context` | the host's lowering; the projection with its provenance; the context hook with restore and patch | each extends the one before |
| `SessionFile` | the abstract promise of persistence | |
| `SaveQueue` | the queue of one session file | extends and implements `SessionFile` |
| `SessionRegistry` | guarded calls on several sessions, opening, undo, eviction | |
| `PluginInstance` | the abstract promise of a setup of the plugin to its host | |
| `V2Instance` | one setup: registrations, leases, calls, hooks, proxy monitor, disposal | implements `PluginInstance` (`INSTANCE ... WITH`) |
| `MC...` | constants for TLC | |
| `...Proofs` | theorems and lemmas | extend the module they are about |

### 2.1 CompressionBlocks and CompressionSession

A block keeps what decides its fate: `active`, `byUser` and `byUserDeep`
(decompressed), its `tier`, the blocks it `consumed`, its `parents`
(`parentBlockIds`), the messages it captured and those it stands for
(`effective`), `anchor`, `createdAt`, and the aging fields. The state has the
blocks, `activeIds` (`activeBlockIds`), per message the blocks ever over it
(`all`) and over it now (`act`), `next` (`nextBlockId`), and two marks, `synced`
and `verified`, for the version numbers of the fast path.

| Action | Code |
|---|---|
| `CompressRange`, `CompressBatch` | the compress tool: `range.ts` resolve, filter, phantom check, `applyCompressionState`, save |
| `Decompress` | `decompress.ts`: target, refusal when nested, mark, sync, save |
| `Transform` | the message hook: `syncCompressionBlocks`, `runBatchCleanup` if the context is full, an optional save |
| `Restart` | the process ends, the file is loaded |
| `AddMessage`, `RemoveMessage` | the host |

What was abstracted, and why nothing is lost:

* *Ranges.* Any pair of listed messages, in order: reversed bounds are swapped by
  the code, missing ones refused, and the extension to whole tool pairs
  (`Ranges`) yields another such pair. `BoundaryKinds` keeps whether a bound was
  given as a block.
* *Filters* are the sets `ProtectedTools`, `LastUser` and `Recent`. The token
  form of the recent filter keeps a suffix of the visible messages, as the count
  form does; the count `PreserveRecent` stands for both.
* *Token counts, summaries, tool ids* do not decide what is active. `long` says
  whether a summary exceeds `gc.maxOldGenSummaryLength`, all the merge asks.
* *Age* is capped at `PromotionThreshold`, past which nothing reads it.
* *Synced and verified* replace the version counters: a bump clears a mark.
  `Saved` drops both, as the file does not hold them.
* *A save* is part of the atomic step that asks for it. That is what
  `SessionRegistry` (one operation of a session at a time, all or nothing) and
  `SaveQueue` (an awaited save settles within it) show. `MaySave` lets a save be
  missing or fail. A V1 compress whose save fails is rolled back, which is no step.
* *Left out*: `activeByAnchorMessageId`, written and saved, never read; the
  grouping of legacy message-mode blocks, which the current tools do not make; an
  undefined `generation`. A missing file is a session with no blocks here, and
  what is made of one is in `ForkRecovery`. A reset on compaction keeps
  `prune.messages`, so it is no step.

`Live(ps)`, the blocks a replay leaves active, is a closed form: the blocks not
decompressed, minus those that a later such block consumed. The code is a loop
over blocks sorted by time and id; `CompressionReplay` states that loop as a
recursive function of the rounds, TLC checks that the two agree in every reachable
state, with a clock that steps back, and `ReplayReachesLive` proves it. The closed
form is what the other proofs use.

### 2.2 RequestView

Each action is one of `CompressionSession` together with what becomes of the
compress calls, which belong to the host's history. A block knows its call and
its entry in it; `EntriesKept` is what `rewriteCompressInput` leaves of a batch,
matched by references that the block notes trimmed and the call holds as they
were given (`Exact`). `index` is the cache of call ids by `structureVersion`.
A model may make several calls in one message: `at` is the message of a call,
`open` whether a further one still goes there (a request ends the message), and
the host drops a message with all its calls. `AfterConsumed` and `AfterFailed`
are the two passes, in their order: the first goes by calls, the second by
messages, and keeps every failed call of the newest message with one. The
removal of messages that end up empty follows from these sets and is left out.

### 2.3 ForkRecovery

The parent is a `CompressionSession` whose saves succeed; `refs` are its message
references, handed out in the order of the history and never twice, so a
reverted message leaves a gap. `Call` is a compress that notes its input
(references or block ids) in the newest message. `Fork` copies a prefix of the
history under new ids: a message of the fork is its place in it. `Open` is
`ensureSessionInitialized` without a file: `Restored` when the host names a
parent whose file is at hand and every active block of it can be translated
(`Alike` is the fingerprint, `Content` what it sees), and else `Rebuilt`, the
calls replayed one after the other in the search context of their moment. `calls`
are the copied calls that had completed when the host forked: one still at work has
no output to copy and is never replayed. One
entry per call, at two fixed messages; only the newest message is reverted.
Message-mode entries of old versions, and the widening to tool pairs, are left out.

### 2.4 Ranges

A message has an author, a size in characters, perhaps a protected part and a
tool call that spans two messages. The loops of the nudge over messages, groups
and lines are stated by what they leave. `Groups` are the runs of plain messages
(`buildCompressibleRanges`; `RunAt` is one turn of its loop), `Recommended` those
with enough in them (`filterRecommendedRanges`), and a line of `Shown` is such a
run with the protected messages and the runs that adjoin it
(`formatCompressibleRanges`). `UnitOf` are the messages that no `Cut` parts (the
merged spans of tool calls in `candidates.ts`), `Drafts` the large units and the
joined small ones, `Candidates` those that `validateDraft` and the planner of the
tool let through. `Answer` is a compress call that arrives when the history has
grown: it resolves (`Resolved` with the widening to whole pairs), filters
(`Selected`), checks the size (`PlannerAccepts`), the novelty (`Phantom`) and the
summary (`Bypassed`, the retry mark). `last` keeps how it ended. The verdict of
the gate on a summary is an input. A call is answered before the next compress
call, as the host runs tools within a turn (`AllAnswered`).

### 2.5 NudgeGate

The context is a number of units of tokens. `Request` measures it by the last
report (`Current`), settles the compress call of the turn (`AfterCompress`),
corrects the baseline, decides (`Allowed`: growth since baseline and since the
last nudge, limits, emergency), fires tier triggers (`Due`), and saves when
`Persists`. The reply of the model is `Work`, `Compress` or nothing; `Restart`
loads the saved state, `Compaction` empties the context. `low` is a history
variable: the least size measured since the last nudge, carried through corrected
baselines, tier triggers, compactions and restarts. It is `Unset` when there was
no nudge, or a compress call, or the request that settles one, has answered it.

### 2.6 ContextBudget

A message has text, one tool output, and the usage the host reported of it.
`Estimate` is `estimateWireTokens`, `Wire` what the backend will count;
`Truncated` is `truncate-tools.ts`, and `Enforced` both phases of
`enforce-budget.ts`, each a `Pass` over the outputs in its own order, with the
account of what is still to be saved. A request is reported, aborted without
usage, refused, or left unanswered. A report notes in `cut`, a history variable,
by how much its request was shorter than the history; `Unseen` is what an
estimate that starts from it has no means to know.

### 2.7 V2Lowering, V2Projection, V2Context

`V2Lowering` has the sources of the V2 history (text, reasoning, files, tools of
all kinds, controls, shells, checkpoints, compactions) and how the host lowers
them to provider messages: external, read off what `normalize.ts` expects.
`V2Projection` is `normalizeV2ProjectedHistory`: it pairs sources and messages
and gives every part the places it came to. `V2Context` is the hook, in phases:
the shared transform edits the view (drops messages, shortens outputs, replaces
inputs, adds references, nudges and its own message), the host may touch the
request meanwhile, sources the patch must not remove are restored, and
`applyV2ContextPatch` applies the edits in the passes of the source, or refuses
and leaves the request as it was. The loops over sources and calls are recursive
functions of a step each (`Claimed`, `CheckpointClaimed`, `ResultClaimed`,
`TextPlaced`). A lowered part is the same object as long as
its name and `gen` are the same, which is what the patch compares. A message is
found again by its identity or its id (`Told`, the map `currentByOriginal`): a
message of role tool has no id, so an equal copy of one is not found. It is then
no target for a part of ACP's (`IsTarget`, `NoTarget`) and no boundary for a
message of ACP's (`InsertionPoint`), and a source is removed only while its
messages are the very ones it was paired with (`Forbidden`).

### 2.8 SaveQueue and SessionFile

`SaveQueue` is `persistence.ts` for one file: `Save`, the write that ends or
fails, and a crash that truncates it or not. Saves are numbered and a snapshot is
named by its save. The queue object that the code deletes when it is idle is an
empty queue. `SessionFile` is what callers rely on: each waiter is told `saved`
only when its snapshot or a newer one is in the file, `failed` when a write that
covers it failed, and the file never goes back. `file` is the snapshot last
written whole, and `readable` whether a write since has left less than that. The
file is overwritten in place, so a caller's snapshot lasts only until a newer save
fails or is lost half way: `WholeUnlessNewer` says that nothing else can end it. `SaveQueue` extends it and adds the
queue to its variables, so the refinement mapping is the identity on the file and
the answers, and `Implements` is `FileSpec` itself.

### 2.9 SessionRegistry

A call is numbered in the order it was made, and its effect on a session is its
own number: a state in memory, and a file, is a set of calls. There are three
kinds: `open` (`withSessionMutationAndInitialize`: transforms, commands),
`fenced` (V2 tools, on a clone) and `live` (V1 tools and hooks, on the state
itself, whose changes stand unless the operation takes them back: `Break`). A
call is reserved, started when the one before it has ended, loads its session if
need be, operates, is accepted or rejected, perhaps saves, and is done.
`guardedWork` and `activeWork` are read off the phases of the calls. A clone
counts as the state while its call runs, for nobody is shown either then. The
release of a reservation and `enforceSoftCap` belong to the last step of a call:
they run in the microtask that ends it.

Left out: states seeded raw and the fallbacks for test doubles; the timing maps
shared by sessions (`V2Instance`); the un-awaited save of the system hook, which
may outlive its reservation (a listed hazard).

### 2.10 V2Instance and PluginInstance

`V2Instance` is one setup. `held` counts the stack of registrations (`Register`,
and `Release` in disposal); `IsActive` is the fence; each operation has a step
from its before hook over its lease, its place in the queue of its session, its
work, its commit and save, to its answer and after hook. The after hook may find
the session no longer in memory, or fail: then it gives the start up and no
duration is noted (`Unattached`, `timing.ts:110`). `starts` is the map all
sessions share: a call that fails puts back the snapshot it took
(`RolledBack`, `restoreSharedTiming`), which is what `upset` records. The monitor
reads the catalog, flips `disabled`, reloads both domains, and reverts and
reloads again when one fails. `PluginInstance` is what the host sees: while open
it takes up work and acts on it; closed, it accepts nothing; what it holds goes
when all work has ended, all of it. The mapping takes `open` from the fence,
`busy` from the leases, `effects` from commits and durations, `stored` from saves.

## 3. What is checked

### 3.1 Passing runs

| Run | Instance | Shows |
|---|---|---|
| `session` | 4 messages, 3 blocks, users {1,4}, protected {2}, one recent message kept, summaries long enough to be merged, V2, steady clock | **IInv**, the inductive invariant of the proofs (types, indexes live and in the file, lineage, the fixed point of the replay), with saves that fail. **NestedIsRefused**: the ancestor that makes a decompress futile is found. **SoftRestoresOneTier**, **FullRevivesNothing**: a decompress restores one tier, or goes down to the messages |
| `session_clock` | 2 messages, 3 blocks, V1, a clock over {0,1} that may step back | **NoSummaryLost**: a message stays under an active block until its block is decompressed. **OnlyDecompressReveals**, **RevealsOnlyTarget**. **ReplayIsLive**: loop and closed form agree |
| `request` | 2 messages, 3 blocks, 3 compress calls, the first entry of the second with blanks in its references, V1 | **SummariesMatchBlocks**: a request carries the summaries of the live blocks and no others. **RetryIsPossible**: it shows the last call when that made no block, and of the failed calls none older than the newest message with one. Calls may lie in one message; both hold of every state whose cache of call ids stands |
| `fork` | 5 messages, 3 blocks, calls at 3 and 5, message 4 says the same as 2 and call 5 as 3 | **RestoredAsParent**: a translated state hides what the parent's did. **ReplayedIsSound**: a replayed one has indexes, lineage and fixed point, and no protected output. **ReplayHidesAsMuch**: it hides what the copied calls compressed, where references stayed the same and nothing was merged; a call that names a block counts where nothing was decompressed |
| `ranges` | 5 messages of five kinds, floor 8 characters, one recent message kept | **ShownIsAccepted**: a listed range is not refused. **CandidatesAreExact**: no candidate is refused or loses a message; one may gain a user message that another has overtaken. **BypassIsEarned**: a poor summary passes only after a rejection |
| `nudges` | a window of 6 units, tier 2, nudges at growth 2, shrinks of 1 and 4 | **NudgesSpaced**: below the emergency a nudge comes a floor above the least size since the last unanswered one, over restarts, compactions and corrected baselines. **NeverSilent** (liveness): a session that goes on is never left to fill its context without a word |
| `budget` | 5 messages, a window of 22 or none, outputs short and long | **EstimateCoversRequest**: what is estimated is below what is sent by no more than `Unseen`, on every history. **GuardDelivers**: what the guard counts as saved is saved, or nothing is left to clear |
| `projection` | all pairs of 17 kinds of sources, 30 triples, and a failed call before two others; requests disturbed or not (disturbed next to a file, two calls or a failed call); anchored nudges | **OpaqueKept**: what the plugin cannot read is in the request as it was. **ViewRealized**: an accepted patch is the edited view. **PairsWhole**: no call without its result. **OrderKept**: host parts in their order, and ACP's message behind what it followed in the view, but for copies the patch cannot find. **EditsAccepted**: the view of an undisturbed request is not refused. **RestoredRemovesNothingProtected** |
| `save_queue` | 5 saves | **SavedIsInFile**: what a caller was told is saved is in the file, which can be read unless a newer save failed, was lost, or is being written. **FailedStaysOut**, **NeverGoesBack**, **EverySaveSettles** (liveness), **Implements** (refinement) |
| `registry` | 2 sessions, 4 calls of any kind, room for 1 | **InOrder**, **BarrierIsHeld**, **GuardedIsRegistered**, **CommittedIsShown**, **CapHolds**, **EveryCallEnds** (liveness) |
| `instance` | a compress call and a request of one session, a request of another, one catalog update | **ImplementsInstance** (refinement, with liveness of disposal). **DomainsConverge**: tools and commands show what the plugin acts on. **TimedUnlessUpset**: a committed call whose after hook ran to its end gets its duration unless a rolled-back one upset its start |

Bounds. A block of a higher tier must hide a message nobody hid, or gather two
siblings, so three messages and three blocks are the fewest that reach tier 3 (a
chain of two absorptions), a tier-2 block skipped by a range between messages, and
two siblings absorbed or merged, with the decompresses and recompressions between.
Three blocks with two clock values make
a consumer older than what it consumed, and a merge of such blocks. Four messages
are the fewest with a protected one inside a range and a last user message after
it. `PromotionThreshold` is 1, so every block can age and be merged. Three calls
are one more than the orphans `hideConsumedCompressCalls` keeps, and put two in
one message beside an older or a newer one. In a fork a
second call may name a block of the first by id, and a duplicated text tells
references from contents. Five messages hold a tool pair, a recent message, a
user message, and the call that answers. A window of 6 units with a floor of 2
leaves room for a nudge, growth, and a second one below the emergency; a shrink
of 4 and a compaction both take the size further below a baseline than `Growth`,
so baselines are corrected between two nudges. In
`budget`, 22 less the reserves is under the sum of what five messages may
hold and above what the guard may not touch; a shortened output of 4 is smaller
than some outputs and larger than others. Pairs of sources reach every
combination of neighbours; the triples put the opaque ones between. Five saves
give one being written, one pending that replaces another, and one more after a
failure. Four calls on two sessions with room for one give two queued behind one,
an eviction between them, and a reopening; an operation of another session is
what may upset a start. Nothing is declared symmetric: most
runs have action or liveness properties. Deadlock is checked for `save_queue`,
`nudges`, `ranges` and `projection`, whose systems never stop; the others stop
when their bounds are used, as their cfgs say.

Each property of a passing run has a mutant in `PROJECT.json`: a plausible fault
of a modelled definition, given beside it as "A fault of ...", under which TLC
finds the property violated.

### 3.2 Where the code and its documentation part

One such disagreement is a run of its own: `claim_denial`. A V2 compress call
whose instance is deactivated after it was committed is answered "ACP is shutting
down; this operation was not executed." (`v2/tools.ts:46`, `:288`), yet its block
is in the live state and reaches the file (`types.ts:212`).

The others were met while modelling (each was a counterexample of TLC against the
modules here) and are on record as text:

| Says | Does |
|---|---|
| "batch cleanup consolidates multiple old-gen blocks into a higher-tier block" (CONFIGURATION.md:526) | the merged block has no tier, read as 1 (`merge.ts:118`) |
| promotion after a number of message-transform cycles (CONFIGURATION.md:512) | compressions count, transforms do not (`compress/state.ts:184`) |
| the `summary` of a compress call is always kept (README.md:591) | a merge leaves a block without a call, and the calls of its sources are hidden (`hide-consumed.ts:131`) |
| the phantom check excepts a distillation that merges siblings (`pipeline.ts:229`) | between message bounds two siblings of tier 2 are counted but not absorbed: the new block hides nothing |
| the most recent user message is always protected (CONFIGURATION.md:457) | not when it has an entry from a block since decompressed (`protected-content.ts:248`) |
| callers settle when their snapshot is durable (`persistence.ts:233`) | a later write that fails destroys it: the file is overwritten in place |
| evicted sessions reload from their file (`state.ts:60`) | a session whose last save failed is evicted all the same |
| a missed match leaves a call intact "rather than risk dropping a live summary" (`hide-consumed.ts:25`) | references with blanks do not match what the block noted (trimmed, `range-utils.ts:68`); when a sibling of the batch matches, the live summary is dropped |
| "Keeps the MOST RECENT failed compress call"; older failures are removed (`hide-failed.ts:8`) | all failed calls of the newest message with one are kept (`hide-failed.ts:17`, `:34`), the older of two side by side as well |
| "a ref in a compress input points to the same logical message in both original and fork" (`rebuild.ts:11`) | a reverted message leaves a gap in the parent's references and none in the fork's: the replay hides messages that were never compressed. So does a fork opened as a child whose parent's file is out of reach, where all references are one lower (`state.ts:695`, `message-ids.ts:163`) |
| a replay meets "the primary goal (pruning compressed messages to avoid overflow)" (`rebuild.ts:19`) | decompresses are not replayed: a block that one had brought back is consumed in the replay, a later call that names it does not resolve and is passed over, and what it compressed is sent again. It takes three calls and six messages; `ReplayHidesAsMuch` sets such calls apart |
| `rebuildRangeInvocation` "mirrors" the compress tool (`rebuild.ts:316`) | it applies only the filter of protected tools and no phantom check: it may hide the last user message, and later block ids in the history may shift |
| a failed size check after a nudge is ruled out by the floor (`inject/utils.ts:968`) | the floor counts tokens rounded per message, the check characters: messages of 4k+2 characters are worth more to the nudge than to the tool; and a minimum that is no multiple of four is rounded down (`inject/utils.ts:997`). These are the two hypotheses of `ShownIsTaken`; the kinds and the minimum of `ranges` satisfy them |
| an EPISODE is "a contiguous historical segment of smaller units" (CONFIGURATION.md:244) | small units before a guarded one are joined also around a large one (`candidates.ts:275`): when that is the last user message, spared while planning, and another user message comes before the call, the call takes it too |
| the baseline after a compression is "the real post-compression usage" (`inject.ts:168`, devlog REQ.md:21) | the usage reported by the compressing reply is that of before; with a user message or one more request in between it is corrected late |
| the budget is "the last line of defense against the model backend rejecting the request" (`enforce-budget.ts:107`) | the estimate is short of tool outputs that arrived in the reporting message itself, which in the loop of an agent is the usual place, and a trimmed request makes the next report small: a full one follows. Both are parts of `Unseen` |
| "truncate the largest visible tool outputs" (`truncate-tools.ts:38`) | an output just over 4000 characters grows by the marker (`truncate-tools.ts:125`; the guard does check, `enforce-budget.ts:195`), and the estimate of a request with one may fall short by that: it is in `Unseen` too |
| insertions "may be inserted into a known message" (`patch.ts:1223`) | an inserted part before a tool call of an assistant message makes the check of opaque parts (`patch.ts:1374`) refuse the whole patch |
| "A call and its role=tool result are always removed together" (`patch.ts:1398`) | by its original index, which an insertion may have shifted (`patch.ts:1420`), in views the transform of today does not build: the part that has the place of a removed one by then goes too. `Displaced` sets such parts apart in `ViewRealized` and `PairsWhole` |
| ACP's guidance is "at the END of the messages array" (`inject.ts:72`) | where the view keeps nothing but it, the sources that are restored go behind it (`restore.ts:186`); `OrderKept` asks for its place among what comes before it only where there is something before it |
| the same line | a host message of role tool that another plugin replaced by an equal copy passes the check of the request, yet has no id and is not found again (`patch.ts:134`, `:804`): ACP's message goes before it, and so between a call and its result. `OrderKept` exempts such copies |
| "Restore only entries removed" from the timing maps (`types.ts:228`) | the maps are cleared and filled from the snapshot: starts of other sessions go, or come back |

### 3.3 Fairness

`CompressionSession` and what extends it assume none: their properties are of
safety. So do `Ranges`, `ContextBudget` and `V2Context`. `SaveQueue` has
weak fairness of `WriteEnds`: a file-system promise settles, and the event loop
runs the drain that awaits it. `SessionRegistry` has weak fairness of a step by
some call: operations settle and the event loop runs what awaits them; a rejected
save settles as well as one that is done. `V2Instance` has weak fairness of the
release of a registration, of the monitor's own steps and of each operation that
was begun, for the same reason; nobody has to begin one, dispose, or update the
catalog. `NudgeGate` states what `NeverSilent` is about, a session that goes on:
requests are made, replies come, and the model again and again does work. Nothing
else is assumed of the host.

## 4. What is proved

Assumptions are those on the constants, named in the modules that declare them:
any numbers of messages, blocks, saves, calls and clock values, any sets, any
sizes and thresholds, both hosts. Each theorem on a property of a run is listed in
`PROJECT.json` with that property; TLC checked each invariant on the run first.

**CompressionSession** (`CompressionSessionProofs`, with the lemmas on values of
`CompressionBlocks`). The invariant is `IInv`: both states are `Typed`;
both are `Sound`, that is `Indexed` (the three indexes say what the blocks say),
of sound `Lineage` (what a block consumed is older, names it as a parent, and its
messages are among its own), `Retained` (a block that is neither active nor
decompressed was consumed by one that is not decompressed), and at the replay's fixed point when
marked synced; and, with a clock that never steps back, at the fixed point
always. The fixed point cannot be left out: that skipping the replay is exact is
not inductive without knowing that `Apply` and `Merge` keep it, and these keep it
only because the lineage is sound. Each operation on values has lemmas that it
keeps `Typed`, `Indexed`, `Lineage` and the rest; each action is then one step of
the induction. `NoSummaryIsLost` follows consumers upward from a block that is
not active: they are larger, finitely many, and the largest is active.
`FullDecompressRevivesNothing` needs the clock hypothesis: with a clock that steps
back a decompress that went down everywhere may still revive a block.
`ReplayReachesLive` is an induction over the rounds of the loop: after each, what is
active are the visited blocks that are not decompressed, less those a visited one
consumed. Theorems: `Inductive`, `TypeCorrect`, `IndexesAlwaysAgree`, `FastPathIsExact`,
`AlwaysAtFixpoint`, `NoSummaryIsLost`, `NestedIsAlwaysRefused`,
`OnlyDecompressShows`, `OnlyTargetIsRevealed`, `SoftShowsOneTier`,
`FullDecompressRevivesNothing`, `ReplayReachesLive`, `ProtectedToolsAlwaysStay`.

**RequestView** (`RequestViewProofs`). `RequestsKeepTheSession`: what extends the
session takes no step the session does not take, so `IInv` holds of it. The
invariant adds, for the live state and the file, that each block has an entry of
its own in the call that made it, which is what keeps summaries apart when a merge
or a restart moves blocks about, and that the cache of call ids is that of the
blocks or marked stale, and calls lie in the order of their messages. Both properties are
invariants: they speak of every state whose cache stands, which are those of a
request and what follows until a block changes. Theorems: `RequestsKeepTheSession`, `RequestInductive`,
`SummariesAreThoseOfTheBlocks`, `RetryIsAlwaysPossible`.

**ForkRecovery** (`ForkRecoveryProofs`). Likewise `ForkKeepsTheSession`. That a
replayed state is sound is an induction over the messages of the fork, with the
lemmas on `Apply` of the session; that a translated one hides what the parent's
did follows from its being complete, `Restorable`, and the parent's being `Sound`.

That a replay hides enough needs to know what the parent's calls were. `Told` says
it: references grow with the messages; a completed call lies in the newest message
of its time, with a range before it; its block hides what the range and the
absorbed blocks give; and as long as nothing was decompressed a block took in all
blocks anchored in its range that none had consumed (`Gathered`), the blocks it
names among them.
`ForkTold` says the same of what was copied: a copied call has its range, and the
calls before it, copied too. `Place` is then an order isomorphism from the copied
messages, with equal references a call resolves to the copies of its ends, and the
state after n messages hides the ranges of the calls up to there (`Staged`); where
nothing was decompressed it has, block for block, the anchors, tiers and consumed
sets of the parent (`Mirrors`), which is what lets a call that names a block
resolve. A block hides more than its range by what it absorbed; a message under it
is in the range of the least of these blocks that hides it. The steady clock is a
hypothesis of the part on named blocks: with one that steps back a sync of the
parent may bring back a consumed block, and a later call may name it. Theorems: `ForkKeepsTheSession`,
`ForkInductive`, `ReplayIsSound`, `RestoringAgrees`, `CallsAreTold`,
`ReplayHidesEnough`.

**Ranges** (`RangesProofs`). A call acts on a history that extends the one the
nudge saw. The lemmas say what that cannot change: the zone of recent messages
only moves on, the spared user message changes only for a later one, a range
resolved once resolves to itself, and a message that was plain is plain.
Candidates are disjoint, because units are classes and drafts are unions of units
that share none; so a batch of them does not overlap, and each is taken whole. For
listed ranges the sums are compared: what counts for the nudge is, message by
message, at most a fourth of what the tool counts. The last user message needs the
invariant: of the user messages that could be taken the tool spares the last, so
one that was ever in a block has a later one that was not (`UsersSpared`), and the
message the nudge does not count is the one the tool spares, or one before it.
Theorems: `RangesInductive`, `CandidatesAreTakenExactly`, `RiskIsAcknowledgedOnce`,
and `ShownIsTaken`, under the two hypotheses without which it is false (see 3.2).

**NudgeGate** (`ContextLimitProofs`). The invariant: what growth is measured from, in
memory and in the file a restart reads, is no less than the least size since the
last unanswered nudge (`Measures`). It must hold of the file too. A corrected
baseline is the size of its own request, which `low` has taken in, and after a
compaction there is nothing to measure from until a request has set it. Theorems:
`NudgeInductive`, `NudgesAreSpaced`.

**ContextBudget** (`ContextLimitProofs`). `BudgetIInv`: what is remembered of the
system prompt covers it, and a report is of a reply behind a first message of the
user, counts at least the system prompt and both, and, if no compaction came since,
everything before it but what was cut of its request (`Reports`). The estimate
then splits the sum of a request at its last report; what the two halves leave
over is `Unseen`, so `EstimateCovers` has no hypothesis on the history. For `GuardDelivers` an order
by rank visits each place of a finite set once (`RankedCovers`, by counting), and
a pass keeps the difference of the account and of what the backend would count
(`PassKeeps`); when a pass ends with its need unmet, everything it visited is at
its floor. Theorems: `BudgetInvariant`, `EstimateCovers`, `GuardHolds`.

**SaveQueue** (`SaveQueueProofs`). The invariant: at most one item is being
written, it is older than the pending one, which is the newest asked for, and the
waiters of the two are exactly the callers not yet answered. Without it a write
could settle a caller it does not cover. That the file can be read unless a newer
save spoiled it (`WholeUnlessNewer`) follows its own induction: whoever truncates
it is writing a save newer than what it holds, and such a save ends whole, fails,
or is lost, each of which leaves its mark. Theorems: `QueueInductive`,
`SavedStaysInFile`, `FailedNeverLands`, `FileNeverGoesBack`, and
`QueueImplementsFile`, the refinement of `SessionFile` but for its fairness.

**SessionRegistry** (`SessionRegistryProofs`). The invariant says per session
that calls wait in a chain that ends at its tail, only the first works, the
barrier is that of the call that opens the session, and what memory and file hold
are calls that are done or at work. Theorems: `RegistryInductive`, `OneAtATime`,
`NoStrandedBarrier`, `NoEvictionUnderWork`, `OnlyAcceptedWork`, `RegistryFits`.

**V2Instance** (`V2HostProofs`). The invariant: registrations are held as the
stage of the setup says and a lease only by who works (`Stacked`); what the
monitor is about to do agrees with what the domains show (`Converging`); and an
owned start is in the map or was upset until its hook takes it (`StartsKept`).
The refinement needs the first: that nothing is given back while work is in hand,
and nothing stored that was not accepted. Theorems: `InstanceInductive`,
`DomainsAlwaysConverge`, `TimedUnlessRolledBack`, and
`SetupImplementsInstance`, the refinement of `PluginInstance` but for its
fairness.

**V2Context** (`V2HostProofs`), for any histories and any request the host may
hand over for them, disturbed or not. `ContextIInv` says four things. The
projection is `Sound`: each source's entry notes messages no other source has,
and each origin parts that exist, of its own item, that no other origin notes
(but for files of one content, which are opaque), a call in the first message of
its source; and when it is valid, each origin is correlated (`Traced`,
`Correlated`). The view is `Viewed`: its messages are sources in their order,
ACP's own anywhere among them. The request is `Like` the one that was normalized,
part for part but for values and copies, or has more messages. And a patched
request was assembled from such a request by a patch that passed every check
(`PatchedFrom`). `Traced` is the long part: an induction over the sources for the
claims of messages (`Claiming`), over the calls for the results, and over the items
of a message for the places of its texts, whose cursor only moves on.

The rest is about values. The assembled request is a sequence of blocks, one per
message (`Assembly`): what is left of it, then ACP's own behind it. A host part in
it is one of the received ones, edited or not, that was neither removed itself nor
put in the place of a removed one (`FromHost`, `Spared`). Opaque parts are handed
back because a patch that would touch one is refused; order is that of the blocks,
and the checked order of the sources puts ACP's message between those that are
found. `SureIsFound` says which are: an opaque source, for the patch would have
refused a request where one was copied, and one that has a message with an id. An origin the
view kept shares its part with no removed one and no other edit (`SharedPart`), so
its part has the value of the view (`ValueKept`). A call that is still there was
not removed, so neither its origin nor its source was, and its result is of that
origin (`ResultStays`). Theorems: `ContextInvariant`, `OpaqueStays`,
`ViewIsRealized`, `PairsStayWhole`, `OrderStays`, `ProtectedRestored`.

Loops are recursive functions, and what is proved of them goes by the least
counterexample: the set of rounds up to which a claim holds has the first, and
each next one (`NatSteps`).

**Only model-checked.** The liveness properties `EverySaveSettles`,
`EveryCallEnds`, `NeverSilent` and the fairness parts of `Implements` and
`ImplementsInstance` are out of the prover's reach. Of the invariants one is not
proved: `EditsAccepted` of `V2Context`. It says that no check of the patch fails
on an undisturbed request, so a proof must compute what normalization finds, item
by item, in the lowered form of the same history: the converse of `Traced`, which
only says that what it found is right.

## 5. Plan

Built, in this order: the block graph and its session, since all else serves
them; the replay; the file and its queue; the registry that makes the session's
actions atomic; the V2 projection, the largest algorithm of the code; nudges,
ranges, requests and budget, which use the blocks; the instance with its
lifecycle and shared timing; the fork. What would follow:

1. **Save beyond a reservation**: the registry composed with the queue, for the
   save that the system hook does not await.
2. **V1 timing**: pending durations and the event hook, over several sessions.
3. **Proofs**: `EditsAccepted`, by showing that every item of a lowered history
   is found at its own place. Modules to be proved about hold no recursive
   operator; `ConsumedBelow` and `Ancestors` are closures stated as least sets.

## 6. Not modelled

Scores of the quality gate and the text of nudges, prompts and notifications;
the tokenizer; the commands, which report and change nothing that is saved
(those of V1 end by an exception the registry rolls back); the configuration,
whose values are the constants, and its validation; automatic update, package
scripts and network probes, which are I/O; message filters and reasoning
stripping, which are stateless edits of one request; the model catalog and its
one hydration; message-mode compress calls of old versions; the repeated patch
of a request that was patched before, streamed parts and skills in the V2
projection; the allocation of references at their end (99999). States and files
are typed as the code writes them: a file edited by hand is outside the model.
