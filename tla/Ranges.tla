------------------------------- MODULE Ranges -------------------------------
(***************************************************************************)
(* What a nudge offers to compress and what the compress tool does with    *)
(* it.  A request lists ranges of the visible messages, or plans           *)
(* candidates and validates each one with the tool's own planner; the      *)
(* model answers with a call, to which the host's history has meanwhile    *)
(* added the calling message, and the tool resolves the boundaries anew,   *)
(* filters them, and checks size, novelty and summary quality.             *)
(* Messages are numbered in order; a size is a number of characters.       *)
(***************************************************************************)
EXTENDS Integers, Sequences, FiniteSetsExt

CONSTANTS
    Kinds,           \* the messages that may arrive
    MaxMessages,     \* bound on the history
    MinChars,        \* compress.minCompressRange
    RecentMessages,  \* compress.preserveRecentMessages
    RecentTokens,    \* compress.preserveRecentTokens
    ManyMessages     \* the length at which a user message opens a new range (3)

NoCall == 0

\* what a message is: who says it, how long it is, whether it holds the output of a
\* protected tool, and the tool call it holds, if any
Message == [who : {"user", "assistant", "notice"}, size : Nat, prot : BOOLEAN, call : Nat]

\* only assistant messages hold tool parts
Messages == {m \in Message : m.who # "assistant" => m.call = NoCall}

ASSUME RangesAssumption ==
    /\ {MaxMessages, MinChars, RecentMessages, RecentTokens, ManyMessages} \subseteq Nat
    /\ Kinds \subseteq Messages

VARIABLES
    config,   \* lastSegmentSoftBlock, preserveLastUserMessage, candidates
    history,  \* the messages the host lists
    blocks,   \* the active blocks: an anchor and the messages it covers
    known,    \* the messages that ever were in a block (byMessageId)
    retry,    \* qualityGateRetryPending
    verdict,  \* what the quality gate said last
    last      \* the last compress call: what it answered, what it took and how it ended

vars == <<config, history, blocks, known, retry, verdict, last>>

NoMessage == 0
CallMessage == [who |-> "assistant", size |-> 4, prot |-> TRUE, call |-> NoCall]
NoAnswer == [kind |-> "none", stands |-> {}, taken |-> {}, ends |-> "none"]

Newest(S) == IF S = {} THEN NoMessage ELSE Max(S)

\* what the messages of S weigh, of the first n
Total(weight, n, S) ==
    LET upto[k \in 0 .. n] ==
            IF k = 0 THEN 0 ELSE upto[k - 1] + IF k \in S THEN weight[k] ELSE 0
    IN upto[n]

-----------------------------------------------------------------------------
(* What both sides read off the history.                                   *)

Numbers(h) == {i \in DOMAIN h : h[i].who # "notice"}
Covered(bs) == UNION {b.msgs : b \in bs}

\* a notice has no reference, every other message has the next one
Ref(h, i) == Cardinality({j \in Numbers(h) : j <= i})

Ends(S) == <<Min(S), Max(S)>>

\* the messages from the first to the last of S
Between(h, S) == {x \in DOMAIN h : \E a, b \in S : a <= x /\ x <= b}

\* Math.round(characters / 4)
Tokens(m) == (m.size + 2) \div 4

\* a tool part is weighed with its JSON
Weight(m) == Tokens(m) + (IF m.call # NoCall \/ m.prot THEN 1 ELSE 0)

\* messages that never were in a block
Fresh(h, past) == Numbers(h) \ past

\* the last messages, and those that hold the last tokens
Zone(h, past) ==
    LET after(i) == {j \in Fresh(h, past) : j > i}
        weight == [j \in DOMAIN h |-> Weight(h[j])]
    IN {i \in Fresh(h, past) :
          \/ Cardinality(after(i)) < RecentMessages
          \/ Total(weight, Len(h), after(i)) < RecentTokens}

-----------------------------------------------------------------------------
(* The tool: from boundaries to a plan.                                    *)

CallsOf(h, S) == {h[i].call : i \in S} \ {NoCall}

\* the first run of further messages that hold one of the calls
RunAbove(h, e, calls) ==
    LET found == {i \in e + 1 .. Len(h) : i <= e + 20 /\ h[i].call \in calls}
    IN {i \in found : Min(found) .. i \subseteq found}

RunBelow(h, s, calls) ==
    LET found == {i \in 1 .. s - 1 : i >= s - 20 /\ h[i].call \in calls}
    IN {i \in found : i .. Max(found) \subseteq found}

Resolved(h, r) ==
    LET calls == CallsOf(h, r[1] .. r[2])
        above == RunAbove(h, r[2], calls)
        below == RunBelow(h, r[1], calls)
    IN <<IF below = {} THEN r[1] ELSE Min(below), IF above = {} THEN r[2] ELSE Max(above)>>

SparedUser(h, past) ==
    IF config.soft /\ config.lastUser
    THEN {Newest({i \in Fresh(h, past) : h[i].who = "user"})} ELSE {}

NudgeZone(h, past) == IF config.soft THEN Zone(h, past) ELSE {}

\* the messages of a resolved range that are left after the filters
Selected(h, past, r) ==
    {i \in Numbers(h) : r[1] <= i /\ i <= r[2] /\ ~h[i].prot}
        \ (SparedUser(h, past) \cup NudgeZone(h, past))

Overlap(h, rs) ==
    \E r, s \in rs : r # s /\ Resolved(h, r)[1] <= Resolved(h, s)[1]
                           /\ Resolved(h, s)[1] <= Resolved(h, r)[2]

Chars(h, S) == Total([i \in DOMAIN h |-> h[i].size], Len(h), S)

Plans(h, past, rs) == {Selected(h, past, Resolved(h, r)) : r \in rs} \ {{}}

PlannerAccepts(h, past, rs) ==
    /\ ~Overlap(h, rs)
    /\ Plans(h, past, rs) # {}
    /\ Chars(h, UNION Plans(h, past, rs)) >= MinChars

-----------------------------------------------------------------------------
(* The ranges a nudge lists.                                               *)

Listed(h, bs) == Numbers(h) \ Covered(bs)
Plain(h, bs) == {i \in Listed(h, bs) : ~h[i].prot}

\* a fault of Effective: the last user message counts
EffectiveWithUser(h, bs, i) == Tokens(h[i])

Effective(h, bs, i) ==
    IF i = Newest({j \in Plain(h, bs) : h[j].who = "user"}) THEN 0 ELSE Tokens(h[i])

\* What becomes of the open run at message k: it ends before a gap, at the zone, and
\* before a user message behind enough others.
RunAt(h, bs, past, open, k) ==
    LET gap == Ref(h, k) > Ref(h, Max(open)) + 1
        long == h[k].who = "user" /\ Cardinality(open) >= ManyMessages
    IN CASE k \notin Plain(h, bs) -> open
         [] k \in Plain(h, bs) /\ k \in NudgeZone(h, past) -> {}
         [] OTHER -> IF open # {} /\ (gap \/ long) THEN {k} ELSE open \cup {k}

\* the runs that do not go on
Groups(h, bs, past) ==
    LET run[k \in 0 .. Len(h)] == IF k = 0 THEN {} ELSE RunAt(h, bs, past, run[k - 1], k)
        runs == {run[k] : k \in 0 .. Len(h)} \ {{}}
    IN {r \in runs : \A other \in runs : r \subseteq other => r = other}

Floor == MinChars \div 4

Recommended(h, bs, past) ==
    LET weight == [i \in DOMAIN h |-> Effective(h, bs, i)]
        tokens(run) == Total(weight, Len(h), run)
    IN {run \in Groups(h, bs, past) : tokens(run) > 0 /\ tokens(run) >= Floor}

Protected(h, bs) == {i \in Listed(h, bs) : h[i].prot}

\* what the nudge lists as compressible: the runs, and when anything is protected each
\* with the protected messages and the runs next to it
Shown(h, bs, past) ==
    LET runs == Recommended(h, bs, past)
        entries == (UNION runs) \cup Protected(h, bs)
        line(run) ==
            IF Protected(h, bs) = {} THEN run
            ELSE run \cup {i \in entries : Between(h, run \cup {i}) \cap Numbers(h) \subseteq entries}
    IN {Ends(line(run)) : run \in runs}

-----------------------------------------------------------------------------
(* The candidates a nudge plans instead.                                   *)

\* no tool call has messages on both sides of k
Cut(h, k) == CallsOf(h, 1 .. k) \cap CallsOf(h, k + 1 .. Len(h)) = {}

\* the messages no cut parts from message i
UnitOf(h, i) ==
    {j \in DOMAIN h :
       \A k \in DOMAIN h : (i <= k /\ k < j) \/ (j <= k /\ k < i) => ~Cut(h, k)}

Units(h, bs) ==
    {u \in {UnitOf(h, i) : i \in DOMAIN h} : u \subseteq Numbers(h) /\ u \cap Covered(bs) = {}}

Guarded(h, past, S) == S \cap NudgeZone(h, past) # {} \/ \E i \in S : h[i].prot

\* Large units, and small ones joined to episodes: those between two guarded units, also
\* where a large one is among them, and behind the last one those in a row.
Drafts(h, bs, past) ==
    LET guarded == {u \in Units(h, bs) : Guarded(h, past, u)}
        open == {u \in Units(h, bs) \ guarded : Chars(h, u) > 0}
        large == {u \in open : Chars(h, u) >= MinChars}
        small == open \ large
        before(u, g) == Min(u) < Min(g)
        parted(u, v) == \E g \in guarded : before(u, g) # before(v, g)
        behind(u) == \A g \in guarded : ~before(u, g)
        row(u, v) == Between(h, u \cup v) \subseteq UNION small
        joined(u) == UNION {v \in small : ~parted(u, v) /\ (behind(u) => row(u, v))}
    IN large \cup {e \in {joined(u) : u \in small} : Chars(h, e) >= MinChars}

\* a fault of Candidates: the planner is not asked
CandidatesUnasked(h, bs, past) == Drafts(h, bs, past)

\* those of the drafts that hold nothing guarded from end to end and that the planner
\* would take as they are: together, or one by one when it refuses the batch
Candidates(h, bs, past) ==
    LET drafts == Drafts(h, bs, past)
        batch == PlannerAccepts(h, past, {Ends(d) : d \in drafts})
        exact(d) == /\ ~Guarded(h, past, Between(h, d))
                    /\ Resolved(h, Ends(d)) = Ends(d)
                    /\ Selected(h, past, Ends(d)) = d
    IN {d \in drafts : exact(d) /\ Chars(h, d) >= MinChars
                       /\ (batch \/ PlannerAccepts(h, past, {Ends(d)}))}

-----------------------------------------------------------------------------
(* The tool: from a plan to a block.                                       *)

Consumed(r) == {b \in blocks : b.anchor \in r[1] .. r[2]}

\* what becomes of a resolved range
Plan(h, r) ==
    LET taken == Selected(h, known, r)
    IN [taken |-> taken, consumed |-> Consumed(r),
        block |-> [anchor |-> r[1], msgs |-> taken \cup Covered(Consumed(r))]]

\* nothing new in it, unless it gathers blocks
Phantom(p) == p.block.msgs \subseteq Covered(blocks) /\ Cardinality(p.consumed) < 2

\* what is left of a batch, nothing if it is refused as a whole
Prepared(h, rs) ==
    IF PlannerAccepts(h, known, rs)
    THEN {p \in {Plan(h, Resolved(h, r)) : r \in rs} : p.taken # {} /\ ~Phantom(p)} ELSE {}

\* a fault of Bypassed: the acknowledgement alone is enough
BypassedOnRequest(ack) == ack

\* acknowledgeRisk skips the quality gate only when a rejection is pending
Bypassed(ack) == ack /\ retry

-----------------------------------------------------------------------------
Init ==
    /\ config \in [soft : BOOLEAN, lastUser : BOOLEAN, candidates : BOOLEAN]
    /\ history = <<>> /\ blocks = {} /\ known = {}
    /\ retry = FALSE /\ verdict = "none" /\ last = NoAnswer

\* the messages that hold a call: the call itself and then its result
Holding(c) == {i \in DOMAIN history : history[i].call = c}
AllAnswered == \A i \in DOMAIN history : history[i].call # NoCall => Cardinality(Holding(history[i].call)) = 2

Say(m) ==
    /\ Len(history) < MaxMessages
    /\ m.call # NoCall => Cardinality(Holding(m.call)) < 2
    /\ history' = Append(history, m)
    /\ last' = NoAnswer
    /\ UNCHANGED <<config, blocks, known, retry, verdict>>

\* The planner or the phantom check refuses the call: nothing changes.
Refused(plans) == plans = {} /\ UNCHANGED <<blocks, known, retry, verdict>>

\* The summary does not keep enough of the messages: the call may be repeated
\* with the risk acknowledged.
Rejected(plans, poor, ack) ==
    /\ plans # {} /\ poor /\ ~Bypassed(ack)
    /\ retry' = TRUE /\ verdict' = "rejected"
    /\ UNCHANGED <<blocks, known>>

Compressed(plans, poor, ack) ==
    /\ plans # {} /\ (poor => Bypassed(ack))
    /\ blocks' = (blocks \ UNION {p.consumed : p \in plans}) \cup {p.block : p \in plans}
    /\ known' = known \cup Covered({p.block : p \in plans})
    /\ retry' = FALSE /\ verdict' = "accepted"

\* the calls that answer a nudge, what they name and the messages this stands for,
\* and those the model makes of its own
Offers ==
    CASE config.candidates ->
            {[kind |-> "candidates", all |-> {[ends |-> Ends(d), stands |-> d] : d \in ds}] :
               ds \in (SUBSET Candidates(history, blocks, known)) \ {{}}}
      [] ~config.candidates ->
            {[kind |-> "range", all |-> {[ends |-> r, stands |-> {}]}] :
               r \in Shown(history, blocks, known)}

OwnRanges ==
    {[kind |-> "own", all |-> {[ends |-> <<i, i>>, stands |-> {}]}] : i \in Numbers(history)}

\* A request offers ranges or candidates; the model answers with a call, and a
\* message may have arrived before it.
Answer ==
    \E offer \in Offers \cup OwnRanges,
       between \in {<<>>} \cup {<<m>> : m \in {k \in Kinds : k.who # "assistant"}} :
        LET h == history \o Append(between, CallMessage)
            plans == Prepared(h, {o.ends : o \in offer.all})
            ended(how) == last' = [kind |-> offer.kind, stands |-> {o.stands : o \in offer.all},
                                   taken |-> {p.taken : p \in plans}, ends |-> how]
        IN /\ AllAnswered
           /\ Len(h) <= MaxMessages
           /\ history' = h
           /\ \E poor, ack \in BOOLEAN :
                \/ Refused(plans) /\ ended("refused")
                \/ Rejected(plans, poor, ack) /\ ended("rejected")
                \/ Compressed(plans, poor, ack) /\ ended(IF poor THEN "poor" ELSE "compressed")
           /\ UNCHANGED config

\* the decompress tool, for one block with all that is in it
Decompress ==
    \E b \in blocks :
        /\ blocks' = blocks \ {b}
        /\ last' = NoAnswer
        /\ UNCHANGED <<config, history, known, retry, verdict>>

\* the session is read again from its file: the pending rejection is not in it
Restart ==
    /\ retry' = FALSE /\ verdict' = "none" /\ last' = NoAnswer
    /\ UNCHANGED <<config, history, blocks, known>>

Next == (\E m \in Kinds : Say(m)) \/ Answer \/ Decompress \/ Restart

Spec == Init /\ [][Next]_vars

-----------------------------------------------------------------------------
(* The inductive invariant.                                                *)

RangesTypeOK ==
    /\ config \in [soft : BOOLEAN, lastUser : BOOLEAN, candidates : BOOLEAN]
    /\ history \in Seq(Messages)
    /\ retry \in BOOLEAN /\ verdict \in {"none", "rejected", "accepted"}

\* What is in a block was in one, and is a message of the history.
KnownHeld == Covered(blocks) \subseteq known /\ known \subseteq DOMAIN history

\* Behind a user message that was in a block, a user message is spared.
UsersSpared ==
    config.soft /\ config.lastUser =>
        \A i \in known : history[i].who = "user" =>
            \E j \in Fresh(history, known) : i < j /\ history[j].who = "user"

\* A pending rejection was the last verdict.
RetryIsOwed == retry => verdict = "rejected"

RangesIInv == RangesTypeOK /\ KnownHeld /\ UsersSpared /\ RetryIsOwed

-----------------------------------------------------------------------------
(* Properties.                                                             *)

\* A range that a nudge lists is one the compress tool accepts, whatever
\* message arrives before the call: what the two count, spare and protect
\* agree, or differ to the safe side (no phantom retry loop, incident
\* ses_7fb5cbc8 in inject/utils.ts:970-981), for messages whose characters
\* Math.round does not inflate.
ShownIsAccepted == last.kind = "range" => last.ends # "refused"

\* A user message behind which another one was said.
Overtaken(i) == history[i].who = "user" /\ \E j \in Numbers(history) : i < j /\ history[j].who = "user"

\* What is taken for what was planned.
Takes(t, d) == d \subseteq t /\ \A i \in t \ d : Overtaken(i) /\ t \ d = {i}

\* Candidates are taken as they were planned, alone or in any batch, although
\* the tool plans them anew on a longer history with other recent messages: none
\* is refused and none loses a message.  One may gain a message: an episode
\* drafted around the last user message takes that too when another user message
\* has come before the call (candidates.ts:275-282 joins what is not adjacent).
CandidatesAreExact ==
    last.kind = "candidates" =>
        /\ last.ends # "refused"
        /\ \A d \in last.stands : \E t \in last.taken : Takes(t, d)
        /\ \A t \in last.taken : \E d \in last.stands : Takes(t, d)

\* One rejection of the quality gate lets one poor summary through, and
\* nothing else does: not an acknowledgement carried over from another error,
\* a second call, or a rejection of before a restart (range.ts:279-320).
BypassIsEarned ==
    [][last'.ends = "poor" /\ last' # last => verdict = "rejected"]_vars
=============================================================================
