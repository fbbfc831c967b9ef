----------------------------- MODULE V2Context ------------------------------
(***************************************************************************)
(* The V2 context hook on one request: the history is normalized against   *)
(* the request, the shared transform edits the view, the opaque sources it *)
(* dropped are restored, and the edits are patched into a replacement of   *)
(* the request, which the host gets unless a check failed.  While the      *)
(* transform runs the request it was called with may still be touched.     *)
(***************************************************************************)
EXTENDS V2Projection

CONSTANTS
    Histories,   \* the projected histories a request may come with
    Disturbed,   \* those whose request may differ from the lowered history or be changed
    Nudging      \* whether an anchored nudge may be put into a message

ASSUME HistoriesAssumption ==
    Histories \subseteq Seq([type : STRING, items : Seq(Item)]) /\ Nudging \in BOOLEAN

VARIABLES phase, history, request, projection, view, verdict

contextVars == <<phase, history, request, projection, view, verdict>>

Suffix == -1   \* the id of the message ACP appends for its nudges

-----------------------------------------------------------------------------
(* What the shared transform does to the view.                             *)

AcpPart == [key |-> NoPtr, kind |-> "acp", val |-> "acp", opaque |-> FALSE, st |-> "none",
            tag |-> FALSE, inp |-> FALSE]
IsText(p) == p.kind \in {"text", "attachment", "acp"}
Completed(p) == p.kind = "tool" /\ p.st = "completed"
HasContent(msg) == \E j \in 1..Len(msg.parts) : IsText(msg.parts[j]) \/ Completed(msg.parts[j])

Tagged(msg, chosen) ==
    [msg EXCEPT !.parts = [j \in 1..Len(msg.parts) |->
        IF j \in chosen THEN [msg.parts[j] EXCEPT !.tag = TRUE] ELSE msg.parts[j]]]

\* a part of ACP's own goes before the first tool of an assistant message, else to the end
WithAcpPart(msg) ==
    LET tool == SelectInSeq(msg.parts, LAMBDA p : p.kind = "tool")
    IN IF msg.role = "assistant" /\ tool # 0
       THEN [msg EXCEPT !.parts = InsertAt(@, tool, AcpPart)]
       ELSE [msg EXCEPT !.parts = Append(@, AcpPart)]

Free(msg) == {j \in 1..Len(msg.parts) : IsText(msg.parts[j]) /\ ~msg.parts[j].opaque}

InjectAnchoredNudge(msg) ==
    LET texts == Free(msg)
        at == IF msg.role = "user" THEN Max(texts) ELSE Min(texts)
    IN IF msg.role = "assistant" /\ ~HasContent(msg) THEN msg
       ELSE IF texts # {} THEN Tagged(msg, {at})
       ELSE WithAcpPart(msg)

\* the reference of a message: on every text of the user's, on every tool output or the
\* last text of an assistant's, else in a part of its own; ACP's own messages have none
InjectMessageId(msg) ==
    LET texts == Free(msg)
        tools == {j \in 1..Len(msg.parts) : Completed(msg.parts[j]) /\ ~msg.parts[j].opaque}
        chosen == IF msg.role = "user" THEN texts
                  ELSE IF tools # {} THEN tools
                  ELSE IF texts = {} THEN {} ELSE {Max(texts)}
    IN IF msg.notice \/ msg.id = Suffix \/ (msg.role # "user" /\ ~HasContent(msg)) THEN msg
       ELSE IF chosen # {} THEN Tagged(msg, chosen)
       ELSE WithAcpPart(msg)

\* one request's edits: messages compressed away (never the first of a user), the tool call of a compress that is
\* consumed (completed) or failed (error), reasoning dropped, an output shortened or an
\* input rewritten, a nudge anchored to a message, a message of ACP's own at the end
NoEdit == [op |-> "none", key |-> NoPtr]
EditsOf(v) ==
    {NoEdit} \cup UNION {
        {[op |-> "drop", key |-> p.key] : p \in {q \in ToSet(v[k].parts) :
                q.kind = "reasoning" \/ (q.kind = "tool" /\ q.st \in {"completed", "error"})}}
        \cup {[op |-> o, key |-> p.key] : o \in {"output", "input"},
                p \in {q \in ToSet(v[k].parts) : Completed(q) /\ ~q.opaque}} : k \in 1..Len(v)}

Dropping(v, edit, st) ==
    IF edit.op # "drop" THEN v
    ELSE [k \in 1..Len(v) |-> [v[k] EXCEPT !.parts =
            At(@, {j \in 1..Len(v[k].parts) : LET p == v[k].parts[j]
                       IN p.key # edit.key \/ ((p.st = "error") # (st = "error"))})]]
Editing(v, edit) ==
    [k \in 1..Len(v) |-> [v[k] EXCEPT !.parts = [j \in 1..Len(v[k].parts) |->
        LET p == v[k].parts[j]
        IN IF p.key # edit.key THEN p
           ELSE CASE edit.op = "output" -> [p EXCEPT !.val = "short"]
                  [] edit.op = "input" -> [p EXCEPT !.inp = TRUE]
                  [] OTHER -> p]]]
SuffixMessage == [id |-> Suffix, role |-> "user", notice |-> FALSE, parts |-> <<AcpPart>>]
Kept(v) == At(v, {k \in 1..Len(v) : v[k].parts # <<>>})

Transformed(v, hidden, edit, nudged, suffix) ==
    LET first == SelectInSeq(v, LAMBDA msg : msg.role = "user")
        shown == At(v, {k \in 1..Len(v) : v[k].id \notin hidden \/ k = first})
        pruned == Kept(Dropping(shown, edit, "completed"))
        anchored == [k \in 1..Len(pruned) |->
            IF pruned[k].id = nudged THEN InjectAnchoredNudge(pruned[k]) ELSE pruned[k]]
        edited == Editing(anchored \o (IF suffix /\ anchored # <<>> THEN <<SuffixMessage>> ELSE <<>>), edit)
        tagged == [k \in 1..Len(edited) |-> InjectMessageId(edited[k])]
        pairless == Kept(Dropping(tagged, edit, "error"))
    IN At(pairless, {k \in 1..Len(pairless) : ~pairless[k].notice})

-----------------------------------------------------------------------------
(* restoreMissingV2OpaqueSources.                                          *)

IsSource(p, msg) == msg.id \in DOMAIN p.entries
Protected(p) == {s \in DOMAIN p.entries :
                    p.entries[s].norm /\ p.entries[s].opaque /\ ~p.entries[s].removable}
Missing(p, v) == Protected(p) \ {v[k].id : k \in 1..Len(v)}
RestoreRefused(p, v) == \E s \in Missing(p, v) : p.entries[s].out = <<>>

\* a fault of Restored: the missing sources go to the end
RestoredAtEnd(p, v) ==
    v \o [k \in 1..Cardinality(Missing(p, v)) |->
            CHOOSE msg \in ToSet(InitialView(p)) : msg.id = InOrder(Missing(p, v))[k]]

Restored(p, v) ==
    LET original == InitialView(p)
        copies(S) == [k \in 1..Cardinality(S) |->
            CHOOSE msg \in ToSet(original) : msg.id = InOrder(S)[k]]
        miss == Missing(p, v)
        sources == {k \in 1..Len(v) : IsSource(p, v[k])}
        upTo(k) == {s \in miss : /\ s < v[k].id
                                 /\ \A j \in sources : j < k => s > v[j].id}
        rest(k) == {s \in miss : s > v[k].id}
    IN IF sources = {} THEN v \o copies(miss)
       ELSE FlattenSeq([k \in 1..Len(v) |->
                (IF k \in sources THEN copies(upTo(k)) ELSE <<>>) \o <<v[k]>>
                \o (IF k = Max(sources) THEN copies(rest(k)) ELSE <<>>)])
-----------------------------------------------------------------------------
(* applyV2ContextPatch: r is the request as it is now.                     *)

Shape(r) == [m \in 1..Len(r) |-> [id |-> r[m].id, role |-> r[m].role,
    parts |-> [c \in 1..Len(r[m].parts) |->
        [type |-> r[m].parts[c].type, call |-> r[m].parts[c].call, form |-> r[m].parts[c].form]]]]

CallIds(p) == {o.key : o \in {q \in UNION {ToSet(e.origins) : e \in ToSet(p.entries)} : q.kind = "tool"}}
Holders(r, type, call) == Places(r, 1..Len(r), type, call)

\* the same object; of a patchable part also the same value
SamePart(p, r, ptr) == /\ PartAt(r, ptr).obj = PartAt(p.request, ptr).obj
                       /\ PartAt(r, ptr).gen = PartAt(p.request, ptr).gen
BaselineHolds(p, r) ==
    /\ p.valid
    /\ Shape(r) = Shape(p.request)
    /\ \A e \in ToSet(p.entries) : \A o \in ToSet(e.origins) : \A ptr \in ToSet(o.ptrs) :
          SamePart(p, r, ptr) /\ (o.opaque \/ PartAt(r, ptr) = PartAt(p.request, ptr))
    /\ UniqueIds(r)
    /\ \A m \in 1..Len(r) : \A c \in 1..Len(r[m].parts) :
          LET part == r[m].parts[c]
          IN part.type = "tool-call" \/ (part.type = "tool-result" /\ part.call \in CallIds(p))
                => Cardinality(Holders(r, part.type, part.call)) = 1
    /\ \A m \in 1..Len(r) :
          /\ OpaqueMessage(p, m) => r[m].gen = 0
          /\ \A c \in OpaqueParts(p, m) : SamePart(p, r, <<m, c>>)

\* a message of the projection is found again as the object it was, or by its id
Told(r, m) == r[m].gen = 0 \/ r[m].id # 0

InView(v, id) == \E k \in 1..Len(v) : v[k].id = id
ViewOf(v, id) == CHOOSE msg \in ToSet(v) : msg.id = id
KeyIn(v, s, key) == \E part \in ToSet(ViewOf(v, s).parts) : part.key = key
ViewPartOf(v, key) == CHOOSE part \in ToSet(ViewOf(v, key[1]).parts) : part.key = key

RemovedSources(p, v) == {s \in DOMAIN p.entries :
    p.entries[s].norm /\ ~InView(v, s) /\ p.entries[s].out # <<>>}
RetainedSources(p, v) == {s \in DOMAIN p.entries : p.entries[s].norm /\ InView(v, s)}
OriginsOf(p, S) == UNION {ToSet(p.entries[s].origins) : s \in S}
RemovedOrigins(p, v) == OriginsOf(p, RemovedSources(p, v))
    \cup {o \in OriginsOf(p, RetainedSources(p, v)) : ~KeyIn(v, o.key[1], o.key)}

Changed(v, o) == LET part == ViewPartOf(v, o.key) IN part.val # o.val \/ part.tag

\* what may not be removed or rewritten; a source is removed as the messages it had
Forbidden(p, r, v) ==
    \/ \E s \in RemovedSources(p, v) :
          ~p.entries[s].removable \/ \E m \in ToSet(p.entries[s].out) : r[m].gen # 0
    \/ \E o \in OriginsOf(p, RetainedSources(p, v)) :
          IF ~KeyIn(v, o.key[1], o.key) THEN o.opaque /\ o.kind # "tool"
          ELSE LET part == ViewPartOf(v, o.key)
               IN IF o.kind = "tool"
                  THEN \/ part.inp /\ o.call = NoPtr
                       \/ Changed(v, o) /\ (o.result = NoPtr \/ PartAt(p.request, o.result).form # "text")
                  ELSE Changed(v, o) /\ (o.opaque \/ Len(o.ptrs) # 1)

SourceOrderHolds(p, v) ==
    \A s, t \in {u \in RetainedSources(p, v) : p.entries[u].out # <<>>} :
        s < t => Max(ToSet(p.entries[s].out)) <= Min(ToSet(p.entries[t].out))

\* the parts of message m with the edits of its origins, as copies
Edited(p, r, v, m) ==
    LET origins == OriginsOf(p, RetainedSources(p, v)) \ RemovedOrigins(p, v)
        edits(c) == {o \in origins :
            LET at == IF o.kind = "tool" THEN o.result ELSE IF o.ptrs = <<>> THEN NoPtr ELSE o.ptrs[1]
            IN at = <<m, c>> /\ ~o.opaque /\ Changed(v, o)}
        inputs(c) == {o \in origins : o.call = <<m, c>> /\ ViewPartOf(v, o.key).inp}
    IN [c \in 1..Len(r[m].parts) |->
        IF edits(c) # {}
        THEN LET part == ViewPartOf(v, (CHOOSE o \in edits(c) : TRUE).key)
             IN [r[m].parts[c] EXCEPT !.val = part.val, !.tag = part.tag, !.gen = 2]
        ELSE IF inputs(c) # {} THEN [r[m].parts[c] EXCEPT !.val = "rewritten", !.gen = 2]
        ELSE r[m].parts[c]]

Inserted == [Part("text", NoPtr, "acp", "text") EXCEPT !.gen = 2]
HoldsAcp(p, v, s) ==
    InView(v, s) /\ ~p.entries[s].opaque /\ \E part \in ToSet(ViewOf(v, s).parts) : part.kind = "acp"

\* a part of ACP's own goes into the first message of its source that is found
IsTarget(p, r, m) ==
    LET out == p.entries[Owner(p, m)].out
    IN /\ Owner(p, m) # 0 /\ Told(r, m)
       /\ \E k \in 1..Len(out) : out[k] = m /\ \A j \in 1..(k - 1) : ~Told(r, out[j])
HasInsertion(p, r, v, m) == IsTarget(p, r, m) /\ HoldsAcp(p, v, Owner(p, m))
NoTarget(p, r, v) == \E s \in RetainedSources(p, v) :
    HoldsAcp(p, v, s) /\ \A m \in ToSet(p.entries[s].out) : ~Told(r, m)

\* before the first call the source has in it, else to the end
InsertedAt(p, m) ==
    LET calls == {o.call[2] : o \in {q \in ToSet(p.entries[Owner(p, m)].origins) : q.call[1] = m}}
    IN IF p.request[m].role = "assistant" /\ calls # {} THEN Min(calls)
       ELSE Len(p.request[m].parts) + 1
Replaced(p, r, v, m) ==
    IF HasInsertion(p, r, v, m) THEN InsertAt(Edited(p, r, v, m), InsertedAt(p, m), Inserted)
    ELSE Edited(p, r, v, m)

\* a fault of OpaqueTouched: opaque parts are looked for in opaque messages only
OpaqueTouchedWhole(p, r, v) ==
    \E m \in 1..Len(r) : OpaqueMessage(p, m) /\ Replaced(p, r, v, m) # r[m].parts

\* every message is looked at: one that is not found has no opaque part an edit is of
OpaqueTouched(p, r, v) ==
    \E m \in 1..Len(r) :
        /\ \A s \in RemovedSources(p, v) : m \notin ToSet(p.entries[s].out)
        /\ Replaced(p, r, v, m) # r[m].parts
        /\ \/ OpaqueMessage(p, m)
           \/ \E c \in OpaqueParts(p, m) : ~\E q \in {Replaced(p, r, v, m)[c]} : q = r[m].parts[c]

\* a fault of KeptParts: removed content stays
KeptPartsAll(p, r, v, m) == Replaced(p, r, v, m)

\* content is removed by the object it was and by the place it had
KeptParts(p, r, v, m) ==
    LET gone == {ptr \in UNION {ToSet(o.ptrs) : o \in RemovedOrigins(p, v)} : ptr[1] = m}
        parts == Replaced(p, r, v, m)
    IN At(parts, {c \in 1..Len(parts) :
                     ~(parts[c].gen = 0 /\ parts[c].obj \in gone) /\ <<m, c>> \notin gone})

\* a fault of InsertionPoint: behind the first message before it
InsertionPointEarly(p, r, v, k) ==
    LET out(j) == {m \in IF IsSource(p, v[j]) THEN ToSet(p.entries[v[j].id].out) ELSE {} : Told(r, m)}
        before == UNION {out(j) : j \in 1..(k - 1)}
    IN IF before = {} THEN Len(p.request) ELSE Min(before)

\* an ACP message goes behind the last retained message before it in the view that is found
InsertionPoint(p, r, v, k) ==
    LET out(j) == {m \in IF IsSource(p, v[j]) THEN ToSet(p.entries[v[j].id].out) ELSE {} : Told(r, m)}
        before == UNION {out(j) : j \in 1..(k - 1)}
        after == {Max(out(j)) : j \in {i \in (k + 1)..Len(v) : out(i) # {}}}
    IN CASE before # {} -> Max(before)
         [] before = {} /\ after # {} -> Min(after) - 1
         [] OTHER -> Len(p.request)

Assembled(p, r, v) ==
    LET removed == UNION {ToSet(p.entries[s].out) : s \in RemovedSources(p, v)}
        lost(m) == \E o \in RemovedOrigins(p, v) : \E ptr \in ToSet(o.ptrs) : ptr[1] = m
        kept(m) == IF m \in removed \/ (KeptParts(p, r, v, m) = <<>> /\ lost(m)) THEN <<>>
                   ELSE <<[r[m] EXCEPT !.parts = KeptParts(p, r, v, m)]>>
        own(m) == InOrder({k \in 1..Len(v) : ~IsSource(p, v[k]) /\ InsertionPoint(p, r, v, k) = m})
        owned(m) == [k \in 1..Len(own(m)) |-> Message(v[own(m)[k]].id, "user", <<Inserted>>)]
    IN owned(0) \o FlattenSeq([m \in 1..Len(r) |-> kept(m) \o owned(m)])

\* a fault of FinalHolds: the pairs of the replacement are not looked at
FinalHoldsUnpaired(p, v, out) == UniqueIds(out)

FinalHolds(p, v, out) ==
    LET calls(type) == {c \in CallIds(p) : Holders(out, type, c) # {}}
        removed == {o.key : o \in {q \in RemovedOrigins(p, v) : q.kind = "tool"}}
    IN /\ UniqueIds(out)
       /\ \A c \in CallIds(p) : Cardinality(Holders(out, "tool-result", c)) <= 1
       /\ removed \cap (calls("tool-call") \cup calls("tool-result")) = {}
       /\ calls("tool-result") \subseteq calls("tool-call")

Applies(p, r, v) ==
    /\ BaselineHolds(p, r)
    /\ ~Forbidden(p, r, v) /\ ~NoTarget(p, r, v)
    /\ SourceOrderHolds(p, v)
    /\ ~OpaqueTouched(p, r, v)
    /\ FinalHolds(p, v, Assembled(p, r, v))

-----------------------------------------------------------------------------
(* The hook.                                                               *)

Nothing == [entries |-> <<>>, request |-> <<>>, valid |-> FALSE]

ContextInit ==
    /\ phase = "idle" /\ history = <<>> /\ request = <<>>
    /\ projection = Nothing /\ view = <<>> /\ verdict = "none"

\* a request comes with the history that is projected for it, and is normalized
LoadProjection ==
    /\ phase = "idle"
    /\ \E h \in Histories :
          \E r \in (IF h \in Disturbed THEN RequestsFor(h) ELSE {Identified(Lowered(h))}) :
             /\ history' = h /\ request' = r
             /\ projection' = Normalize(h, r)
             /\ IF Normalize(h, r).valid
                THEN /\ phase' = "transforming" /\ view' = InitialView(Normalize(h, r))
                     /\ verdict' = "none"
                ELSE phase' = "done" /\ view' = <<>> /\ verdict' = "unchanged"

RunMessageTransform ==
    /\ phase = "transforming"
    /\ \E hidden \in SUBSET DOMAIN history, edit \in EditsOf(view), suffix \in BOOLEAN,
          nudged \in {0} \cup IF Nudging THEN DOMAIN history ELSE {} :
          \* the message of the call that hid them is itself in no range
          /\ hidden = {} \/ \E k \in 1..Len(view) : view[k].id \notin hidden /\ ~view[k].notice
          /\ view' = Transformed(view, hidden, edit, nudged, suffix)
    /\ phase' = "patching"
    /\ UNCHANGED <<history, request, projection, verdict>>

\* the request is changed behind the hook's back: a part in place, a part or a message by
\* an equal copy, or a message put in (one disturbance a request)
Interfere ==
    /\ history \in Disturbed /\ phase = "patching" /\ request = Identified(Lowered(history))
    /\ \E m \in 1..Len(request) :
          \/ \E c \in 1..Len(request[m].parts) :
                \/ request' = [request EXCEPT ![m].parts[c].val = "changed"]
                \/ request' = [request EXCEPT ![m].parts[c].gen = 1]
          \/ request' = [request EXCEPT ![m].gen = 1]
          \/ request' = InsertAt(request, m, HostMessage)
    /\ UNCHANGED <<phase, history, projection, view, verdict>>

\* restore, patch, and hand the result to the host in one synchronous step
CommitPatch ==
    /\ phase = "patching"
    /\ phase' = "done"
    /\ IF ~RestoreRefused(projection, view)
          /\ Applies(projection, request, Restored(projection, view))
       THEN /\ verdict' = "patched"
            /\ view' = Restored(projection, view)
            /\ request' = Assembled(projection, request, Restored(projection, view))
       ELSE verdict' = "unchanged" /\ UNCHANGED <<view, request>>
    /\ UNCHANGED <<history, projection>>

Finish ==
    /\ phase = "done"
    /\ phase' = "idle" /\ history' = <<>> /\ request' = <<>>
    /\ projection' = Nothing /\ view' = <<>> /\ verdict' = "none"

ContextNext == LoadProjection \/ RunMessageTransform \/ Interfere \/ CommitPatch \/ Finish

ContextSpec == ContextInit /\ [][ContextNext]_contextVars

-----------------------------------------------------------------------------
(* Properties.                                                             *)

Patched == verdict = "patched"
HostParts(out) == UNION {ToSet(out[m].parts) : m \in 1..Len(out)}
Removed == RemovedOrigins(projection, view)
RemovedMessages == UNION {ToSet(projection.entries[s].out) : s \in RemovedSources(projection, view)}
RemovedPlaces == UNION {ToSet(o.ptrs) : o \in Removed}

\* What ACP does not own it hands back: every provider-owned part of the request is in the
\* patched request as the same object, unless the view removed its source or its tool call.
OpaqueKept ==
    Patched =>
        \A m \in 1..Len(projection.request) :
            m \notin RemovedMessages =>
                \A c \in OpaqueParts(projection, m)
                        \cup IF OpaqueMessage(projection, m) THEN 1..Len(projection.request[m].parts) ELSE {} :
                    <<m, c>> \notin RemovedPlaces =>
                        \E q \in HostParts(request) : q.obj = <<m, c>> /\ q.gen < 2

\* A part before which ACP's own went, and so has the place of a removed one (README, 3.2).
Displaced(ptr) ==
    /\ HoldsAcp(projection, view, Owner(projection, ptr[1])) /\ InsertedAt(projection, ptr[1]) <= ptr[2]
    /\ <<ptr[1], ptr[2] + 1>> \in RemovedPlaces

\* The model sees what the transform decided: of a source it kept, every patchable text and
\* tool output has the value the view gives it, and what it removed is not in the request.
ViewRealized ==
    Patched =>
        /\ \A o \in OriginsOf(projection, RetainedSources(projection, view)) \ Removed :
              ~o.opaque /\ (o.kind = "tool" => o.st = "completed") =>
                  LET part == ViewPartOf(view, o.key)
                      at == IF o.kind # "tool" THEN o.ptrs[1] ELSE o.result
                  IN \/ Displaced(at)
                     \/ \E q \in HostParts(request) : q.obj = at /\ q.val = part.val /\ q.tag = part.tag
        /\ \A q \in HostParts(request) : q.obj \notin RemovedPlaces

\* A tool's result leaves the request only with its call, and a call only with its result.
PairsWhole ==
    Patched =>
        \A call \in CallIds(projection) :
            LET had(type) == Holders(projection.request, type, call)
                has(type) == Holders(request, type, call) # {}
            IN had("tool-call") # {} /\ had("tool-result") # {} =>
                  /\ has("tool-result") => has("tool-call")
                  /\ has("tool-call") => has("tool-result") \/ \E ptr \in had("tool-result") : Displaced(ptr)

\* The request keeps the order of the view: host parts are in the order they were received,
\* and ACP's own message is behind what is kept of the sources before it, but for messages
\* without an id of which the request has a copy by then, and where one of these sources is
\* sure to be found, before all that is kept of the sources behind it.
OrderKept ==
    Patched =>
        /\ \A m, n \in 1..Len(request) : \A c \in 1..Len(request[m].parts), d \in 1..Len(request[n].parts) :
              LET a == request[m].parts[c]
                  b == request[n].parts[d]
              IN Earlier(<<m, c>>, <<n, d>>) /\ a.obj # NoPtr /\ b.obj # NoPtr => Earlier(a.obj, b.obj)
        /\ \A m \in 1..Len(request), k \in 1..Len(view) : request[m].id = Suffix /\ view[k].id = Suffix =>
              LET before == {view[j].id : j \in 1..(k - 1)}
                  after == {view[j].id : j \in (k + 1)..Len(view)}
                  source(q) == Owner(projection, q.obj[1])
                  sure(s) == \E n \in ToSet(projection.entries[s].out) :
                                projection.entries[s].opaque \/ projection.request[n].id # 0
              IN /\ \A n \in (m + 1)..Len(request) : \A q \in ToSet(request[n].parts) :
                       q.obj # NoPtr /\ Told(request, n) => source(q) \notin before
                 /\ (\E s \in before : sure(s)) =>
                       \A n \in 1..(m - 1) : \A q \in ToSet(request[n].parts) :
                           q.obj # NoPtr => source(q) \notin after

\* What the transform decides is what the patch can do: an undisturbed request gets the
\* edits of its view, unless a part of ACP's own went before a tool call of its message.
BeforeCall(v) == \E k \in 1..Len(v) : \E i, j \in 1..Len(v[k].parts) :
                    i < j /\ v[k].parts[i].kind = "acp" /\ v[k].parts[j].kind = "tool"
Undisturbed == phase = "done" /\ projection.valid /\ projection.request = Identified(Lowered(history))
                 /\ (verdict = "unchanged" => request = projection.request)
EditsAccepted == Undisturbed /\ ~BeforeCall(view) => Patched

\* Restoring puts every protected source back in its place: no view that passes it asks the
\* patch to remove a source the patch refuses to remove, or to reorder any.
RestoredRemovesNothingProtected ==
    phase = "patching" /\ ~RestoreRefused(projection, view) =>
        LET v == Restored(projection, view)
        IN /\ RemovedSources(projection, v) \cap Protected(projection) = {}
           /\ \A k, l \in {i \in 1..Len(v) : IsSource(projection, v[i])} : k < l => v[k].id < v[l].id
=============================================================================
