----------------------------- MODULE V2Lowering -----------------------------
(***************************************************************************)
(* The data the V2 context hook works on: the session's projected history  *)
(* (a sequence of sources), the request the host lowered from it (a        *)
(* sequence of provider messages), and the projection                      *)
(* normalizeV2ProjectedHistory builds from both.  A source is named by its *)
(* position, a content item by <<source, item>>, a lowered part by         *)
(* <<message, part>>; a lowered part or message is the same JavaScript     *)
(* object as long as its name and its `gen` are the same.                  *)
(***************************************************************************)
EXTENDS Integers, Sequences, FiniteSets, SequencesExt, FiniteSetsExt

NoPtr == <<0, 0>>

Item == [kind : {"text", "reasoning", "attachment", "tool"}, val : STRING, st : STRING, multi : BOOLEAN, exec : BOOLEAN]

\* a content item of a source; a settled tool has an output of one text unless it is multi
Text(v) == [kind |-> "text", val |-> v, st |-> "none", multi |-> FALSE, exec |-> FALSE]
Reasoning(v) == [Text(v) EXCEPT !.kind = "reasoning"]
File(v) == [Text(v) EXCEPT !.kind = "attachment"]
Tool(v, st, multi, exec) ==
    [kind |-> "tool", val |-> v, st |-> st, multi |-> multi, exec |-> exec]

\* the numbers in S, in order, and the elements of seq at the places in S
InOrder(S) ==
    [n \in 1..Cardinality(S) |-> CHOOSE i \in S : Cardinality({k \in S : k < i}) = n - 1]
At(seq, S) == [n \in 1..Cardinality(S) |-> seq[InOrder(S)[n]]]

Controls == {"idle", "compacting"}          \* compacting: a compaction not completed
Opaques == {"system", "shell", "compaction", "synthetic", "checkpoint"}
Removables == {"user", "assistant", "skill", "shell", "notice"}

Expected(type) == type \notin Controls
ViewRole(type) ==
    IF type \in {"assistant", "checkpoint", "system", "compaction"} THEN "assistant" ELSE "user"

-----------------------------------------------------------------------------
(* Lowering, by the host.                                                  *)

Part(type, call, val, form) ==
    [type |-> type, call |-> call, val |-> val, tag |-> FALSE, form |-> form,
     obj |-> NoPtr, gen |-> 0]
Result(call, item) ==
    Part("tool-result", call, item.val,
         IF item.st = "error" THEN "error" ELSE IF item.multi THEN "content" ELSE "text")

LowerItem(s, j, item) ==
    CASE item.kind = "text" -> <<Part("text", NoPtr, item.val, "text")>>
      [] item.kind = "reasoning" -> <<Part("reasoning", NoPtr, item.val, "text")>>
      [] item.kind = "attachment" -> <<Part("media", NoPtr, item.val, "media")>>
      [] item.kind = "tool" ->
            <<Part("tool-call", <<s, j>>, item.val, "call")>>
            \o IF item.exec /\ item.st # "running" THEN <<Result(<<s, j>>, item)>> ELSE <<>>

Message(id, role, parts) == [id |-> id, role |-> role, parts |-> parts, gen |-> 0]

LowerSource(s, src) ==
    LET content == FlattenSeq([j \in 1..Len(src.items) |-> LowerItem(s, j, src.items[j])])
        settled == InOrder({j \in 1..Len(src.items) : /\ src.items[j].kind = "tool"
                                                      /\ ~src.items[j].exec
                                                      /\ src.items[j].st # "running"})
    IN CASE src.type \in Controls -> <<>>
         [] src.type = "checkpoint" ->
                <<Message(0, "user", <<Part("text", NoPtr, "record", "text")>>),
                  Message(0, "assistant", <<Part("tool-call", <<s, 9>>, "record", "call")>>)>>
         [] src.type = "system" -> <<Message(0, "system", content)>>
         [] OTHER ->
                (IF content = <<>> THEN <<>>
                 ELSE <<Message(s, IF src.type = "assistant" THEN "assistant" ELSE "user", content)>>)
                \o [k \in 1..Len(settled) |->
                       Message(0, "tool", <<Result(<<s, settled[k]>>, src.items[settled[k]])>>)]

\* every part of a request carries the place it was received at: its identity
Identified(out) ==
    [m \in 1..Len(out) |-> [out[m] EXCEPT !.parts =
        [c \in 1..Len(out[m].parts) |-> [out[m].parts[c] EXCEPT !.obj = <<m, c>>]]]]

Lowered(h) == FlattenSeq([s \in 1..Len(h) |-> LowerSource(s, h[s])])

\* the requests the host may hand over for a history: the lowered one, and one the
\* projected history no longer explains (it was read at another moment)
HostMessage == Message(0, "user", <<Part("text", NoPtr, "host", "text")>>)
Altered(out) == {ReplaceAt(out, m, [out[m] EXCEPT !.parts[1].val = "host"]) :
                    m \in {k \in 1..Len(out) : out[k].parts # <<>>}}
Extended(out) == {ReplaceAt(out, m, [out[m] EXCEPT !.parts =
                     Append(@, Part("media", NoPtr, "host", "media"))]) : m \in 1..Len(out)}
RequestsFor(h) ==
    LET out == Lowered(h)
    IN {Identified(r) : r \in {out} \cup Altered(out) \cup Extended(out)
            \cup {InsertAt(out, m, HostMessage) : m \in 1..(Len(out) + 1)}
            \cup {RemoveAt(out, m) : m \in 1..Len(out)}
            \cup {InsertAt(out, m, out[m]) : m \in 1..Len(out)}}

-----------------------------------------------------------------------------
(* Normalization: which lowered message and part each source accounts for. *)

ById(out, s) == {m \in 1..Len(out) : out[m].id = s}
ByText(out, text) == {m \in 1..Len(out) : /\ out[m].role = "system"
                                          /\ Len(out[m].parts) = 1
                                          /\ out[m].parts[1].type = "text"
                                          /\ out[m].parts[1].val = text}

Taken(msgs) == UNION {ToSet(msgs[s]) : s \in DOMAIN msgs}

\* in source order, each source but a checkpoint claims the first free message of its id,
\* a system source the first free system message of its text
Claimed(h, out, acc, n) ==
    LET all == IF h[n].type = "system" THEN ByText(out, h[n].items[1].val) ELSE ById(out, n)
        free == all \ Taken(acc.msgs)
    IN IF ~Expected(h[n].type) \/ h[n].type = "checkpoint" \/ free = {} THEN acc
       ELSE [msgs |-> [acc.msgs EXCEPT ![n] = <<Min(free)>>],
             clear |-> acc.clear /\ (h[n].type = "system" => Cardinality(free) = 1)]
Claims(h, out) ==
    LET claim[n \in 0..Len(h)] ==
            IF n = 0 THEN [msgs |-> [s \in 1..Len(h) |-> <<>>], clear |-> TRUE]
            ELSE Claimed(h, out, claim[n - 1], n)
    IN claim[Len(h)]

\* a checkpoint claims what is free between its neighbours' messages
CheckpointClaimed(h, out, acc, n) ==
    LET before == UNION {ToSet(acc[t]) : t \in 1..(n - 1)}
        after == UNION {ToSet(acc[t]) : t \in (n + 1)..Len(h)}
        from == IF before = {} THEN 1 ELSE Max(before) + 1
        to == IF after = {} THEN Len(out) ELSE Min(after) - 1
    IN IF h[n].type # "checkpoint" THEN acc
       ELSE [acc EXCEPT ![n] = InOrder((from..to) \ Taken(acc))]
CheckpointClaims(h, out, msgs) ==
    LET claim[n \in 0..Len(h)] ==
            IF n = 0 THEN msgs ELSE CheckpointClaimed(h, out, claim[n - 1], n)
    IN claim[Len(h)]

Places(out, ms, type, call) ==
    {p \in UNION {{<<m, c>> : c \in 1..Len(out[m].parts)} : m \in ms} :
        out[p[1]].parts[p[2]].type = type /\ out[p[1]].parts[p[2]].call = call}
Earlier(p, q) == p[1] < q[1] \/ (p[1] = q[1] /\ p[2] < q[2])
FirstOf(places) ==
    IF places = {} THEN NoPtr ELSE CHOOSE p \in places : \A q \in places \ {p} : Earlier(p, q)

\* the result of a call: for a call the host executes, in a tool message before another
ResultPlace(out, ms, call, preferTool) ==
    LET all == Places(out, ms, "tool-result", call)
        first == {p \in all : (out[p[1]].role = "tool") = preferTool}
    IN FirstOf(IF first # {} THEN first ELSE all)

\* an assistant also claims the free tool messages that hold its calls' results
ResultClaimed(h, out, acc, call) ==
    LET own == ToSet(acc[call[1]])
        item == h[call[1]].items[call[2]]
        free == {m \in 1..Len(out) : out[m].role = "tool"} \ Taken(acc)
        place == ResultPlace(out, free \cup own, call, TRUE)
    IN IF item.kind # "tool" \/ item.exec \/ place = NoPtr \/ place[1] \in own THEN acc
       ELSE [acc EXCEPT ![call[1]] = Append(@, place[1])]
ResultClaims(h, out, msgs) ==
    LET calls == FlattenSeq([s \in 1..Len(h) |->
            IF h[s].type = "assistant" THEN [j \in 1..Len(h[s].items) |-> <<s, j>>] ELSE <<>>])
        claim[n \in 0..Len(calls)] ==
            IF n = 0 THEN msgs ELSE ResultClaimed(h, out, claim[n - 1], calls[n])
    IN claim[Len(calls)]
=============================================================================
