---------------------------- MODULE V2Projection ----------------------------
(***************************************************************************)
(* normalizeV2ProjectedHistory: a projection of the session's history over *)
(* a request, with the provenance of every message and part of the         *)
(* request, and the view of it the shared transform works on.              *)
(***************************************************************************)
EXTENDS V2Lowering

\* the places of the texts of a message's items, in order, each after the one before
TextPlaced(src, out, m, acc, n) ==
    LET item == src.items[n]
        types == IF item.kind = "reasoning" THEN {"text", "reasoning"} ELSE {"text"}
        hits == {c \in acc.cursor..Len(out[m].parts) :
                    out[m].parts[c].type \in types /\ out[m].parts[c].val = item.val}
    IN IF item.kind \in {"tool", "attachment"} \/ hits = {}
       THEN [at |-> Append(acc.at, NoPtr), cursor |-> acc.cursor]
       ELSE [at |-> Append(acc.at, <<m, Min(hits)>>), cursor |-> Min(hits) + 1]
TextPlaces(src, out, m) ==
    LET place[n \in 0..Len(src.items)] ==
            IF n = 0 THEN [at |-> <<>>, cursor |-> 1] ELSE TextPlaced(src, out, m, place[n - 1], n)
    IN place[Len(src.items)].at

Origin(key, item, opaque, ptrs) ==
    [key |-> key, kind |-> item.kind, opaque |-> opaque, ptrs |-> ptrs, call |-> NoPtr,
     result |-> NoPtr, val |-> item.val, st |-> item.st]
Some(ptrs) == At(ptrs, {i \in DOMAIN ptrs : ptrs[i] # NoPtr})

OpaqueTool(item) == item.st = "error" \/ (item.st = "completed" /\ item.multi)
\* a fault of ToolOrigin: the result of a call is not noted as the call's
ToolOriginOfCall(key, item, out, ms) ==
    LET call == FirstOf(Places(out, ms, "tool-call", key))
    IN [Origin(key, item, OpaqueTool(item), Some(<<call>>)) EXCEPT !.call = call]

ToolOrigin(key, item, out, ms) ==
    LET call == FirstOf(Places(out, ms, "tool-call", key))
        result == ResultPlace(out, ms, key, ~item.exec)
    IN [Origin(key, item, OpaqueTool(item), Some(<<call, result>>))
            EXCEPT !.call = call, !.result = result]

Media(out, m, val) ==
    LET hits == InOrder({c \in 1..Len(out[m].parts) :
                            out[m].parts[c].type = "media" /\ out[m].parts[c].val = val})
    IN [k \in 1..Len(hits) |-> <<m, hits[k]>>]

Origins(h, out, msgs, s) ==
    IF h[s].type = "checkpoint"
    THEN [k \in 1..Len(msgs[s]) |-> Origin(<<s, k>>, Text("record"), TRUE,
              [c \in 1..Len(out[msgs[s][k]].parts) |-> <<msgs[s][k], c>>])]
    ELSE LET at == IF msgs[s] = <<>> THEN [j \in 1..Len(h[s].items) |-> NoPtr]
                   ELSE TextPlaces(h[s], out, msgs[s][1])
         IN [j \in 1..Len(h[s].items) |->
                LET item == h[s].items[j]
                IN CASE item.kind = "tool" -> ToolOrigin(<<s, j>>, item, out, ToSet(msgs[s]))
                     [] item.kind = "attachment" ->
                            Origin(<<s, j>>, item, TRUE,
                                IF msgs[s] = <<>> THEN <<>>
                                ELSE Media(out, msgs[s][1], item.val))
                     [] OTHER -> Origin(<<s, j>>, item, h[s].type \in Opaques, Some(<<at[j]>>))]

\* a source is in the view if it has a part or is an assistant (its step marker)
Normalized(src) == Expected(src.type) /\ (src.items # <<>> \/ src.type \in {"assistant", "checkpoint"})

Entries(h, out, msgs) ==
    [s \in 1..Len(h) |->
        [type |-> h[s].type, norm |-> Normalized(h[s]), out |-> msgs[s],
         origins |-> IF Normalized(h[s]) THEN Origins(h, out, msgs, s) ELSE <<>>,
         opaque |-> h[s].type \in Opaques, removable |-> h[s].type \in Removables]]

RoleFits(entry, out) ==
    \/ entry.out = <<>> \/ entry.type = "checkpoint"
    \/ out[entry.out[1]].role = CASE entry.type \in {"assistant", "system"} -> entry.type
                                  [] OTHER -> "user"

PartAt(out, ptr) == out[ptr[1]].parts[ptr[2]]

\* a patchable origin has its lowered part, a tool its call and its output of one text
Correlated(o, out) ==
    o.opaque \/
    /\ o.ptrs # <<>>
    /\ o.kind = "tool" =>
        /\ o.call # NoPtr /\ PartAt(out, o.call).val = o.val
        /\ o.st = "completed" => /\ o.result # NoPtr
                                 /\ PartAt(out, o.result).form = "text"
                                 /\ PartAt(out, o.result).val = o.val

UniqueIds(out) ==
    \A m, n \in 1..Len(out) : m # n /\ out[m].id = out[n].id => out[m].id = 0

Normalize(h, out) ==
    LET claims == Claims(h, out)
        msgs == ResultClaims(h, out, CheckpointClaims(h, out, claims.msgs))
        entries == Entries(h, out, msgs)
    IN [entries |-> entries, request |-> out,
        valid |-> /\ UniqueIds(out) /\ claims.clear
                  /\ \A s \in 1..Len(h) :
                        /\ entries[s].norm => RoleFits(entries[s], out)
                        /\ \A j \in 1..Len(entries[s].origins) :
                              Correlated(entries[s].origins[j], out)]

Owner(p, m) == SelectInSeq(p.entries, LAMBDA e : m \in ToSet(e.out))
OpaqueMessage(p, m) == LET s == Owner(p, m) IN s = 0 \/ p.entries[s].opaque

\* the parts ACP must hand back as they are: opaque origins and what nobody accounts for
OpaqueParts(p, m) ==
    LET s == Owner(p, m)
        at(os) == {ptr[2] : ptr \in {q \in UNION {ToSet(o.ptrs) : o \in os} : q[1] = m}}
        all == 1..Len(p.request[m].parts)
    IN IF s = 0 THEN all
       ELSE LET os == ToSet(p.entries[s].origins)
            IN at({o \in os : o.opaque}) \cup IF p.entries[s].opaque THEN {} ELSE all \ at(os)

\* the messages the transform works on; a control or empty source has none
ViewPart(o) == [key |-> o.key, kind |-> o.kind, val |-> o.val, opaque |-> o.opaque, st |-> o.st,
                tag |-> FALSE, inp |-> FALSE]
InitialView(p) ==
    LET in == InOrder({s \in 1..Len(p.entries) : p.entries[s].norm})
    IN [k \in 1..Len(in) |->
           [id |-> in[k], role |-> ViewRole(p.entries[in[k]].type), notice |-> p.entries[in[k]].type = "notice",
            parts |-> [j \in 1..Len(p.entries[in[k]].origins) |->
                          ViewPart(p.entries[in[k]].origins[j])]]]
=============================================================================
