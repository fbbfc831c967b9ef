--------------------------- MODULE MCV2Context ---------------------------
(* Instances of V2Context for TLC: the sources and the histories.          *)
EXTENDS V2Context

Src(type, items) == [type |-> type, items |-> items]
Ok(v) == Tool(v, "completed", FALSE, FALSE)

User == Src("user", <<Text("ask")>>)
UserFile == Src("user", <<Text("ask"), File("pic")>>)
Answer == Src("assistant", <<Reasoning("why"), Text("say")>>)
OneCall == Src("assistant", <<Text("say"), Ok("out")>>)
TwoCalls == Src("assistant", <<Reasoning("why"), Ok("one"), Ok("two")>>)
Executed == Src("assistant", <<Text("say"), Tool("out", "completed", FALSE, TRUE)>>)
FailedOnly == Src("assistant", <<Tool("bad", "error", FALSE, FALSE)>>)
ExecutedFirst == Src("assistant", <<Tool("out", "completed", FALSE, TRUE), Ok("one")>>)
Failed == Src("assistant", <<Ok("out"), Tool("bad", "error", FALSE, FALSE)>>)
FailedFirst == Src("assistant", <<Tool("bad", "error", FALSE, TRUE), Ok("one"), Ok("two")>>)
Running == Src("assistant", <<Text("say"), Tool("in", "running", FALSE, FALSE)>>)
Structured == Src("assistant", <<Text("say"), Tool("many", "completed", TRUE, FALSE)>>)
System == Src("system", <<Text("rule")>>)
Shell == Src("shell", <<Text("ran")>>)
Compaction == Src("compaction", <<Text("summary")>>)
Compacting == Src("compacting", <<>>)
Checkpoint == Src("checkpoint", <<>>)
Foreign == Src("synthetic", <<Text("note")>>)
Notice == Src("notice", <<Text("notice")>>)
Idle == Src("idle", <<>>)

All == {User, UserFile, Answer, OneCall, TwoCalls, Executed, Failed, Running, Structured, System,
        Shell, Compaction, Compacting, Checkpoint, Foreign, Notice, Idle}
\* a history does not begin with a notice; a checkpoint stands at its start (or behind a text)
Pairs == (All \ {Notice}) \X (All \ {Checkpoint})
Triples == {<<User, a, b>> : a \in {OneCall, Failed, System, Checkpoint, Shell, Notice},
                             b \in {OneCall, User, System, Compaction, Idle}}
\* the histories whose request is disturbed: every kind of source, first or second, next to a
\* message with a call or without
Mixed == {h \in Pairs : \E k \in 1..2 : h[k] \in {UserFile, TwoCalls, Failed}}
PairsAndTriples ==
    Pairs \cup Triples \cup {<<User, FailedFirst>>, <<User, ExecutedFirst>>, <<System, FailedOnly>>}
=============================================================================
