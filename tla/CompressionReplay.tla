-------------------------- MODULE CompressionReplay --------------------------
(***************************************************************************)
(* The replay of syncCompressionBlocks as the loop of the source           *)
(* (lib/messages/sync.ts), to be compared with Live, the closed form the   *)
(* specification and its proofs use.                                       *)
(***************************************************************************)
EXTENDS CompressionSession

\* Of orderedBlocks, the next among those left.
FirstOf(ps, left) == CHOOSE b \in left : \A c \in left : c = b \/ Earlier(ps, b, c)

\* One round of the loop: the block takes its consumed blocks out of
\* activeBlockIds, where they are in it already, and comes in itself.
Round(ps, active, b) ==
  IF Off(ps, b) THEN active ELSE (active \ ps.blocks[b].consumed) \cup {b}

Visited(ps, s) ==
  LET b == FirstOf(ps, s.left)
  IN [left |-> s.left \ {b}, active |-> Round(ps, s.active, b)]

\* What is left to visit and what is active after each round.
Rounds(ps) ==
  LET after[n \in 0 .. Cardinality(Ids(ps))] ==
        IF n = 0 THEN [left |-> Ids(ps), active |-> {}] ELSE Visited(ps, after[n - 1])
  IN after

Replay(ps) == Rounds(ps)[Cardinality(Ids(ps))].active

\* The loop, which kills and adds blocks in the order of their creation, ends
\* with the blocks the closed form names, also where the clock stepped back and
\* a consumer is replayed before what it consumed.
ReplayIsLive == Replay(prune) = Live(prune) /\ Replay(disk) = Live(disk)
=============================================================================
