----------------------- MODULE CompressionSessionProofs -----------------------
(***************************************************************************)
(* The invariants of a session, for any number of messages and blocks, any *)
(* configuration and either host.                                          *)
(*                                                                         *)
(* First, what the operators of CompressionBlocks keep.  A compression and *)
(* a merge change a state the same way: they add one block that takes some *)
(* active blocks away (Adds), so what they keep is proved once.            *)
(*                                                                         *)
(* Then the session: every action replaces the live state by one that is   *)
(* sound by these lemmas, and the file by a copy of it or by nothing; IInv *)
(* is therefore inductive, and the safety properties follow from it.       *)
(***************************************************************************)
EXTENDS CompressionReplay, FiniteSetTheorems, WellFoundedInduction, TLAPS

-----------------------------------------------------------------------------
(* Numbers and closures.                                                   *)

\* A set of numbers has a least element (Oldest is one of its blocks).
LEMMA NatMin ==
  ASSUME NEW S, S \subseteq Nat, S # {}
  PROVE  \E x \in S : \A y \in S : x <= y
<1> DEFINE R == {ss \in Nat \X Nat : ss[1] < ss[2]}
<1>1. OpToRel(<, Nat) = R
  BY DEF OpToRel
<1>2. IsWellFoundedOn(R, Nat)
  BY <1>1, NatLessThanWellFounded, Zenon
<1> HIDE DEF R
<1>3. PICK x \in S : \A y \in S : ~ (<<y, x>> \in R)
  BY <1>2, WFMin, Zenon
<1>4. ASSUME NEW y \in S
      PROVE  x <= y
  <2>1. x \in Nat /\ y \in Nat
    OBVIOUS
  <2>2. <<y, x>> \in Nat \X Nat /\ <<y, x>>[1] = y /\ <<y, x>>[2] = x
    BY <2>1
  <2>3. ~ (<<y, x>>[1] < <<y, x>>[2])
    BY <1>3, <2>2, Zenon DEF R
  <2> QED
    BY <2>1, <2>2, <2>3
<1> QED
  BY <1>4, SMT

\* A set of block ids has a greatest element.
LEMMA GreatestId ==
  ASSUME NEW n \in Nat, NEW S, S \subseteq 1 .. n, S # {}
  PROVE  \E x \in S : \A y \in S : y <= x
<1> DEFINE T == {n - x : x \in S}
<1>1. T \subseteq Nat /\ T # {}
  <2>1. \A x \in S : n - x \in Nat
    OBVIOUS
  <2>2. PICK x \in S : TRUE
    OBVIOUS
  <2>3. n - x \in T
    OBVIOUS
  <2> QED
    BY <2>1, <2>3
<1>2. PICK t \in T : \A u \in T : t <= u
  BY <1>1, NatMin
<1>3. PICK x \in S : t = n - x
  OBVIOUS
<1>4. \A y \in S : n - x <= n - y
  BY <1>2, <1>3
<1> QED
  BY <1>4

\* The closure holds its seeds, and the successors of its members.
LEMMA ClosureSeeds ==
  ASSUME NEW next, NEW S, NEW b \in S \cap DOMAIN next
  PROVE  b \in Closure(next, S)
BY Zenon DEF Closure

LEMMA ClosureSteps ==
  ASSUME NEW next, NEW S, NEW c \in Closure(next, S),
         NEW b \in next[c] \cap DOMAIN next
  PROVE  b \in Closure(next, S)
BY Zenon DEF Closure

LEMMA ClosureInDomain ==
  ASSUME NEW next, NEW S
  PROVE  Closure(next, S) \subseteq DOMAIN next
BY Zenon DEF Closure

-----------------------------------------------------------------------------
\* The fields of a typed state.
LEMMA TypedFields ==
  ASSUME NEW ps, Typed(ps)
  PROVE  /\ ps.next \in Nat \ {0}
         /\ Ids(ps) = 1 .. (ps.next - 1)
         /\ ps.blocks \in [Ids(ps) -> Block]
         /\ ps.activeIds \in SUBSET Ids(ps)
         /\ ps.all \in [Msg -> SUBSET Ids(ps)]
         /\ ps.act \in [Msg -> SUBSET Ids(ps)]
         /\ ps.verified \in BOOLEAN /\ ps.synced \in BOOLEAN
BY DEF Typed, PruneState, Ids

LEMMA BlockFields ==
  ASSUME NEW ps, Typed(ps), NEW b \in Ids(ps)
  PROVE  /\ ps.blocks[b] \in Block
         /\ ps.blocks[b].active \in BOOLEAN
         /\ ps.blocks[b].effective \subseteq Msg
         /\ ps.blocks[b].createdAt \in Nat
         /\ ps.blocks[b].tier \in Tier
         /\ ps.blocks[b].anchor \in Msg
BY TypedFields, TimesAssumption DEF Block

-----------------------------------------------------------------------------
(* Adding a block.                                                         *)

\* q is ps with one more block, which consumes the blocks of gone.
Adds(ps, q, gone) ==
  /\ q.next = ps.next + 1
  /\ Ids(q) = Ids(ps) \cup {ps.next}
  /\ \A c \in Ids(ps) :
       /\ q.blocks[c].active = (ps.blocks[c].active /\ c \notin gone)
       /\ q.blocks[c].byUser = ps.blocks[c].byUser
       /\ q.blocks[c].byUserDeep = ps.blocks[c].byUserDeep
       /\ q.blocks[c].consumed = ps.blocks[c].consumed
       /\ q.blocks[c].effective = ps.blocks[c].effective
       /\ q.blocks[c].createdAt = ps.blocks[c].createdAt
       /\ q.blocks[c].parents =
            ps.blocks[c].parents \cup (IF c \in gone THEN {ps.next} ELSE {})
  /\ q.blocks[ps.next].active
  /\ ~q.blocks[ps.next].byUser /\ ~q.blocks[ps.next].byUserDeep
  /\ q.blocks[ps.next].consumed = gone
  /\ EffectiveOf(ps, gone) \subseteq q.blocks[ps.next].effective
  /\ q.activeIds = (ps.activeIds \ gone) \cup {ps.next}
  /\ \A m \in Msg :
       LET new == IF m \in q.blocks[ps.next].effective THEN {ps.next} ELSE {}
       IN /\ q.all[m] = ps.all[m] \cup new
          /\ q.act[m] = (ps.act[m] \ gone) \cup new
  /\ ~q.synced

LEMMA AddsSound ==
  ASSUME NEW ps, NEW q, NEW gone, Sound(ps), Typed(q),
         gone \subseteq ps.activeIds, Adds(ps, q, gone)
  PROVE  Sound(q)
<1> DEFINE b == ps.next
<1>1. /\ Ids(ps) = 1 .. (b - 1) /\ b \in Nat \ {0}
      /\ ps.activeIds \subseteq Ids(ps)
      /\ Ids(q) = Ids(ps) \cup {b} /\ b \notin Ids(ps)
      /\ gone \subseteq Ids(ps)
  BY TypedFields DEF Sound, Adds
<1>2. \A c \in Ids(ps) : ps.blocks[c].active \in BOOLEAN
  BY BlockFields DEF Sound
<1>3. \A c \in Ids(ps) : Off(q, c) <=> Off(ps, c)
  BY DEF Adds, Off
<1>4. ~Off(q, b)
  BY DEF Adds, Off
<1>5. Indexed(q)
  <2>1. q.activeIds = {c \in Ids(q) : q.blocks[c].active}
    <3>1. \A c \in Ids(ps) : c \in q.activeIds <=> q.blocks[c].active
      BY <1>1, <1>2 DEF Sound, Indexed, Adds
    <3>2. b \in q.activeIds /\ q.blocks[b].active
      BY DEF Adds
    <3>3. q.activeIds \subseteq Ids(q)
      BY <1>1 DEF Adds
    <3> QED
      BY <1>1, <3>1, <3>2, <3>3
  <2>2. ASSUME NEW m \in Msg
        PROVE  q.all[m] = {c \in Ids(q) : m \in q.blocks[c].effective}
    <3>1. ps.all[m] = {c \in Ids(ps) : m \in ps.blocks[c].effective}
      BY DEF Sound, Indexed
    <3>2. q.all[m] = ps.all[m] \cup
             (IF m \in q.blocks[b].effective THEN {b} ELSE {})
      BY DEF Adds
    <3>3. \A c \in Ids(ps) : q.blocks[c].effective = ps.blocks[c].effective
      BY DEF Adds
    <3> QED
      BY <1>1, <3>1, <3>2, <3>3
  <2>3. ASSUME NEW m \in Msg
        PROVE  q.act[m] = q.all[m] \cap q.activeIds
    <3>1. ps.act[m] = ps.all[m] \cap ps.activeIds /\ ps.all[m] \subseteq Ids(ps)
      BY DEF Sound, Indexed
    <3> QED
      BY <1>1, <3>1 DEF Adds
  <2> QED
    BY <2>1, <2>2, <2>3 DEF Indexed
<1>6. Lineage(q)
  <2> SUFFICES ASSUME NEW d \in Ids(q), NEW c \in q.blocks[d].consumed
               PROVE  /\ c \in Ids(q) /\ c < d
                      /\ q.blocks[c].effective \subseteq q.blocks[d].effective
                      /\ d \in q.blocks[c].parents
    BY DEF Lineage
  <2>1. CASE d = b
    <3>1. c \in gone /\ c \in Ids(ps)
      BY <1>1, <2>1 DEF Adds
    <3>2. ps.blocks[c].effective \subseteq EffectiveOf(ps, gone)
      BY <3>1 DEF EffectiveOf
    <3> QED
      BY <1>1, <2>1, <3>1, <3>2 DEF Adds
  <2>2. CASE d \in Ids(ps)
    <3>1. c \in ps.blocks[d].consumed
      BY <2>2 DEF Adds
    <3>2. /\ c \in Ids(ps) /\ c < d
          /\ ps.blocks[c].effective \subseteq ps.blocks[d].effective
          /\ d \in ps.blocks[c].parents
      BY <2>2, <3>1 DEF Sound, Lineage
    <3> QED
      BY <1>1, <2>2, <3>2 DEF Adds
  <2> QED
    BY <1>1, <2>1, <2>2
<1>7. Retained(q)
  <2> SUFFICES ASSUME NEW d \in Ids(q)
               PROVE  /\ q.blocks[d].active => ~Off(q, d)
                      /\ \/ q.blocks[d].active \/ Off(q, d)
                         \/ \E c \in Ids(q) :
                              ~Off(q, c) /\ d \in q.blocks[c].consumed
    BY DEF Retained
  <2>1. CASE d = b
    BY <1>4, <2>1 DEF Adds
  <2>2. CASE d \in gone
    <3>1. d \in Ids(ps) /\ d \in q.blocks[b].consumed /\ b \in Ids(q)
      BY <1>1, <2>2 DEF Adds
    <3>2. ~ q.blocks[d].active
      BY <2>2, <3>1 DEF Adds
    <3> QED
      BY <1>4, <3>1, <3>2
  <2>3. CASE d \in Ids(ps) /\ d \notin gone
    <3>1. q.blocks[d].active <=> ps.blocks[d].active
      BY <1>2, <2>3 DEF Adds
    <3>2. /\ ps.blocks[d].active => ~Off(ps, d)
          /\ \/ ps.blocks[d].active \/ Off(ps, d)
             \/ \E c \in Ids(ps) : ~Off(ps, c) /\ d \in ps.blocks[c].consumed
      BY <2>3 DEF Sound, Retained
    <3>3. \A c \in Ids(ps) : q.blocks[c].consumed = ps.blocks[c].consumed
      BY DEF Adds
    <3> QED
      BY <1>1, <1>3, <2>3, <3>1, <3>2, <3>3
  <2> QED
    BY <1>1, <2>1, <2>2, <2>3
<1> QED
  BY <1>5, <1>6, <1>7 DEF Sound, Adds

\* A block that is not older than the others leaves the replay at its fixed
\* point: what it consumes dies in the replay too, and nothing else does.
LEMMA AddsFixedPoint ==
  ASSUME NEW ps, NEW q, NEW gone, Sound(ps), Typed(q),
         gone \subseteq ps.activeIds, Adds(ps, q, gone), FixedPoint(ps),
         \A c \in Ids(ps) : ps.blocks[c].createdAt <= q.blocks[ps.next].createdAt
  PROVE  FixedPoint(q)
<1> DEFINE b == ps.next
<1>1. /\ Ids(ps) = 1 .. (b - 1) /\ b \in Nat \ {0}
      /\ ps.activeIds \subseteq Ids(ps)
      /\ Ids(q) = Ids(ps) \cup {b} /\ b \notin Ids(ps)
      /\ gone \subseteq Ids(ps)
  BY TypedFields DEF Sound, Adds
<1>2. /\ \A c \in Ids(ps) : ps.blocks[c].createdAt \in Nat
      /\ q.blocks[b].createdAt \in Nat
  BY <1>1, BlockFields DEF Sound
<1>3. \A c \in Ids(ps) :
        /\ Off(q, c) <=> Off(ps, c)
        /\ q.blocks[c].consumed = ps.blocks[c].consumed
        /\ q.blocks[c].createdAt = ps.blocks[c].createdAt
  BY DEF Adds, Off
<1>4. ~Off(q, b) /\ q.blocks[b].consumed = gone
  BY DEF Adds, Off
<1>5. \A c \in Ids(ps) : Earlier(q, c, b)
  BY <1>1, <1>2, <1>3 DEF Earlier
<1>6. \A c, d \in Ids(ps) : Earlier(q, c, d) <=> Earlier(ps, c, d)
  BY <1>3 DEF Earlier
<1>7. b \in Live(q)
  <2>1. \A c \in Ids(q) : b \notin q.blocks[c].consumed
    BY <1>1, <1>3, <1>4 DEF Sound, Lineage
  <2> QED
    BY <1>1, <1>4, <2>1 DEF Live
<1>8. ASSUME NEW c \in Ids(ps)
      PROVE  c \in Live(q) <=> (c \in Live(ps) /\ c \notin gone)
  <2> DEFINE Spared(d) == (~Off(q, d) /\ c \in q.blocks[d].consumed) => ~Earlier(q, c, d)
  <2>1. c \in Live(q) <=> (~Off(q, c) /\ \A d \in Ids(ps) \cup {b} : Spared(d))
    BY <1>1 DEF Live
  <2>2. Spared(b) <=> c \notin gone
    BY <1>4, <1>5
  <2>3. c \in Live(ps) <=> (~Off(q, c) /\ \A d \in Ids(ps) : Spared(d))
    BY <1>3, <1>6 DEF Live
  <2> QED
    BY <2>1, <2>2, <2>3
<1>9. Live(q) \subseteq Ids(q) /\ Live(ps) \subseteq Ids(ps)
  BY DEF Live
<1> QED
  BY <1>1, <1>7, <1>8, <1>9 DEF FixedPoint, Adds

-----------------------------------------------------------------------------
(* applyCompressionState.                                                  *)

LEMMA LowestTierType ==
  ASSUME NEW ps, Typed(ps), NEW S, S \subseteq Ids(ps)
  PROVE  LowestTier(ps, S) \in Tier
<1> DEFINE P(t) == /\ S = {} => t = 1
                   /\ S # {} => /\ \E b \in S : ps.blocks[b].tier = t
                                /\ \A b \in S : ps.blocks[b].tier >= t
<1>1. \A b \in S : ps.blocks[b].tier \in Tier
  BY BlockFields
<1>2. \E t \in Tier : P(t)
  <2>1. CASE S = {}
    BY <2>1 DEF Tier
  <2>2. CASE S # {}
    <3> DEFINE T == {ps.blocks[b].tier : b \in S}
    <3>1. T \subseteq Nat /\ T # {}
      BY <1>1, <2>2 DEF Tier
    <3>2. PICK t \in T : \A u \in T : t <= u
      BY <3>1, NatMin
    <3>3. t \in Tier
      BY <1>1
    <3>4. \A b \in S : ps.blocks[b].tier >= t
      BY <1>1, <3>2, <3>3 DEF Tier
    <3> QED
      BY <2>2, <3>3, <3>4
  <2> QED
    BY <2>1, <2>2
<1> QED
  BY <1>2 DEF LowestTier

LEMMA OutputTierType ==
  ASSUME NEW ps, Typed(ps), NEW plan \in Plan, plan.consumed \subseteq Ids(ps)
  PROVE  OutputTier(ps, plan) \in Tier
<1>1. LowestTier(ps, plan.consumed) \in 1 .. 3
  BY LowestTierType DEF Tier
<1> QED
  BY <1>1 DEF OutputTier, Tier

LEMMA EffectiveOfType ==
  ASSUME NEW ps, Typed(ps), NEW S, S \subseteq Ids(ps)
  PROVE  EffectiveOf(ps, S) \subseteq Msg
BY BlockFields DEF EffectiveOf

LEMMA NewBlockType ==
  ASSUME NEW ps, Typed(ps), NEW plan \in Plan, plan.consumed \subseteq Ids(ps)
  PROVE  NewBlock(ps, plan) \in Block
<1>1. OutputTier(ps, plan) \in Tier
  BY OutputTierType
<1>2. Absorbed(ps, plan) \subseteq Nat /\ Absorbed(ps, plan) \subseteq Ids(ps)
  BY TypedFields DEF Absorbed
<1>3. EffectiveOf(ps, Absorbed(ps, plan)) \subseteq Msg
  BY <1>2, EffectiveOfType
<1>4. /\ plan.msgs \subseteq Msg /\ plan.anchor \in Msg
      /\ plan.at \in Times /\ plan.long \in BOOLEAN
  BY DEF Plan
<1>5. 0 \in 0 .. PromotionThreshold
  BY ThresholdAssumption
<1> HIDE DEF Plan
<1> QED
  BY <1>1, <1>2, <1>3, <1>4, <1>5 DEF NewBlock, NewBlockOver, Fresh, Block

LEMMA RetiredType ==
  ASSUME NEW block \in Block, NEW by \in Nat
  PROVE  Retired(block, by) \in Block
BY DEF Retired, Block

LEMMA AgedType ==
  ASSUME NEW block \in Block
  PROVE  Aged(block) \in Block
<1> DEFINE n == IF block.age < PromotionThreshold THEN block.age + 1 ELSE block.age
<1>1. n \in 0 .. PromotionThreshold
  BY ThresholdAssumption DEF Block
<1>2. [block EXCEPT !.age = n, !.old = @ \/ n = PromotionThreshold] \in Block
  <2> HIDE DEF n
  <2> QED
    BY <1>1 DEF Block
<1> QED
  BY <1>2 DEF Aged

\* The blocks after a compression of active blocks.
LEMMA ApplyBlocks ==
  ASSUME NEW ps, Sound(ps), NEW plan \in Plan, plan.consumed \subseteq ps.activeIds
  PROVE  LET q == Apply(ps, plan)
             absorbed == Absorbed(ps, plan)
         IN /\ absorbed \subseteq ps.activeIds
            /\ Ids(q) = Ids(ps) \cup {ps.next}
            /\ q.blocks[ps.next] = NewBlock(ps, plan)
            /\ \A c \in Ids(ps) :
                 q.blocks[c] =
                   IF c \in absorbed THEN Retired(ps.blocks[c], ps.next)
                   ELSE IF ps.blocks[c].active /\ c \notin plan.consumed
                        THEN Aged(ps.blocks[c]) ELSE ps.blocks[c]
<1>1. /\ Ids(ps) = 1 .. (ps.next - 1) /\ ps.next \in Nat \ {0}
      /\ ps.activeIds = {b \in Ids(ps) : ps.blocks[b].active}
  BY TypedFields DEF Sound, Indexed
<1>2. Absorbed(ps, plan) \subseteq ps.activeIds
  BY DEF Absorbed
<1>3. Absorbed(ps, plan) = {c \in Absorbed(ps, plan) : ps.blocks[c].active}
  BY <1>1, <1>2
<1>4. Apply(ps, plan).blocks =
        [c \in Ids(ps) \cup {ps.next} |->
           IF c = ps.next THEN NewBlock(ps, plan)
           ELSE IF c \in Absorbed(ps, plan) THEN Retired(ps.blocks[c], ps.next)
           ELSE IF ps.blocks[c].active /\ c \notin plan.consumed
                THEN Aged(ps.blocks[c]) ELSE ps.blocks[c]]
  BY <1>3, Zenon DEF Apply
<1>5. \A c \in Ids(ps) : c # ps.next
  BY <1>1
<1> QED
  BY <1>2, <1>4, <1>5 DEF Ids

\* The index of the messages after a compression of active blocks.
LEMMA ApplyIndexes ==
  ASSUME NEW ps, Sound(ps), NEW plan \in Plan, plan.consumed \subseteq ps.activeIds,
         NEW m \in Msg
  PROVE  LET q == Apply(ps, plan)
             absorbed == Absorbed(ps, plan)
             new == IF m \in NewBlock(ps, plan).effective THEN {ps.next} ELSE {}
         IN /\ q.all[m] = ps.all[m] \cup new
            /\ q.act[m] = (ps.act[m] \ absorbed) \cup new
<1> DEFINE absorbed == Absorbed(ps, plan)
           effective == NewBlock(ps, plan).effective
           member == plan.msgs \cup {k \in effective : HasEntry(ps, k)}
           gone == {c \in absorbed : m \in ps.blocks[c].effective}
<1>1. effective = plan.msgs \cup EffectiveOf(ps, absorbed)
  BY DEF NewBlock, NewBlockOver, Fresh
<1>2. /\ absorbed \subseteq ps.activeIds /\ ps.activeIds \subseteq Ids(ps)
      /\ ps.all[m] = {b \in Ids(ps) : m \in ps.blocks[b].effective}
      /\ ps.act[m] = ps.all[m] \cap ps.activeIds
  BY TypedFields DEF Sound, Indexed, Absorbed
<1>3. m \in EffectiveOf(ps, absorbed) => HasEntry(ps, m)
  BY <1>2 DEF EffectiveOf, HasEntry
<1>4. m \in member <=> m \in effective
  BY <1>1, <1>3
<1>5. ps.act[m] \ gone = ps.act[m] \ absorbed
  BY <1>2
<1>6. /\ Apply(ps, plan).all[m] =
            (IF m \in member THEN ps.all[m] \cup {ps.next} ELSE ps.all[m])
      /\ Apply(ps, plan).act[m] =
            (IF m \in member THEN (ps.act[m] \ gone) \cup {ps.next} ELSE ps.act[m] \ gone)
  BY DEF Apply
<1> HIDE DEF member, gone, effective, absorbed
<1>7. /\ Apply(ps, plan).all[m] =
            ps.all[m] \cup (IF m \in effective THEN {ps.next} ELSE {})
      /\ Apply(ps, plan).act[m] =
            (ps.act[m] \ absorbed) \cup (IF m \in effective THEN {ps.next} ELSE {})
  BY <1>4, <1>5, <1>6
<1> QED
  BY <1>7 DEF effective, absorbed

LEMMA ApplyAdds ==
  ASSUME NEW ps, Sound(ps), NEW plan \in Plan, plan.consumed \subseteq ps.activeIds
  PROVE  Adds(ps, Apply(ps, plan), Absorbed(ps, plan))
<1> DEFINE q == Apply(ps, plan)
           absorbed == Absorbed(ps, plan)
<1>1. /\ q.next = ps.next + 1 /\ ~q.synced
      /\ q.activeIds = (ps.activeIds \cup {ps.next}) \ {c \in absorbed : ps.blocks[c].active}
  BY DEF Apply
<1>2. /\ absorbed \subseteq ps.activeIds /\ ps.activeIds \subseteq Ids(ps)
      /\ ps.next \notin Ids(ps)
      /\ absorbed = {c \in absorbed : ps.blocks[c].active}
  BY TypedFields DEF Sound, Indexed, Absorbed
<1>3. q.activeIds = (ps.activeIds \ absorbed) \cup {ps.next}
  BY <1>1, <1>2
<1>4. /\ Ids(q) = Ids(ps) \cup {ps.next}
      /\ q.blocks[ps.next] = NewBlock(ps, plan)
  BY ApplyBlocks
<1>5. ASSUME NEW c \in Ids(ps)
      PROVE  /\ q.blocks[c].active = (ps.blocks[c].active /\ c \notin absorbed)
             /\ q.blocks[c].byUser = ps.blocks[c].byUser
             /\ q.blocks[c].byUserDeep = ps.blocks[c].byUserDeep
             /\ q.blocks[c].consumed = ps.blocks[c].consumed
             /\ q.blocks[c].effective = ps.blocks[c].effective
             /\ q.blocks[c].createdAt = ps.blocks[c].createdAt
             /\ q.blocks[c].parents =
                  ps.blocks[c].parents \cup (IF c \in absorbed THEN {ps.next} ELSE {})
  <2>1. ps.blocks[c] \in Block
    BY BlockFields DEF Sound
  <2>2. CASE c \in absorbed
    <3>1. q.blocks[c] = Retired(ps.blocks[c], ps.next)
      BY <2>2, ApplyBlocks
    <3> HIDE DEF q, absorbed
    <3> QED
      BY <2>1, <2>2, <3>1 DEF Retired, Block
  <2>3. CASE c \notin absorbed
    <3>1. q.blocks[c] = Aged(ps.blocks[c]) \/ q.blocks[c] = ps.blocks[c]
      BY <2>3, ApplyBlocks
    <3> HIDE DEF q, absorbed
    <3> QED
      BY <2>1, <2>3, <3>1 DEF Aged, Block
  <2> QED
    BY <2>2, <2>3
<1>6. /\ NewBlock(ps, plan).active
      /\ ~NewBlock(ps, plan).byUser /\ ~NewBlock(ps, plan).byUserDeep
      /\ NewBlock(ps, plan).consumed = absorbed
      /\ EffectiveOf(ps, absorbed) \subseteq NewBlock(ps, plan).effective
  BY DEF NewBlock, NewBlockOver, Fresh
<1>7. \A m \in Msg :
        LET new == IF m \in NewBlock(ps, plan).effective THEN {ps.next} ELSE {}
        IN /\ q.all[m] = ps.all[m] \cup new
           /\ q.act[m] = (ps.act[m] \ absorbed) \cup new
  BY ApplyIndexes
<1> HIDE DEF q, absorbed
<1>8. Adds(ps, q, absorbed)
  BY <1>1, <1>3, <1>4, <1>5, <1>6, <1>7 DEF Adds
<1> QED
  BY <1>8 DEF q, absorbed

LEMMA ApplyTyped ==
  ASSUME NEW ps, Sound(ps), NEW plan \in Plan, plan.consumed \subseteq ps.activeIds
  PROVE  Typed(Apply(ps, plan))
<1> DEFINE q == Apply(ps, plan)
           absorbed == Absorbed(ps, plan)
<1>1. /\ Ids(ps) = 1 .. (ps.next - 1) /\ ps.next \in Nat \ {0}
      /\ ps.activeIds \subseteq Ids(ps)
      /\ \A m \in Msg : ps.all[m] \subseteq Ids(ps) /\ ps.act[m] \subseteq Ids(ps)
  BY TypedFields DEF Sound
<1>2. q.next = ps.next + 1 /\ q.next \in Nat \ {0}
  BY <1>1 DEF Apply
<1>3. 1 .. (q.next - 1) = Ids(ps) \cup {ps.next}
  BY <1>1, <1>2
<1>4. q.blocks \in [1 .. (q.next - 1) -> Block]
  <2>1. \A c \in Ids(ps) \cup {ps.next} : q.blocks[c] \in Block
    <3>1. NewBlock(ps, plan) \in Block
      BY <1>1, NewBlockType DEF Sound
    <3>2. \A c \in Ids(ps) : ps.blocks[c] \in Block
      BY BlockFields DEF Sound
    <3>3. \A c \in Ids(ps) :
             Retired(ps.blocks[c], ps.next) \in Block /\ Aged(ps.blocks[c]) \in Block
      BY <1>1, <3>2, RetiredType, AgedType
    <3> QED
      BY ApplyBlocks, <3>1, <3>2, <3>3
  <2>2. q.blocks = [c \in Ids(ps) \cup {ps.next} |-> q.blocks[c]]
    BY DEF Apply
  <2> HIDE DEF q
  <2> QED
    BY <1>3, <2>1, <2>2
<1>5. q.activeIds \subseteq 1 .. (q.next - 1)
  BY <1>1, <1>3, ApplyAdds DEF Adds
<1>6. \A m \in Msg : /\ q.all[m] \subseteq 1 .. (q.next - 1)
                      /\ q.act[m] \subseteq 1 .. (q.next - 1)
  BY <1>1, <1>3, ApplyIndexes
<1>7. /\ q.all = [m \in Msg |-> q.all[m]] /\ q.act = [m \in Msg |-> q.act[m]]
      /\ q.verified = FALSE /\ q.synced = FALSE
      /\ q = [blocks |-> q.blocks, activeIds |-> q.activeIds, all |-> q.all,
              act |-> q.act, next |-> q.next, verified |-> q.verified, synced |-> q.synced]
  BY DEF Apply
<1> HIDE DEF q
<1>8. q \in PruneState(q.next)
  BY <1>4, <1>5, <1>6, <1>7 DEF PruneState
<1> QED
  BY <1>2, <1>8 DEF Typed, q

LEMMA ApplySound ==
  ASSUME NEW ps, Sound(ps), NEW plan \in Plan, plan.consumed \subseteq ps.activeIds
  PROVE  Sound(Apply(ps, plan))
BY ApplyTyped, ApplyAdds, ApplyBlocks, AddsSound

LEMMA ApplyFixedPoint ==
  ASSUME NEW ps, Sound(ps), NEW plan \in Plan, plan.consumed \subseteq ps.activeIds,
         FixedPoint(ps), \A c \in Ids(ps) : ps.blocks[c].createdAt <= plan.at
  PROVE  FixedPoint(Apply(ps, plan))
<1>1. Apply(ps, plan).blocks[ps.next] = NewBlock(ps, plan)
  BY ApplyBlocks
<1>2. NewBlock(ps, plan).createdAt = plan.at
  BY DEF NewBlock, NewBlockOver, Fresh
<1> QED
  BY <1>1, <1>2, ApplyTyped, ApplyAdds, ApplyBlocks, AddsFixedPoint

-----------------------------------------------------------------------------
(* mergeMarkedBlocks.                                                      *)

LEMMA MergeableActive ==
  ASSUME NEW ps
  PROVE  Mergeable(ps) \subseteq ps.activeIds
BY DEF Mergeable

LEMMA MergedBlockType ==
  ASSUME NEW ps, Sound(ps), NEW S, S \subseteq ps.activeIds, S # {}, NEW at \in Times
  PROVE  MergedBlock(ps, S, at) \in Block
<1>1. S \subseteq Ids(ps) /\ S \subseteq Nat
  BY TypedFields DEF Sound
<1>2. \E b \in S : \A c \in S : b <= c
  BY <1>1, NatMin
<1>3. Oldest(S) \in S
  BY <1>2 DEF Oldest
<1>4. ps.blocks[Oldest(S)].anchor \in Msg
  BY <1>1, <1>3, BlockFields DEF Sound
<1>5. EffectiveOf(ps, S) \subseteq Msg
  BY <1>1, EffectiveOfType DEF Sound
<1>6. 0 \in 0 .. PromotionThreshold /\ 1 \in Tier
  BY ThresholdAssumption DEF Tier
<1> QED
  BY <1>1, <1>4, <1>5, <1>6 DEF MergedBlock, Fresh, Block

LEMMA MergeIndexes ==
  ASSUME NEW ps, Sound(ps), NEW S, S \subseteq ps.activeIds, NEW at \in Times,
         NEW m \in Msg
  PROVE  LET q == Merge(ps, S, at)
             new == IF m \in EffectiveOf(ps, S) THEN {ps.next} ELSE {}
         IN /\ q.all[m] = ps.all[m] \cup new
            /\ q.act[m] = (ps.act[m] \ S) \cup new
<1> DEFINE effective == MergedBlock(ps, S, at).effective
           member == {k \in effective : HasEntry(ps, k)}
<1>1. effective = EffectiveOf(ps, S)
  BY DEF MergedBlock, Fresh
<1>2. /\ S \subseteq Ids(ps)
      /\ ps.all[m] = {b \in Ids(ps) : m \in ps.blocks[b].effective}
      /\ ps.act[m] = ps.all[m] \cap ps.activeIds
  BY TypedFields DEF Sound, Indexed
<1>3. m \in EffectiveOf(ps, S) <=> m \in member
  BY <1>1, <1>2 DEF EffectiveOf, HasEntry
<1>4. m \notin EffectiveOf(ps, S) => ps.act[m] \cap S = {}
  BY <1>2 DEF EffectiveOf
<1>5. /\ Merge(ps, S, at).all[m] =
            (IF m \in member THEN ps.all[m] \cup {ps.next} ELSE ps.all[m])
      /\ Merge(ps, S, at).act[m] =
            (IF m \in member THEN (ps.act[m] \ S) \cup {ps.next} ELSE ps.act[m])
  BY DEF Merge
<1> HIDE DEF member, effective
<1> QED
  BY <1>3, <1>4, <1>5

LEMMA MergeAdds ==
  ASSUME NEW ps, Sound(ps), NEW S, S \subseteq ps.activeIds, NEW at \in Times
  PROVE  Adds(ps, Merge(ps, S, at), S)
<1> DEFINE q == Merge(ps, S, at)
           new == MergedBlock(ps, S, at)
<1>1. /\ q.next = ps.next + 1 /\ ~q.synced
      /\ q.activeIds = (ps.activeIds \ S) \cup {ps.next}
  BY DEF Merge
<1>2. ps.next \notin Ids(ps)
  BY TypedFields DEF Sound
<1>3. Ids(q) = Ids(ps) \cup {ps.next}
  BY DEF Merge, Ids
<1>4. q.blocks[ps.next] = new
  BY DEF Merge
<1>5. ASSUME NEW c \in Ids(ps)
      PROVE  /\ q.blocks[c].active = (ps.blocks[c].active /\ c \notin S)
             /\ q.blocks[c].byUser = ps.blocks[c].byUser
             /\ q.blocks[c].byUserDeep = ps.blocks[c].byUserDeep
             /\ q.blocks[c].consumed = ps.blocks[c].consumed
             /\ q.blocks[c].effective = ps.blocks[c].effective
             /\ q.blocks[c].createdAt = ps.blocks[c].createdAt
             /\ q.blocks[c].parents =
                  ps.blocks[c].parents \cup (IF c \in S THEN {ps.next} ELSE {})
  <2>1. ps.blocks[c] \in Block
    BY BlockFields DEF Sound
  <2>2. q.blocks[c] = IF c \in S THEN Retired(ps.blocks[c], ps.next) ELSE ps.blocks[c]
    BY <1>2 DEF Merge
  <2> HIDE DEF q
  <2> QED
    BY <2>1, <2>2 DEF Retired, Block
<1>6. /\ new.active /\ ~new.byUser /\ ~new.byUserDeep
      /\ new.consumed = S /\ new.effective = EffectiveOf(ps, S)
  BY DEF MergedBlock, Fresh
<1>7. \A m \in Msg :
        LET added == IF m \in new.effective THEN {ps.next} ELSE {}
        IN /\ q.all[m] = ps.all[m] \cup added
           /\ q.act[m] = (ps.act[m] \ S) \cup added
  BY <1>6, MergeIndexes
<1> HIDE DEF q, new
<1>8. Adds(ps, q, S)
  BY <1>1, <1>3, <1>4, <1>5, <1>6, <1>7 DEF Adds
<1> QED
  BY <1>8 DEF q

LEMMA MergeTyped ==
  ASSUME NEW ps, Sound(ps), NEW S, S \subseteq ps.activeIds, S # {}, NEW at \in Times
  PROVE  Typed(Merge(ps, S, at))
<1> DEFINE q == Merge(ps, S, at)
<1>1. /\ Ids(ps) = 1 .. (ps.next - 1) /\ ps.next \in Nat \ {0}
      /\ ps.activeIds \subseteq Ids(ps)
      /\ \A m \in Msg : ps.all[m] \subseteq Ids(ps) /\ ps.act[m] \subseteq Ids(ps)
  BY TypedFields DEF Sound
<1>2. q.next = ps.next + 1 /\ q.next \in Nat \ {0}
  BY <1>1 DEF Merge
<1>3. 1 .. (q.next - 1) = Ids(ps) \cup {ps.next}
  BY <1>1, <1>2
<1>4. q.blocks \in [1 .. (q.next - 1) -> Block]
  <2>1. MergedBlock(ps, S, at) \in Block
    BY MergedBlockType
  <2>2. \A c \in Ids(ps) :
           ps.blocks[c] \in Block /\ Retired(ps.blocks[c], ps.next) \in Block
    BY <1>1, BlockFields, RetiredType DEF Sound
  <2>3. q.blocks = [c \in Ids(ps) \cup {ps.next} |->
                      IF c = ps.next THEN MergedBlock(ps, S, at)
                      ELSE IF c \in S THEN Retired(ps.blocks[c], ps.next)
                           ELSE ps.blocks[c]]
    BY DEF Merge
  <2> HIDE DEF q
  <2> QED
    BY <1>3, <2>1, <2>2, <2>3
<1>5. q.activeIds \subseteq 1 .. (q.next - 1)
  BY <1>1, <1>3 DEF Merge
<1>6. ASSUME NEW m \in Msg
      PROVE  q.all[m] \subseteq 1 .. (q.next - 1) /\ q.act[m] \subseteq 1 .. (q.next - 1)
  <2> DEFINE new == IF m \in q.blocks[ps.next].effective THEN {ps.next} ELSE {}
  <2>1. Adds(ps, q, S)
    BY MergeAdds
  <2> HIDE DEF q
  <2>2. q.all[m] = ps.all[m] \cup new /\ q.act[m] = (ps.act[m] \ S) \cup new
    BY <2>1 DEF Adds
  <2> QED
    BY <1>1, <1>3, <2>2
<1>7. /\ q.all = [m \in Msg |-> q.all[m]] /\ q.act = [m \in Msg |-> q.act[m]]
      /\ q.verified = FALSE /\ q.synced = FALSE
      /\ q = [blocks |-> q.blocks, activeIds |-> q.activeIds, all |-> q.all,
              act |-> q.act, next |-> q.next, verified |-> q.verified, synced |-> q.synced]
  BY DEF Merge
<1> HIDE DEF q
<1>8. q \in PruneState(q.next)
  BY <1>4, <1>5, <1>6, <1>7 DEF PruneState
<1> QED
  BY <1>2, <1>8 DEF Typed, q

LEMMA MergeSound ==
  ASSUME NEW ps, Sound(ps), NEW S, S \subseteq ps.activeIds, S # {}, NEW at \in Times
  PROVE  Sound(Merge(ps, S, at))
BY MergeTyped, MergeAdds, AddsSound

LEMMA MergeFixedPoint ==
  ASSUME NEW ps, Sound(ps), NEW S, S \subseteq ps.activeIds, S # {}, NEW at \in Times,
         FixedPoint(ps), \A c \in Ids(ps) : ps.blocks[c].createdAt <= at
  PROVE  FixedPoint(Merge(ps, S, at))
<1>1. Merge(ps, S, at).blocks[ps.next].createdAt = at
  BY DEF Merge, MergedBlock, Fresh
<1> QED
  BY <1>1, MergeTyped, MergeAdds, AddsFixedPoint

-----------------------------------------------------------------------------
(* syncCompressionBlocks.                                                  *)

LEMMA SetActive ==
  ASSUME NEW block \in Block, NEW v \in BOOLEAN
  PROVE  LET new == [block EXCEPT !.active = v]
         IN /\ new \in Block /\ new.active = v
            /\ new.byUser = block.byUser /\ new.byUserDeep = block.byUserDeep
            /\ new.consumed = block.consumed /\ new.parents = block.parents
            /\ new.effective = block.effective /\ new.createdAt = block.createdAt
BY DEF Block

\* What the replay needs of a state: it may follow a decompress, which leaves
\* activeIds and act to it.
Syncable(ps) ==
  /\ Typed(ps) /\ Lineage(ps)
  /\ \A m \in Msg : ps.all[m] = {b \in Ids(ps) : m \in ps.blocks[b].effective}
  /\ ps.synced => Sound(ps)
  /\ ps.verified => \A m \in Msg : ps.act[m] = ps.all[m] \cap ps.activeIds

LEMMA SoundSyncable ==
  ASSUME NEW ps, Sound(ps)
  PROVE  Syncable(ps)
BY DEF Sound, Syncable, Indexed

\* The blocks after a full replay.
LEMMA FullSyncBlocks ==
  ASSUME NEW ps, Typed(ps)
  PROVE  LET q == FullSync(ps)
         IN /\ Ids(q) = Ids(ps) /\ q.next = ps.next /\ q.all = ps.all
            /\ q.activeIds = Live(ps) /\ q.verified /\ q.synced
            /\ \A b \in Ids(ps) :
                 /\ q.blocks[b] \in Block
                 /\ q.blocks[b].active <=> b \in Live(ps)
                 /\ q.blocks[b].byUser = ps.blocks[b].byUser
                 /\ q.blocks[b].byUserDeep = ps.blocks[b].byUserDeep
                 /\ q.blocks[b].consumed = ps.blocks[b].consumed
                 /\ q.blocks[b].parents = ps.blocks[b].parents
                 /\ q.blocks[b].effective = ps.blocks[b].effective
                 /\ q.blocks[b].createdAt = ps.blocks[b].createdAt
<1> DEFINE q == FullSync(ps)
<1>1. /\ DOMAIN ps = {"blocks", "activeIds", "all", "act", "next", "verified", "synced"}
      /\ q.blocks = [b \in Ids(ps) |-> [ps.blocks[b] EXCEPT !.active = b \in Live(ps)]]
      /\ q.next = ps.next /\ q.all = ps.all
      /\ q.activeIds = Live(ps) /\ q.verified = TRUE /\ q.synced = TRUE
  BY DEF FullSync, Replayed, Typed, PruneState
<1>2. ASSUME NEW b \in Ids(ps)
      PROVE  /\ q.blocks[b] \in Block
             /\ q.blocks[b].active <=> b \in Live(ps)
             /\ q.blocks[b].byUser = ps.blocks[b].byUser
             /\ q.blocks[b].byUserDeep = ps.blocks[b].byUserDeep
             /\ q.blocks[b].consumed = ps.blocks[b].consumed
             /\ q.blocks[b].parents = ps.blocks[b].parents
             /\ q.blocks[b].effective = ps.blocks[b].effective
             /\ q.blocks[b].createdAt = ps.blocks[b].createdAt
  <2>1. ps.blocks[b] \in Block /\ (b \in Live(ps)) \in BOOLEAN
    BY BlockFields
  <2>2. q.blocks[b] = [ps.blocks[b] EXCEPT !.active = b \in Live(ps)]
    BY <1>1
  <2> DEFINE v == b \in Live(ps)
  <2> HIDE DEF q, v
  <2>3. q.blocks[b] = [ps.blocks[b] EXCEPT !.active = v]
    BY <2>2 DEF v
  <2>4. v \in BOOLEAN
    BY <2>1 DEF v
  <2>5. q.blocks[b].active = v
    BY <2>1, <2>3, <2>4, SetActive
  <2>6. /\ q.blocks[b] \in Block
        /\ q.blocks[b].byUser = ps.blocks[b].byUser
        /\ q.blocks[b].byUserDeep = ps.blocks[b].byUserDeep
        /\ q.blocks[b].consumed = ps.blocks[b].consumed
        /\ q.blocks[b].parents = ps.blocks[b].parents
        /\ q.blocks[b].effective = ps.blocks[b].effective
        /\ q.blocks[b].createdAt = ps.blocks[b].createdAt
    BY <2>1, <2>3, <2>4, SetActive
  <2> QED
    BY <2>5, <2>6, Zenon DEF v
<1>3. Ids(q) = Ids(ps)
  BY <1>1 DEF Ids
<1> HIDE DEF q
<1>4. /\ Ids(q) = Ids(ps) /\ q.next = ps.next /\ q.all = ps.all
      /\ q.activeIds = Live(ps) /\ q.verified /\ q.synced
  BY <1>1, <1>3
<1> QED
  BY <1>2, <1>4 DEF q

LEMMA FullSyncTyped ==
  ASSUME NEW ps, Typed(ps)
  PROVE  Typed(FullSync(ps))
<1> DEFINE q == FullSync(ps)
<1>1. Live(ps) \subseteq Ids(ps)
  BY DEF Live
<1>2. q.blocks \in [Ids(ps) -> Block]
  <2>1. q.blocks = [b \in Ids(ps) |-> [ps.blocks[b] EXCEPT !.active = b \in Live(ps)]]
    BY DEF FullSync, Replayed, Typed, PruneState
  <2>2. \A b \in Ids(ps) : q.blocks[b] \in Block
    BY FullSyncBlocks
  <2> QED
    BY <2>1, <2>2
<1>3. q.act \in [Msg -> SUBSET Ids(ps)]
  <2>1. q.act = [m \in Msg |-> ps.all[m] \cap Live(ps)] \/ q.act = ps.act
    BY DEF FullSync, Replayed, Typed, PruneState
  <2> HIDE DEF q
  <2> QED
    BY <1>1, <2>1, TypedFields
<1>4. /\ q.all \in [Msg -> SUBSET Ids(ps)] /\ q.next = ps.next
      /\ q.activeIds \in SUBSET Ids(ps) /\ q.verified = TRUE /\ q.synced = TRUE
      /\ Ids(ps) = 1 .. (q.next - 1) /\ q.next \in Nat \ {0}
  BY <1>1, TypedFields DEF FullSync, Replayed, Typed, PruneState
<1>5. \E B, A, C : q = [ps EXCEPT !.blocks = B, !.activeIds = A, !.act = C,
                                  !.verified = TRUE, !.synced = TRUE]
  BY Zenon DEF FullSync, Replayed
<1> HIDE DEF q
<1>6. q = [blocks |-> q.blocks, activeIds |-> q.activeIds, all |-> q.all,
           act |-> q.act, next |-> q.next, verified |-> q.verified, synced |-> q.synced]
  BY <1>5 DEF Typed, PruneState
<1> QED
  BY <1>2, <1>3, <1>4, <1>6 DEF Typed, PruneState, q

LEMMA FullSyncSound ==
  ASSUME NEW ps, Syncable(ps)
  PROVE  Sound(FullSync(ps)) /\ FixedPoint(FullSync(ps))
<1> DEFINE q == FullSync(ps)
<1>1. Typed(ps) /\ Typed(q)
  BY FullSyncTyped DEF Syncable
<1>2. /\ Ids(q) = Ids(ps) /\ q.all = ps.all /\ q.activeIds = Live(ps)
      /\ \A b \in Ids(ps) :
           /\ q.blocks[b].active <=> b \in Live(ps)
           /\ Off(q, b) <=> Off(ps, b)
           /\ q.blocks[b].consumed = ps.blocks[b].consumed
           /\ q.blocks[b].parents = ps.blocks[b].parents
           /\ q.blocks[b].effective = ps.blocks[b].effective
           /\ q.blocks[b].createdAt = ps.blocks[b].createdAt
  BY <1>1, FullSyncBlocks DEF Off
<1>3. Live(ps) \subseteq Ids(ps)
  BY DEF Live
<1>4. Indexed(q)
  <2>1. q.activeIds = {b \in Ids(q) : q.blocks[b].active}
    <3> HIDE DEF q
    <3> QED
      BY <1>2, <1>3
  <2>2. ASSUME NEW m \in Msg
        PROVE  q.act[m] = q.all[m] \cap q.activeIds
    <3>1. CASE ~ps.verified \/ ps.activeIds # Live(ps)
      BY <1>1, <1>2, <3>1 DEF FullSync, Replayed, Typed, PruneState
    <3>2. CASE ps.verified /\ ps.activeIds = Live(ps)
      <4>1. q.act = ps.act
        BY <1>1, <3>2 DEF FullSync, Replayed, Typed, PruneState
      <4> HIDE DEF q
      <4> QED
        BY <1>2, <3>2, <4>1 DEF Syncable
    <3> QED
      BY <3>1, <3>2
  <2>3. \A m \in Msg : q.all[m] = {b \in Ids(q) : m \in q.blocks[b].effective}
    <3> HIDE DEF q
    <3> QED
      BY <1>2 DEF Syncable
  <2> HIDE DEF q
  <2> QED
    BY <2>1, <2>2, <2>3 DEF Indexed
<1> HIDE DEF q
<1>5. Lineage(q)
  BY <1>2 DEF Syncable, Lineage
<1>6. Retained(q)
  <2> SUFFICES ASSUME NEW b \in Ids(ps)
               PROVE  /\ b \in Live(ps) => ~Off(ps, b)
                      /\ \/ b \in Live(ps) \/ Off(ps, b)
                         \/ \E c \in Ids(ps) :
                              ~Off(ps, c) /\ b \in ps.blocks[c].consumed
    BY <1>2 DEF Retained
  <2> QED
    BY DEF Live
<1>7. \A b, c \in Ids(ps) : Earlier(q, b, c) <=> Earlier(ps, b, c)
  BY <1>2 DEF Earlier
<1>8. FixedPoint(q)
  <2>1. \A b \in Ids(ps) : b \in Live(q) <=> b \in Live(ps)
    BY <1>2, <1>7 DEF Live
  <2>2. Live(q) \subseteq Ids(ps)
    BY <1>2 DEF Live
  <2> QED
    BY <1>2, <1>3, <2>1, <2>2 DEF FixedPoint
<1> QED
  BY <1>1, <1>4, <1>5, <1>6, <1>8 DEF Sound, q

LEMMA EmptySyncSound ==
  ASSUME NEW ps, Syncable(ps), Ids(ps) = {}
  PROVE  Sound(EmptySync(ps)) /\ FixedPoint(EmptySync(ps))
<1> DEFINE q == EmptySync(ps)
<1>1. /\ ps.activeIds = {} /\ ps.next \in Nat \ {0} /\ Ids(ps) = 1 .. (ps.next - 1)
      /\ ps.all \in [Msg -> SUBSET {}] /\ ps.act \in [Msg -> SUBSET {}]
      /\ ps \in PruneState(ps.next)
  BY TypedFields DEF Syncable, Typed
<1>2. q = ps \/ q = [ps EXCEPT !.activeIds = {}, !.act = [m \in Msg |-> {}],
                              !.verified = TRUE]
  BY Zenon DEF EmptySync
<1> HIDE DEF q
<1>3. q \in PruneState(ps.next) /\ q.next = ps.next /\ q.blocks = ps.blocks
  BY ZenonT(40), <1>1, <1>2 DEF PruneState
<1>4. Typed(q) /\ Ids(q) = {}
  BY <1>1, <1>3 DEF Typed, Ids
<1>5. /\ q.activeIds = {} /\ q.all \in [Msg -> SUBSET {}]
      /\ q.act \in [Msg -> SUBSET {}]
  BY <1>4, TypedFields
<1>6. Indexed(q)
  BY <1>4, <1>5 DEF Indexed
<1>7. Lineage(q) /\ Retained(q)
  BY <1>4 DEF Lineage, Retained
<1>8. FixedPoint(q)
  BY <1>4, <1>5 DEF FixedPoint, Live
<1> QED
  BY <1>4, <1>6, <1>7, <1>8 DEF Sound, q

\* Whether the fast path is taken or not, the state after it is at the fixed
\* point of the replay, whatever the clock did.
LEMMA SyncSound ==
  ASSUME NEW ps, Syncable(ps)
  PROVE  Sound(Sync(ps)) /\ FixedPoint(Sync(ps))
<1>1. CASE Ids(ps) = {}
  BY <1>1, EmptySyncSound DEF Sync
<1>2. CASE Ids(ps) # {} /\ ps.synced
  BY <1>2 DEF Sync, Syncable, Sound
<1>3. CASE Ids(ps) # {} /\ ~ps.synced
  BY <1>3, FullSyncSound DEF Sync
<1> QED
  BY <1>1, <1>2, <1>3

\* The replay changes no block but its active flag.
LEMMA SyncKeeps ==
  ASSUME NEW ps, Typed(ps)
  PROVE  /\ Ids(Sync(ps)) = Ids(ps) /\ Sync(ps).next = ps.next
         /\ \A b \in Ids(ps) :
              /\ Off(Sync(ps), b) <=> Off(ps, b)
              /\ Sync(ps).blocks[b].effective = ps.blocks[b].effective
              /\ Sync(ps).blocks[b].consumed = ps.blocks[b].consumed
              /\ Sync(ps).blocks[b].createdAt = ps.blocks[b].createdAt
<1>1. CASE Ids(ps) = {}
  <2>1. Sync(ps).blocks = ps.blocks /\ Sync(ps).next = ps.next
    BY <1>1 DEF Sync, EmptySync, Typed, PruneState
  <2> QED
    BY <1>1, <2>1 DEF Ids
<1>2. CASE Ids(ps) # {} /\ ps.synced
  <2>1. Sync(ps) = ps
    BY <1>2 DEF Sync
  <2> QED
    BY <2>1
<1>3. CASE Ids(ps) # {} /\ ~ps.synced
  <2>1. Sync(ps) = FullSync(ps)
    BY <1>3 DEF Sync
  <2>2. /\ Ids(FullSync(ps)) = Ids(ps) /\ FullSync(ps).next = ps.next
        /\ \A b \in Ids(ps) :
             /\ FullSync(ps).blocks[b].byUser = ps.blocks[b].byUser
             /\ FullSync(ps).blocks[b].byUserDeep = ps.blocks[b].byUserDeep
             /\ FullSync(ps).blocks[b].effective = ps.blocks[b].effective
             /\ FullSync(ps).blocks[b].consumed = ps.blocks[b].consumed
             /\ FullSync(ps).blocks[b].createdAt = ps.blocks[b].createdAt
    BY FullSyncBlocks
  <2> QED
    BY <2>1, <2>2 DEF Off
<1> QED
  BY <1>1, <1>2, <1>3

-----------------------------------------------------------------------------
(* deactivateCompressionTarget.                                            *)

LEMMA DeactivateKeeps ==
  ASSUME NEW ps, Sound(ps), NEW targets, targets \subseteq Ids(ps),
         NEW full \in BOOLEAN
  PROVE  LET q == Deactivate(ps, targets, full)
         IN /\ q.blocks \in [Ids(ps) -> Block] /\ Ids(q) = Ids(ps)
            /\ \A b \in Ids(ps) :
                 /\ q.blocks[b].consumed = ps.blocks[b].consumed
                 /\ q.blocks[b].parents = ps.blocks[b].parents
                 /\ q.blocks[b].effective = ps.blocks[b].effective
<1> DEFINE q == Deactivate(ps, targets, full)
           deep == IF full THEN UNION {ConsumedBelow(ps, b) : b \in targets} ELSE {}
<1>1. /\ ps.blocks \in [Ids(ps) -> Block] /\ ps \in PruneState(ps.next)
  BY TypedFields DEF Sound, Typed
<1>2. q.blocks = [b \in Ids(ps) |->
                    [ps.blocks[b] EXCEPT !.active = @ /\ b \notin targets,
                                         !.byUser = @ \/ b \in targets,
                                         !.byUserDeep = @ \/ b \in deep]]
  BY <1>1 DEF Deactivate, PruneState
<1>3. ASSUME NEW b \in Ids(ps)
      PROVE  /\ q.blocks[b] \in Block
             /\ q.blocks[b].consumed = ps.blocks[b].consumed
             /\ q.blocks[b].parents = ps.blocks[b].parents
             /\ q.blocks[b].effective = ps.blocks[b].effective
  <2>1. ps.blocks[b] \in Block
    BY <1>1
  <2>2. \E u, v, w \in BOOLEAN :
          q.blocks[b] = [ps.blocks[b] EXCEPT !.active = u, !.byUser = v, !.byUserDeep = w]
    <3> DEFINE u == ps.blocks[b].active /\ b \notin targets
               v == ps.blocks[b].byUser \/ b \in targets
               w == ps.blocks[b].byUserDeep \/ b \in deep
    <3>1. u \in BOOLEAN /\ v \in BOOLEAN /\ w \in BOOLEAN
      OBVIOUS
    <3>2. q.blocks[b] = [ps.blocks[b] EXCEPT !.active = u, !.byUser = v, !.byUserDeep = w]
      BY <1>2
    <3> HIDE DEF q, u, v, w
    <3> QED
      BY <3>1, <3>2, Zenon
  <2> HIDE DEF q
  <2>3. PICK u \in BOOLEAN, v \in BOOLEAN, w \in BOOLEAN :
          q.blocks[b] = [ps.blocks[b] EXCEPT !.active = u, !.byUser = v, !.byUserDeep = w]
    BY <2>2, Zenon
  <2> QED
    BY <2>1, <2>3 DEF Block
<1>4. q.blocks \in [Ids(ps) -> Block] /\ Ids(q) = Ids(ps)
  <2>1. q.blocks = [b \in Ids(ps) |-> q.blocks[b]]
    BY <1>2
  <2> HIDE DEF q
  <2> QED
    BY <1>3, <2>1 DEF Ids
<1> HIDE DEF q
<1> QED
  BY <1>3, <1>4 DEF q

LEMMA DeactivateSyncable ==
  ASSUME NEW ps, Sound(ps), NEW targets, targets \subseteq Ids(ps), targets # {},
         NEW full \in BOOLEAN
  PROVE  Syncable(Deactivate(ps, targets, full))
<1> DEFINE q == Deactivate(ps, targets, full)
<1>1. /\ Ids(ps) = 1 .. (ps.next - 1) /\ ps.next \in Nat \ {0}
      /\ ps.blocks \in [Ids(ps) -> Block] /\ ps \in PruneState(ps.next)
  BY TypedFields DEF Sound, Typed
<1>2. \E B : q = [ps EXCEPT !.blocks = B, !.verified = FALSE, !.synced = FALSE]
  <2>1. (ps.synced /\ targets = {}) = FALSE
    OBVIOUS
  <2>2. q = [ps EXCEPT !.blocks = q.blocks, !.verified = FALSE,
                       !.synced = ps.synced /\ targets = {}]
    BY <1>1 DEF Deactivate, PruneState
  <2> HIDE DEF q
  <2> QED
    BY <2>1, <2>2
<1>3. /\ q.blocks \in [Ids(ps) -> Block] /\ Ids(q) = Ids(ps)
      /\ \A b \in Ids(ps) :
           /\ q.blocks[b].consumed = ps.blocks[b].consumed
           /\ q.blocks[b].parents = ps.blocks[b].parents
           /\ q.blocks[b].effective = ps.blocks[b].effective
  BY ZenonT(40), DeactivateKeeps
<1> HIDE DEF q
<1>4. /\ q.next = ps.next /\ q.all = ps.all /\ ~q.verified /\ ~q.synced
      /\ q \in PruneState(ps.next)
  BY <1>1, <1>2, <1>3 DEF PruneState
<1>5. Typed(q)
  BY <1>1, <1>4 DEF Typed
<1>6. Lineage(q)
  BY <1>3 DEF Sound, Lineage
<1>7. \A m \in Msg : q.all[m] = {b \in Ids(q) : m \in q.blocks[b].effective}
  BY <1>3, <1>4 DEF Sound, Indexed
<1> QED
  BY <1>4, <1>5, <1>6, <1>7 DEF Syncable, q

-----------------------------------------------------------------------------
(* The session file.                                                       *)

\* Two states that differ in their version marks only.
LEMMA SameButMarks ==
  ASSUME NEW ps, Sound(ps), NEW q, Typed(q), ~q.synced,
         q.blocks = ps.blocks, q.activeIds = ps.activeIds,
         q.all = ps.all, q.act = ps.act
  PROVE  Sound(q) /\ (FixedPoint(ps) => FixedPoint(q))
<1>1. Ids(q) = Ids(ps) /\ \A b : Off(q, b) <=> Off(ps, b)
  BY DEF Ids, Off
<1>2. Indexed(q)
  BY <1>1, Zenon DEF Sound, Indexed
<1>3. Lineage(q)
  BY <1>1, Zenon DEF Sound, Lineage
<1>4. Retained(q)
  BY <1>1, Zenon DEF Sound, Retained
<1>5. Live(q) = Live(ps)
  BY <1>1 DEF Live, Earlier
<1> QED
  BY <1>2, <1>3, <1>4, <1>5 DEF Sound, FixedPoint

LEMMA SavedSound ==
  ASSUME NEW ps, Sound(ps)
  PROVE  Sound(Saved(ps)) /\ (FixedPoint(ps) => FixedPoint(Saved(ps)))
<1>1. ps \in PruneState(ps.next) /\ ps.next \in Nat \ {0}
  BY DEF Sound, Typed
<1>2. /\ Saved(ps) \in PruneState(ps.next) /\ ~Saved(ps).synced
      /\ Saved(ps).next = ps.next
      /\ Saved(ps).blocks = ps.blocks /\ Saved(ps).activeIds = ps.activeIds
      /\ Saved(ps).all = ps.all /\ Saved(ps).act = ps.act
  BY <1>1 DEF Saved, PruneState
<1>3. Typed(Saved(ps))
  BY <1>1, <1>2 DEF Typed
<1> QED
  BY <1>2, <1>3, SameButMarks

LEMMA LoadSound ==
  ASSUME NEW ps, Sound(ps)
  PROVE  Sound(Load(ps)) /\ (FixedPoint(ps) => FixedPoint(Load(ps)))
<1>1. ps \in PruneState(ps.next) /\ ps.next \in Nat \ {0}
  BY DEF Sound, Typed
<1>2. {b \in Ids(ps) : ps.blocks[b].active} = ps.activeIds
  BY DEF Sound, Indexed
<1>3. Load(ps) = [ps EXCEPT !.activeIds = ps.activeIds, !.verified = FALSE, !.synced = FALSE]
  BY <1>2, Zenon DEF Load
<1>4. /\ Load(ps) \in PruneState(ps.next) /\ ~Load(ps).synced
      /\ Load(ps).next = ps.next
      /\ Load(ps).blocks = ps.blocks /\ Load(ps).activeIds = ps.activeIds
      /\ Load(ps).all = ps.all /\ Load(ps).act = ps.act
  BY <1>1, <1>3 DEF PruneState
<1>5. Typed(Load(ps))
  BY <1>1, <1>4 DEF Typed
<1> QED
  BY <1>4, <1>5, SameButMarks

LEMMA EmptySound ==
  Sound(EmptyPrune) /\ FixedPoint(EmptyPrune)
<1> DEFINE q == EmptyPrune
<1>1. /\ q.blocks \in [1 .. 0 -> Block] /\ q.activeIds = {} /\ q.next = 1
      /\ q.all = [m \in Msg |-> {}] /\ q.act = [m \in Msg |-> {}]
      /\ ~q.verified /\ ~q.synced /\ Ids(q) = {}
  BY DEF EmptyPrune, Ids
<1>2. Typed(q)
  BY DEF EmptyPrune, Typed, PruneState
<1> HIDE DEF q
<1> QED
  BY <1>1, <1>2 DEF Sound, Indexed, Lineage, Retained, FixedPoint, Live, q

-----------------------------------------------------------------------------
(* The actions of a session keep IInv.                                     *)

\* A plan over a range is well formed, consumes active blocks, all anchored in
\* the range, and is not older than the blocks when the clock does not step back.
LEMMA PlanFacts ==
  ASSUME IInv, NEW lo \in history, NEW hi \in history, NEW plan \in PlansOver(lo, hi)
  PROVE  /\ plan \in Plan /\ plan.consumed \subseteq prune.activeIds
         /\ \A b \in plan.consumed :
              /\ lo <= prune.blocks[b].anchor /\ prune.blocks[b].anchor <= hi
              /\ prune.blocks[b].anchor \in Nat
         /\ Now(plan.at) /\ plan.at \in Times
<1>1. Sound(prune) /\ history \subseteq Msg
  BY DEF IInv, TypeOK
<1>2. /\ Ids(prune) \subseteq Nat
      /\ prune.activeIds = {b \in Ids(prune) : prune.blocks[b].active}
      /\ \A b \in Ids(prune) : prune.blocks[b].anchor \in Msg
  BY <1>1, TypedFields, BlockFields DEF Sound, Indexed
<1>3. Between(lo, hi) \subseteq Msg /\ Selected(lo, hi) \subseteq Msg
  BY <1>1 DEF Between, Selected
<1>4. AnchoredIn(Between(lo, hi)) \subseteq prune.activeIds
  BY <1>2 DEF AnchoredIn
<1>5. PICK byBlock \in BoundaryKinds(lo, hi), long \in LongSummaries,
           at \in {t \in Times : Now(t)} :
        plan = [anchor |-> lo,
                msgs |-> Selected(lo, hi),
                consumed |-> AnchoredIn(Between(lo, hi)),
                byBlock |-> byBlock, long |-> long, at |-> at]
  BY DEF PlansOver
<1>6. byBlock \in BOOLEAN /\ long \in BOOLEAN /\ at \in Times /\ Now(at) /\ lo \in Msg
  BY <1>1, SessionAssumption DEF BoundaryKinds
<1>7. /\ plan.consumed = AnchoredIn(Between(lo, hi)) /\ plan.at = at
      /\ plan \in Plan
  <2>1. AnchoredIn(Between(lo, hi)) \subseteq Nat
    BY <1>2, <1>4
  <2> QED
    BY <1>3, <1>5, <1>6, <2>1 DEF Plan
<1>8. ASSUME NEW b \in plan.consumed
      PROVE  /\ lo <= prune.blocks[b].anchor /\ prune.blocks[b].anchor <= hi
             /\ prune.blocks[b].anchor \in Nat
  <2>1. b \in Ids(prune) /\ prune.blocks[b].anchor \in Between(lo, hi)
    BY <1>7 DEF AnchoredIn
  <2> QED
    BY <1>2, <2>1 DEF Between, Msg
<1> QED
  BY <1>4, <1>6, <1>7, <1>8

LEMMA ApplyKeeps ==
  ASSUME NEW ps, Sound(ps), ~ClockMayStepBack => FixedPoint(ps),
         NEW plan \in Plan, plan.consumed \subseteq ps.activeIds,
         ~ClockMayStepBack => \A b \in Ids(ps) : ps.blocks[b].createdAt <= plan.at
  PROVE  /\ Sound(Apply(ps, plan))
         /\ ~ClockMayStepBack => FixedPoint(Apply(ps, plan))
BY ApplySound, ApplyFixedPoint

\* A step to a sound state, saved or not, keeps the inductive invariant.
LEMMA StepKeeps ==
  ASSUME IInv, NEW ps, Sound(ps), ~ClockMayStepBack => FixedPoint(ps),
         prune' = ps, disk' \in {Saved(ps), disk}, UNCHANGED <<history, arrived>>
  PROVE  IInv'
<1>1. Sound(prune') /\ (~ClockMayStepBack => FixedPoint(prune'))
  OBVIOUS
<1>2. Sound(disk') /\ (~ClockMayStepBack => FixedPoint(disk'))
  BY SavedSound DEF IInv
<1>3. Typed(prune') /\ Typed(disk')
  BY <1>1, <1>2 DEF Sound
<1> QED
  BY <1>1, <1>2, <1>3 DEF IInv, TypeOK

LEMMA CommitKeeps ==
  ASSUME IInv, NEW ps, Sound(ps), ~ClockMayStepBack => FixedPoint(ps), Commit(ps)
  PROVE  IInv'
<1>1. prune' = ps /\ disk' \in {Saved(ps), disk} /\ UNCHANGED <<history, arrived>>
  BY DEF Commit, MaySave
<1> QED
  BY <1>1, StepKeeps

LEMMA CompressRangeKeeps ==
  ASSUME IInv, CompressRange
  PROVE  IInv'
<1> PICK lo \in history, hi \in history :
        \E plan \in PlansOver(lo, hi) : Commit(Apply(prune, plan))
  BY DEF CompressRange
<1>1. PICK plan \in PlansOver(lo, hi) : Commit(Apply(prune, plan))
  OBVIOUS
<1>2. /\ plan \in Plan /\ plan.consumed \subseteq prune.activeIds
      /\ ~ClockMayStepBack => \A b \in Ids(prune) : prune.blocks[b].createdAt <= plan.at
  BY PlanFacts DEF Now
<1>3. Sound(Apply(prune, plan)) /\ (~ClockMayStepBack => FixedPoint(Apply(prune, plan)))
  BY <1>2, ApplyKeeps DEF IInv
<1> QED
  BY <1>1, <1>3, CommitKeeps

\* Two disjoint ranges consume disjoint blocks, so the blocks the second plan
\* consumes are still active once the first has been applied.
LEMMA SecondStillActive ==
  ASSUME IInv, NEW lo1 \in history, NEW hi1 \in history,
         NEW lo2 \in history, NEW hi2 \in history,
         NEW first \in PlansOver(lo1, hi1), NEW second \in PlansOver(lo2, hi2),
         hi1 < lo2 \/ hi2 < lo1
  PROVE  second.consumed \subseteq Apply(prune, first).activeIds
<1> DEFINE ps == Apply(prune, first)
<1>1. /\ first \in Plan /\ first.consumed \subseteq prune.activeIds
      /\ second.consumed \subseteq prune.activeIds
  BY PlanFacts
<1>2. lo1 \in Nat /\ hi1 \in Nat /\ lo2 \in Nat /\ hi2 \in Nat
  BY DEF IInv, TypeOK, Msg
<1>3. first.consumed \cap second.consumed = {}
  <2>1. \A b \in first.consumed :
          /\ lo1 <= prune.blocks[b].anchor /\ prune.blocks[b].anchor <= hi1
          /\ prune.blocks[b].anchor \in Nat
    BY PlanFacts
  <2>2. \A b \in second.consumed :
          lo2 <= prune.blocks[b].anchor /\ prune.blocks[b].anchor <= hi2
    BY PlanFacts
  <2> QED
    BY <1>2, <2>1, <2>2
<1>4. Adds(prune, ps, Absorbed(prune, first))
  BY <1>1, ApplyAdds DEF IInv
<1>5. Absorbed(prune, first) \subseteq first.consumed
  BY DEF Absorbed
<1> HIDE DEF ps
<1>6. ps.activeIds = (prune.activeIds \ Absorbed(prune, first)) \cup {prune.next}
  BY <1>4 DEF Adds
<1> QED
  BY <1>1, <1>3, <1>5, <1>6 DEF ps

LEMMA CompressBatchKeeps ==
  ASSUME IInv, CompressBatch
  PROVE  IInv'
<1>1. PICK lo1 \in history, hi1 \in history, lo2 \in history, hi2 \in history :
        /\ lo1 <= hi1 /\ lo2 <= hi2 /\ (hi1 < lo2 \/ hi2 < lo1)
        /\ \E first \in PlansOver(lo1, hi1), second \in PlansOver(lo2, hi2) :
             /\ first.at <= second.at \/ ClockMayStepBack
             /\ Commit(Apply(Apply(prune, first), second))
  BY DEF CompressBatch
<1>2. PICK first \in PlansOver(lo1, hi1), second \in PlansOver(lo2, hi2) :
        /\ first.at <= second.at \/ ClockMayStepBack
        /\ Commit(Apply(Apply(prune, first), second))
  BY <1>1
<1> DEFINE ps == Apply(prune, first)
<1>3. /\ first \in Plan /\ first.consumed \subseteq prune.activeIds
      /\ second \in Plan /\ second.consumed \subseteq prune.activeIds
      /\ first.at \in Nat /\ second.at \in Nat
      /\ ~ClockMayStepBack => \A b \in Ids(prune) : prune.blocks[b].createdAt <= first.at
  BY PlanFacts, TimesAssumption DEF Now
<1>4. Sound(prune) /\ Sound(ps) /\ (~ClockMayStepBack => FixedPoint(ps))
  BY <1>3, ApplyKeeps DEF IInv
<1>5. second.consumed \subseteq ps.activeIds
  BY <1>1, SecondStillActive
<1>6. ASSUME ~ClockMayStepBack, NEW b \in Ids(ps)
      PROVE  ps.blocks[b].createdAt <= second.at
  <2>1. first.at <= second.at
    BY <1>2, <1>6
  <2>2. Adds(prune, ps, Absorbed(prune, first)) /\ ps.blocks[prune.next] = NewBlock(prune, first)
    BY <1>3, <1>4, ApplyAdds, ApplyBlocks
  <2> HIDE DEF ps
  <2>3. CASE b \in Ids(prune)
    <3>1. ps.blocks[b].createdAt = prune.blocks[b].createdAt
      BY <2>2, <2>3 DEF Adds
    <3>2. prune.blocks[b].createdAt \in Nat /\ prune.blocks[b].createdAt <= first.at
      BY <1>3, <1>4, <1>6, <2>3, BlockFields DEF Sound
    <3> QED
      BY <1>3, <2>1, <3>1, <3>2
  <2>4. CASE b = prune.next
    BY <1>3, <2>1, <2>2, <2>4 DEF NewBlock, NewBlockOver, Fresh
  <2> QED
    BY <2>2, <2>3, <2>4 DEF Adds
<1> HIDE DEF ps
<1>7. Sound(Apply(ps, second)) /\ (~ClockMayStepBack => FixedPoint(Apply(ps, second)))
  BY <1>3, <1>4, <1>5, <1>6, ApplyKeeps
<1> QED
  BY <1>2, <1>7, CommitKeeps DEF ps

LEMMA DecompressTargetsKeeps ==
  ASSUME IInv, NEW targets, targets \subseteq Ids(prune), targets # {},
         NEW full \in BOOLEAN, DecompressTargets(targets, full)
  PROVE  IInv'
<1> DEFINE ps == Sync(Deactivate(prune, targets, full))
<1>1. Sound(ps) /\ FixedPoint(ps)
  BY DeactivateSyncable, SyncSound DEF IInv
<1>2. prune' = ps /\ disk' \in {Saved(ps), disk} /\ UNCHANGED <<history, arrived>>
  BY DEF DecompressTargets, MaySave
<1> QED
  BY <1>1, <1>2, StepKeeps

LEMMA DecompressKeeps ==
  ASSUME IInv, Decompress
  PROVE  IInv'
<1>1. PICK full \in BOOLEAN :
        \/ \E b \in Ids(prune) : DecompressBlock(b, full)
        \/ \E lo, hi \in history : DecompressRange(lo, hi, full)
  BY DEF Decompress
<1>2. ASSUME NEW b \in Ids(prune), DecompressBlock(b, full)
      PROVE  IInv'
  BY <1>2, DecompressTargetsKeeps DEF DecompressBlock
<1>3. ASSUME NEW lo \in history, NEW hi \in history, DecompressRange(lo, hi, full)
      PROVE  IInv'
  <2> DEFINE targets == {b \in Ids(prune) :
                           /\ prune.blocks[b].active
                           /\ prune.blocks[b].effective \cap Between(lo, hi) # {}}
  <2>1. targets # {} /\ DecompressTargets(targets, full) /\ targets \subseteq Ids(prune)
    BY <1>3 DEF DecompressRange
  <2> HIDE DEF targets
  <2> QED
    BY <2>1, DecompressTargetsKeeps
<1> QED
  BY <1>1, <1>2, <1>3

LEMMA TransformKeeps ==
  ASSUME IInv, Transform
  PROVE  IInv'
<1> DEFINE synced == Sync(prune)
           S == Mergeable(synced)
<1>1. PICK at \in Times :
        /\ Now(at)
        /\ \E ps \in {synced, Merge(synced, S, at)} :
             /\ ps # synced => Cardinality(S) >= 2
             /\ prune' = ps /\ MaySave(ps) /\ UNCHANGED <<history, arrived>>
  BY DEF Transform
<1>2. Sound(synced) /\ FixedPoint(synced)
  BY SoundSyncable, SyncSound DEF IInv
<1>3. S \subseteq synced.activeIds
  BY MergeableActive
<1>4. ASSUME ~ClockMayStepBack, NEW b \in Ids(synced)
      PROVE  synced.blocks[b].createdAt <= at
  BY <1>1, <1>4, SyncKeeps DEF IInv, Sound, Now
<1>5. ASSUME Cardinality(S) >= 2
      PROVE  /\ Sound(Merge(synced, S, at))
             /\ ~ClockMayStepBack => FixedPoint(Merge(synced, S, at))
  <2>1. S # {}
    <3>1. Cardinality({}) = 0
      BY FS_EmptySet
    <3> QED
      BY <1>5, <3>1
  <2> HIDE DEF synced, S
  <2> QED
    BY <1>2, <1>3, <1>4, <2>1, MergeSound, MergeFixedPoint
<1> HIDE DEF synced, S
<1>6. PICK ps \in {synced, Merge(synced, S, at)} :
        /\ ps # synced => Cardinality(S) >= 2
        /\ prune' = ps /\ MaySave(ps) /\ UNCHANGED <<history, arrived>>
  BY <1>1
<1>7. Sound(ps) /\ (~ClockMayStepBack => FixedPoint(ps))
  BY <1>2, <1>5, <1>6
<1> QED
  BY <1>6, <1>7, StepKeeps DEF MaySave

LEMMA RestartKeeps ==
  ASSUME IInv, Restart
  PROVE  IInv'
<1>1. Sound(Load(disk)) /\ (~ClockMayStepBack => FixedPoint(Load(disk)))
  BY LoadSound DEF IInv
<1>2. /\ prune' = Load(disk) /\ disk' \in {Saved(Load(disk)), disk}
      /\ UNCHANGED <<history, arrived>>
  BY DEF Restart, MaySave
<1> QED
  BY <1>1, <1>2, StepKeeps

LEMMA HostKeeps ==
  ASSUME IInv, AddMessage \/ RemoveMessage
  PROVE  IInv'
<1>1. history' \subseteq Msg /\ arrived' \in 0 .. NumMsgs
  <2>1. CASE AddMessage
    <3>1. arrived + 1 \in 1 .. NumMsgs
      BY <2>1, NumMsgsAssumption DEF IInv, TypeOK, AddMessage
    <3> QED
      BY <2>1, <3>1 DEF IInv, TypeOK, AddMessage, Msg
  <2>2. CASE RemoveMessage
    BY <2>2 DEF IInv, TypeOK, RemoveMessage
  <2> QED
    BY <2>1, <2>2
<1>2. prune' = prune /\ disk' = disk
  BY DEF AddMessage, RemoveMessage
<1> QED
  BY <1>1, <1>2 DEF IInv, TypeOK

-----------------------------------------------------------------------------
LEMMA InitKeeps == Init => IInv
<1> SUFFICES ASSUME Init PROVE IInv
  OBVIOUS
<1>1. Sound(prune) /\ Sound(disk) /\ FixedPoint(prune) /\ FixedPoint(disk)
  BY EmptySound DEF Init
<1>2. history \subseteq Msg /\ arrived \in 0 .. NumMsgs
  BY NumMsgsAssumption DEF Init
<1> QED
  BY <1>1, <1>2 DEF IInv, TypeOK, Sound

LEMMA NextKeeps == IInv /\ [Next]_vars => IInv'
<1> SUFFICES ASSUME IInv, [Next]_vars PROVE IInv'
  OBVIOUS
<1>1. CASE CompressRange
  BY <1>1, CompressRangeKeeps
<1>2. CASE CompressBatch
  BY <1>2, CompressBatchKeeps
<1>3. CASE Decompress
  BY <1>3, DecompressKeeps
<1>4. CASE Transform
  BY <1>4, TransformKeeps
<1>5. CASE Restart
  BY <1>5, RestartKeeps
<1>6. CASE AddMessage \/ RemoveMessage
  BY <1>6, HostKeeps
<1>7. CASE UNCHANGED vars
  BY <1>7 DEF vars, IInv, TypeOK
<1> QED
  BY <1>1, <1>2, <1>3, <1>4, <1>5, <1>6, <1>7 DEF Next

\* In every reachable state the live state and the file are sound: well typed,
\* indexed, with every consumed block under one that keeps its messages.
THEOREM Inductive == Spec => []IInv
BY InitKeeps, NextKeeps, PTL DEF Spec

\* The variables keep their types.
THEOREM TypeCorrect == Spec => []TypeOK
<1>1. IInv => TypeOK
  BY DEF IInv
<1> QED
  BY <1>1, Inductive, PTL

\* The indexes of the live state and of the file agree with the blocks.
THEOREM IndexesAlwaysAgree == Spec => []IndexesAgree
<1>1. IInv => IndexesAgree
  BY DEF IInv, Sound, IndexesAgree
<1> QED
  BY <1>1, Inductive, PTL

\* The replay the fast path skips would have changed nothing.
THEOREM FastPathIsExact == Spec => []FastPathExact
<1>1. IInv => FastPathExact
  BY DEF IInv, Sound, FastPathExact
<1> QED
  BY <1>1, Inductive, PTL

\* With a clock that does not step back, no block dies or comes back at a replay.
THEOREM AlwaysAtFixpoint ==
  ASSUME ~ClockMayStepBack
  PROVE  Spec => []AtFixpoint
<1>1. IInv => AtFixpoint
  BY DEF IInv, AtFixpoint
<1> QED
  BY <1>1, Inductive, PTL

\* What the active blocks stand for is what the blocks the user has not
\* decompressed stand for: climb from a consumed block to the one that consumed
\* it, a greater id that keeps its messages.
LEMMA CoveredIsOpen ==
  ASSUME NEW ps, Sound(ps)
  PROVE  Covered(ps) = EffectiveOf(ps, Ids(ps) \ OffIds(ps))
<1>1. Ids(ps) = 1 .. (ps.next - 1) /\ ps.next - 1 \in Nat
  BY TypedFields DEF Sound
<1>2. ASSUME NEW b \in Ids(ps) \ OffIds(ps), NEW m \in ps.blocks[b].effective
      PROVE  m \in Covered(ps)
  <2> DEFINE S == {c \in Ids(ps) : ~Off(ps, c) /\ m \in ps.blocks[c].effective}
  <2>1. b \in S /\ S \subseteq 1 .. (ps.next - 1)
    BY <1>1 DEF OffIds
  <2>2. PICK top \in S : \A c \in S : c <= top
    BY <1>1, <2>1, GreatestId
  <2>3. ps.blocks[top].active
    <3> SUFFICES ASSUME ~ps.blocks[top].active
                 PROVE  FALSE
      OBVIOUS
    <3>1. PICK c \in Ids(ps) : ~Off(ps, c) /\ top \in ps.blocks[c].consumed
      BY DEF Sound, Retained
    <3>2. top < c /\ c \in S
      BY <3>1 DEF Sound, Lineage
    <3> QED
      BY <1>1, <2>2, <3>2
  <2> QED
    BY <2>3 DEF Covered, EffectiveOf
<1>3. \A b \in Ids(ps) : ps.blocks[b].active => b \notin OffIds(ps)
  BY DEF Sound, Retained, OffIds
<1> QED
  BY <1>2, <1>3 DEF Covered, EffectiveOf

\* No message a block stands for is left to nobody.
THEOREM NoSummaryIsLost == Spec => []NoSummaryLost
<1>1. IInv => NoSummaryLost
  <2> SUFFICES ASSUME IInv, NEW b \in Ids(prune) \ OffIds(prune)
               PROVE  prune.blocks[b].effective \subseteq Covered(prune)
    BY DEF NoSummaryLost
  <2>1. Covered(prune) = EffectiveOf(prune, Ids(prune) \ OffIds(prune))
    BY CoveredIsOpen DEF IInv
  <2> QED
    BY <2>1 DEF EffectiveOf
<1> QED
  BY <1>1, Inductive, PTL

\* A nested block has an active ancestor, so that decompress refuses it.
THEOREM NestedIsAlwaysRefused == Spec => []NestedIsRefused
<1>1. IInv => NestedIsRefused
  <2> SUFFICES ASSUME IInv, NEW b \in Ids(prune) \ OffIds(prune),
                      ~prune.blocks[b].active
               PROVE  \E c \in Ancestors(prune, b) : prune.blocks[c].active
    BY DEF NestedIsRefused
  <2> DEFINE S == {c \in Ids(prune) :
                     ~Off(prune, c) /\ (c = b \/ c \in Ancestors(prune, b))}
  <2>1. Ids(prune) = 1 .. (prune.next - 1) /\ prune.next - 1 \in Nat
    BY TypedFields DEF IInv, Sound
  <2>2. b \in S /\ S \subseteq 1 .. (prune.next - 1)
    BY <2>1 DEF OffIds
  <2>3. PICK top \in S : \A c \in S : c <= top
    BY <2>1, <2>2, GreatestId
  <2>4. prune.blocks[top].active
    <3> SUFFICES ASSUME ~prune.blocks[top].active
                 PROVE  FALSE
      OBVIOUS
    <3>1. PICK c \in Ids(prune) : ~Off(prune, c) /\ top \in prune.blocks[c].consumed
      BY DEF IInv, Sound, Retained
    <3>2. top < c /\ c \in prune.blocks[top].parents
      BY <3>1 DEF IInv, Sound, Lineage
    <3>3. c \in Ancestors(prune, b)
      <4> DEFINE next == [d \in Ids(prune) |-> prune.blocks[d].parents]
      <4>1. c \in DOMAIN next /\ next[top] = prune.blocks[top].parents
        OBVIOUS
      <4>2. CASE top = b
        BY <3>2, <4>1, <4>2, ClosureSeeds DEF Ancestors
      <4>3. CASE top \in Ancestors(prune, b)
        BY <3>2, <4>1, <4>3, ClosureSteps DEF Ancestors
      <4> QED
        BY <4>2, <4>3
    <3> QED
      BY <2>1, <2>3, <3>1, <3>2, <3>3
  <2> QED
    BY <2>4
<1> QED
  BY <1>1, Inductive, PTL

-----------------------------------------------------------------------------
(* What a step may show.                                                   *)

\* A step that opens no block, and takes no message from one, reveals nothing.
LEMMA NothingRevealed ==
  ASSUME NEW ps, Sound(ps), NEW q, Sound(q), Ids(ps) \subseteq Ids(q),
         \A b \in Ids(ps) : /\ Off(q, b) <=> Off(ps, b)
                           /\ q.blocks[b].effective = ps.blocks[b].effective
  PROVE  Covered(ps) \subseteq Covered(q)
<1>1. /\ Covered(ps) = EffectiveOf(ps, Ids(ps) \ OffIds(ps))
      /\ Covered(q) = EffectiveOf(q, Ids(q) \ OffIds(q))
  BY CoveredIsOpen
<1> QED
  BY <1>1 DEF EffectiveOf, OffIds

LEMMA ApplyReveals ==
  ASSUME NEW ps, Sound(ps), NEW plan \in Plan, plan.consumed \subseteq ps.activeIds
  PROVE  Covered(ps) \subseteq Covered(Apply(ps, plan))
<1> DEFINE q == Apply(ps, plan)
<1>1. Sound(q) /\ Adds(ps, q, Absorbed(ps, plan))
  BY ApplySound, ApplyAdds
<1> HIDE DEF q
<1>2. /\ Ids(ps) \subseteq Ids(q)
      /\ \A b \in Ids(ps) : /\ Off(q, b) <=> Off(ps, b)
                            /\ q.blocks[b].effective = ps.blocks[b].effective
  BY <1>1 DEF Adds, Off
<1> QED
  BY <1>1, <1>2, NothingRevealed DEF q

LEMMA SyncReveals ==
  ASSUME NEW ps, Sound(ps)
  PROVE  Covered(ps) \subseteq Covered(Sync(ps))
<1>1. Sound(Sync(ps)) /\ Typed(ps)
  BY SoundSyncable, SyncSound DEF Sound
<1> QED
  BY <1>1, SyncKeeps, NothingRevealed

LEMMA MergeReveals ==
  ASSUME NEW ps, Sound(ps), NEW S, S \subseteq ps.activeIds, S # {}, NEW at \in Times
  PROVE  Covered(ps) \subseteq Covered(Merge(ps, S, at))
<1> DEFINE q == Merge(ps, S, at)
<1>1. Sound(q) /\ Adds(ps, q, S)
  BY MergeSound, MergeAdds
<1> HIDE DEF q
<1>2. /\ Ids(ps) \subseteq Ids(q)
      /\ \A b \in Ids(ps) : /\ Off(q, b) <=> Off(ps, b)
                            /\ q.blocks[b].effective = ps.blocks[b].effective
  BY <1>1 DEF Adds, Off
<1> QED
  BY <1>1, <1>2, NothingRevealed DEF q

LEMMA BatchReveals ==
  ASSUME IInv, NEW lo1 \in history, NEW hi1 \in history,
         NEW lo2 \in history, NEW hi2 \in history,
         NEW first \in PlansOver(lo1, hi1), NEW second \in PlansOver(lo2, hi2),
         hi1 < lo2 \/ hi2 < lo1
  PROVE  Covered(prune) \subseteq Covered(Apply(Apply(prune, first), second))
<1> DEFINE ps == Apply(prune, first)
<1>1. /\ first \in Plan /\ first.consumed \subseteq prune.activeIds
      /\ second \in Plan
  BY PlanFacts
<1>2. Sound(ps) /\ Covered(prune) \subseteq Covered(ps)
  BY <1>1, ApplySound, ApplyReveals DEF IInv
<1>3. second.consumed \subseteq ps.activeIds
  BY SecondStillActive
<1> HIDE DEF ps
<1>4. Covered(ps) \subseteq Covered(Apply(ps, second))
  BY <1>1, <1>2, <1>3, ApplyReveals
<1> QED
  BY <1>2, <1>4 DEF ps

LEMMA TransformReveals ==
  ASSUME IInv, Transform
  PROVE  Covered(prune) \subseteq Covered(prune')
<1> DEFINE synced == Sync(prune)
           S == Mergeable(synced)
<1>1. PICK at \in Times :
        \E ps \in {synced, Merge(synced, S, at)} :
          (ps # synced => Cardinality(S) >= 2) /\ prune' = ps
  BY DEF Transform
<1>2. Sound(synced) /\ Covered(prune) \subseteq Covered(synced)
  BY SoundSyncable, SyncSound, SyncReveals DEF IInv
<1>3. Cardinality(S) >= 2 => S # {}
  <2>1. Cardinality({}) = 0
    BY FS_EmptySet
  <2> QED
    BY <2>1
<1>4. S \subseteq synced.activeIds
  BY MergeableActive
<1> HIDE DEF synced, S
<1>5. S # {} => Covered(synced) \subseteq Covered(Merge(synced, S, at))
  BY <1>2, <1>4, MergeReveals
<1> QED
  BY <1>1, <1>2, <1>3, <1>5

\* Only a decompress, or a crash, shows a compressed message again.
THEOREM OnlyDecompressShows == Spec => OnlyDecompressReveals
<1>1. IInv /\ [Next]_vars => [Revealed # {} => Decompress \/ Restart]_vars
  <2> SUFFICES ASSUME IInv, Next, Revealed # {}
               PROVE  Decompress \/ Restart
    OBVIOUS
  <2>1. ~ (Covered(prune) \subseteq Covered(prune'))
    BY DEF Revealed
  <2>2. ASSUME CompressRange PROVE FALSE
    <3>1. PICK lo \in history, hi \in history :
            \E plan \in PlansOver(lo, hi) : prune' = Apply(prune, plan)
      BY <2>2 DEF CompressRange, Commit
    <3>2. PICK plan \in PlansOver(lo, hi) : prune' = Apply(prune, plan)
      BY <3>1
    <3> QED
      BY <2>1, <3>2, PlanFacts, ApplyReveals DEF IInv
  <2>3. ASSUME CompressBatch PROVE FALSE
    <3>1. PICK lo1 \in history, hi1 \in history, lo2 \in history, hi2 \in history :
            /\ hi1 < lo2 \/ hi2 < lo1
            /\ \E first \in PlansOver(lo1, hi1), second \in PlansOver(lo2, hi2) :
                 prune' = Apply(Apply(prune, first), second)
      BY <2>3 DEF CompressBatch, Commit
    <3> QED
      BY <2>1, <3>1, BatchReveals
  <2>4. ASSUME Transform PROVE FALSE
    BY <2>1, <2>4, TransformReveals
  <2>5. ASSUME AddMessage \/ RemoveMessage PROVE FALSE
    BY <2>1, <2>5 DEF AddMessage, RemoveMessage
  <2> QED
    BY <2>2, <2>3, <2>4, <2>5 DEF Next
<1> QED
  BY <1>1, Inductive, PTL DEF Spec, OnlyDecompressReveals

\* The blocks below b stand for nothing that b does not stand for.
LEMMA BelowIsWithin ==
  ASSUME NEW ps, Sound(ps), NEW b \in Ids(ps), NEW c \in ConsumedBelow(ps, b)
  PROVE  c \in Ids(ps) /\ ps.blocks[c].effective \subseteq ps.blocks[b].effective
<1> DEFINE next == [d \in Ids(ps) |-> ps.blocks[d].consumed]
           T == {d \in Ids(ps) : ps.blocks[d].effective \subseteq ps.blocks[b].effective}
<1>1. DOMAIN next = Ids(ps) /\ T \in SUBSET DOMAIN next
  OBVIOUS
<1>2. ps.blocks[b].consumed \cap DOMAIN next \subseteq T
  BY DEF Sound, Lineage
<1>3. \A d \in T : next[d] \cap DOMAIN next \subseteq T
  BY DEF Sound, Lineage
<1>4. c \in Closure(next, ps.blocks[b].consumed)
  BY DEF ConsumedBelow
<1> HIDE DEF next, T
<1>5. c \in T
  BY <1>1, <1>2, <1>3, <1>4 DEF Closure
<1> QED
  BY <1>5 DEF T

\* The blocks a decompress of b opens: b, and with full those below it.
LEMMA DeactivateOpens ==
  ASSUME NEW ps, Sound(ps), NEW b \in Ids(ps), NEW full \in BOOLEAN
  PROVE  LET q == Deactivate(ps, {b}, full)
         IN /\ Ids(q) = Ids(ps)
            /\ \A c \in Ids(ps) :
                 /\ q.blocks[c].effective = ps.blocks[c].effective
                 /\ q.blocks[c].consumed = ps.blocks[c].consumed
                 /\ q.blocks[c].createdAt = ps.blocks[c].createdAt
                 /\ Off(q, c) <=> Off(ps, c) \/ c = b \/ (full /\ c \in ConsumedBelow(ps, b))
<1> DEFINE q == Deactivate(ps, {b}, full)
           deep == IF full THEN UNION {ConsumedBelow(ps, d) : d \in {b}} ELSE {}
<1>1. ps \in PruneState(ps.next) /\ \A c \in Ids(ps) : ps.blocks[c] \in Block
  BY BlockFields DEF Sound, Typed
<1>2. q.blocks = [c \in Ids(ps) |->
                    [ps.blocks[c] EXCEPT !.active = @ /\ c \notin {b},
                                         !.byUser = @ \/ c \in {b},
                                         !.byUserDeep = @ \/ c \in deep]]
  BY <1>1 DEF Deactivate, PruneState
<1>3. \A c : c \in deep <=> full /\ c \in ConsumedBelow(ps, b)
  OBVIOUS
<1>4. Ids(q) = Ids(ps)
  BY <1>2 DEF Ids
<1>5. ASSUME NEW c \in Ids(ps)
      PROVE  /\ q.blocks[c].effective = ps.blocks[c].effective
             /\ q.blocks[c].consumed = ps.blocks[c].consumed
             /\ q.blocks[c].createdAt = ps.blocks[c].createdAt
             /\ Off(q, c) <=> Off(ps, c) \/ c = b \/ (full /\ c \in ConsumedBelow(ps, b))
  <2>1. \E u, v, w \in BOOLEAN :
          /\ v <=> ps.blocks[c].byUser \/ c = b
          /\ w <=> ps.blocks[c].byUserDeep \/ c \in deep
          /\ q.blocks[c] = [ps.blocks[c] EXCEPT !.active = u, !.byUser = v, !.byUserDeep = w]
    <3> DEFINE u == ps.blocks[c].active /\ c \notin {b}
               v == ps.blocks[c].byUser \/ c \in {b}
               w == ps.blocks[c].byUserDeep \/ c \in deep
    <3>1. /\ u \in BOOLEAN /\ v \in BOOLEAN /\ w \in BOOLEAN
          /\ v <=> ps.blocks[c].byUser \/ c = b
          /\ w <=> ps.blocks[c].byUserDeep \/ c \in deep
      OBVIOUS
    <3>2. q.blocks[c] = [ps.blocks[c] EXCEPT !.active = u, !.byUser = v, !.byUserDeep = w]
      BY <1>2
    <3> HIDE DEF q, u, v, w, deep
    <3> QED
      BY <3>1, <3>2, Zenon
  <2> HIDE DEF q, deep
  <2>2. PICK u \in BOOLEAN, v \in BOOLEAN, w \in BOOLEAN :
          /\ v <=> ps.blocks[c].byUser \/ c = b
          /\ w <=> ps.blocks[c].byUserDeep \/ c \in deep
          /\ q.blocks[c] = [ps.blocks[c] EXCEPT !.active = u, !.byUser = v, !.byUserDeep = w]
    BY <2>1, Zenon
  <2>3. /\ q.blocks[c].effective = ps.blocks[c].effective
        /\ q.blocks[c].consumed = ps.blocks[c].consumed
        /\ q.blocks[c].createdAt = ps.blocks[c].createdAt
        /\ q.blocks[c].byUser = v /\ q.blocks[c].byUserDeep = w
    BY <1>1, <2>2 DEF Block
  <2>4. Off(q, c) <=> (ps.blocks[c].byUser \/ c = b) \/ (ps.blocks[c].byUserDeep \/ c \in deep)
    BY <2>2, <2>3, Zenon DEF Off
  <2> QED
    BY <1>3, <2>3, <2>4 DEF Off
<1> QED
  BY <1>4, <1>5

\* A decompress of b leaves a sound state, of the same blocks, in which b is
\* opened, and with full those below it.
LEMMA BlockOpens ==
  ASSUME IInv, NEW b \in Ids(prune), NEW full \in BOOLEAN, DecompressBlock(b, full)
  PROVE  /\ Sound(prune) /\ Sound(prune') /\ FixedPoint(prune')
         /\ Ids(prune') = Ids(prune)
         /\ \A c \in Ids(prune) :
              /\ prune'.blocks[c].effective = prune.blocks[c].effective
              /\ prune'.blocks[c].consumed = prune.blocks[c].consumed
              /\ prune'.blocks[c].createdAt = prune.blocks[c].createdAt
              /\ Off(prune', c) <=>
                   Off(prune, c) \/ c = b \/ (full /\ c \in ConsumedBelow(prune, b))
<1> DEFINE q == Deactivate(prune, {b}, full)
<1>1. prune' = Sync(q) /\ Sound(prune)
  BY DEF DecompressBlock, DecompressTargets, IInv
<1>2. Syncable(q)
  BY <1>1, DeactivateSyncable
<1>3. /\ Ids(q) = Ids(prune)
      /\ \A c \in Ids(prune) :
           /\ q.blocks[c].effective = prune.blocks[c].effective
           /\ q.blocks[c].consumed = prune.blocks[c].consumed
           /\ q.blocks[c].createdAt = prune.blocks[c].createdAt
           /\ Off(q, c) <=> Off(prune, c) \/ c = b \/ (full /\ c \in ConsumedBelow(prune, b))
  BY <1>1, DeactivateOpens
<1> HIDE DEF q
<1>4. Sound(Sync(q)) /\ FixedPoint(Sync(q)) /\ Typed(q)
  BY <1>2, SyncSound DEF Syncable
<1> QED
  BY <1>1, <1>3, <1>4, SyncKeeps

\* Decompressing a block, with full or without, shows messages of that block only.
THEOREM OnlyTargetIsRevealed == Spec => RevealsOnlyTarget
<1>1. ASSUME IInv, NEW b \in Ids(prune), NEW full \in BOOLEAN,
             DecompressBlock(b, full), NEW m \in Revealed
      PROVE  m \in prune.blocks[b].effective
  <2>1. Sound(prune) /\ Sound(prune')
    BY <1>1, BlockOpens
  <2>2. /\ Ids(prune') = Ids(prune)
        /\ \A c \in Ids(prune) :
             /\ prune'.blocks[c].effective = prune.blocks[c].effective
             /\ Off(prune', c) => Off(prune, c) \/ c = b \/ c \in ConsumedBelow(prune, b)
    BY <1>1, BlockOpens
  <2>3. /\ Covered(prune) = EffectiveOf(prune, Ids(prune) \ OffIds(prune))
        /\ Covered(prune') = EffectiveOf(prune', Ids(prune') \ OffIds(prune'))
    BY <2>1, CoveredIsOpen
  <2>4. PICK c \in Ids(prune) : c \notin OffIds(prune) /\ m \in prune.blocks[c].effective
    BY <1>1, <2>3 DEF Revealed, EffectiveOf
  <2>5. Off(prune', c)
    BY <1>1, <2>2, <2>3, <2>4 DEF Revealed, EffectiveOf, OffIds
  <2>6. c = b \/ c \in ConsumedBelow(prune, b)
    BY <2>2, <2>4, <2>5 DEF OffIds
  <2> QED
    BY <1>1, <2>1, <2>4, <2>6, BelowIsWithin
<1>2. IInv => [\A m \in Revealed, b \in Ids(prune), full \in BOOLEAN :
                 DecompressBlock(b, full) => m \in prune.blocks[b].effective]_vars
  BY <1>1
<1> QED
  BY <1>2, Inductive, PTL DEF RevealsOnlyTarget

\* decompress without full shows what the block took from messages, and from
\* blocks opened before; the summaries it had absorbed stand for the rest.
THEOREM SoftShowsOneTier == Spec => SoftRestoresOneTier
<1>1. ASSUME IInv, NEW m \in Revealed, NEW b \in prune.activeIds, DecompressBlock(b, FALSE)
      PROVE  m \notin EffectiveOf(prune, prune.blocks[b].consumed \ OffIds(prune))
  <2>1. b \in Ids(prune)
    BY <1>1, TypedFields DEF IInv, TypeOK
  <2> SUFFICES ASSUME NEW c \in prune.blocks[b].consumed \ OffIds(prune),
                      m \in prune.blocks[c].effective
               PROVE  FALSE
    BY DEF EffectiveOf
  <2>2. Sound(prune) /\ Sound(prune') /\ Ids(prune') = Ids(prune)
    BY <1>1, <2>1, BlockOpens
  <2>3. c \in Ids(prune) /\ c # b
    BY <2>1, <2>2, TypedFields DEF Sound, Lineage
  <2>4. prune'.blocks[c].effective = prune.blocks[c].effective /\ ~Off(prune', c)
    BY <1>1, <2>1, <2>3, BlockOpens DEF OffIds
  <2>5. Covered(prune') = EffectiveOf(prune', Ids(prune') \ OffIds(prune'))
    BY <2>2, CoveredIsOpen
  <2>6. m \in Covered(prune')
    BY <2>2, <2>3, <2>4, <2>5 DEF EffectiveOf, OffIds
  <2> QED
    BY <1>1, <2>6 DEF Revealed
<1>2. IInv => [\A m \in Revealed, b \in prune.activeIds :
                 DecompressBlock(b, FALSE) =>
                   m \notin EffectiveOf(prune, prune.blocks[b].consumed \ OffIds(prune))]_vars
  BY <1>1
<1> QED
  BY <1>2, Inductive, PTL DEF SoftRestoresOneTier

\* decompress with full goes down to the messages: whoever had consumed a block
\* that is not active is opened only together with the block.
THEOREM FullDecompressRevivesNothing ==
  ASSUME ~ClockMayStepBack
  PROVE  Spec => FullRevivesNothing
<1>1. ASSUME IInv, NEW c \in prune'.activeIds \ prune.activeIds,
             NEW b \in Ids(prune), DecompressBlock(b, TRUE)
      PROVE  FALSE
  <2>1. /\ Sound(prune) /\ prune.activeIds = Live(prune)
        /\ Ids(prune') = Ids(prune) /\ prune'.activeIds = Live(prune')
    BY <1>1, BlockOpens DEF IInv, FixedPoint
  <2>2. \A d \in Ids(prune) :
          /\ prune'.blocks[d].consumed = prune.blocks[d].consumed
          /\ prune'.blocks[d].createdAt = prune.blocks[d].createdAt
          /\ Off(prune', d) <=> Off(prune, d) \/ d = b \/ d \in ConsumedBelow(prune, b)
    BY <1>1, BlockOpens
  <2>3. c \in Ids(prune) /\ ~Off(prune', c) /\ ~Off(prune, c)
    BY <1>1, <2>1, <2>2 DEF Live
  <2>4. PICK d \in Ids(prune) :
          ~Off(prune, d) /\ c \in prune.blocks[d].consumed /\ Earlier(prune, c, d)
    BY <1>1, <2>1, <2>3 DEF Live
  <2>5. Earlier(prune', c, d)
    BY <2>2, <2>3, <2>4 DEF Earlier
  <2>6. Off(prune', d)
    BY <1>1, <2>1, <2>2, <2>4, <2>5 DEF Live
  <2>7. d = b \/ d \in ConsumedBelow(prune, b)
    BY <2>2, <2>4, <2>6
  <2>8. c \in ConsumedBelow(prune, b)
    <3> DEFINE next == [e \in Ids(prune) |-> prune.blocks[e].consumed]
    <3>1. DOMAIN next = Ids(prune) /\ next[d] = prune.blocks[d].consumed
      OBVIOUS
    <3>2. ConsumedBelow(prune, b) = Closure(next, prune.blocks[b].consumed)
      BY DEF ConsumedBelow
    <3> HIDE DEF next
    <3>3. CASE d = b
      BY <2>3, <2>4, <3>1, <3>2, <3>3, ClosureSeeds
    <3>4. CASE d \in ConsumedBelow(prune, b)
      BY <2>3, <2>4, <3>1, <3>2, <3>4, ClosureSteps
    <3> QED
      BY <2>7, <3>3, <3>4
  <2> QED
    BY <2>2, <2>3, <2>8
<1>2. IInv => [prune'.activeIds \ prune.activeIds # {} =>
                 \A b \in Ids(prune) : ~DecompressBlock(b, TRUE)]_vars
  BY <1>1
<1> QED
  BY <1>2, Inductive, PTL DEF FullRevivesNothing

-----------------------------------------------------------------------------
(* Protected messages.                                                     *)

Guarded(ps) == \A b \in Ids(ps) : ps.blocks[b].effective \cap ProtectedTools = {}

LEMMA SyncGuarded ==
  ASSUME NEW ps, Typed(ps), Guarded(ps)
  PROVE  Guarded(Sync(ps))
BY SyncKeeps DEF Guarded

LEMMA ApplyGuarded ==
  ASSUME NEW ps, Sound(ps), Guarded(ps), NEW plan \in Plan,
         plan.consumed \subseteq ps.activeIds, plan.msgs \cap ProtectedTools = {}
  PROVE  Guarded(Apply(ps, plan))
<1> DEFINE q == Apply(ps, plan)
<1>1. Adds(ps, q, Absorbed(ps, plan)) /\ q.blocks[ps.next] = NewBlock(ps, plan)
  BY ApplyAdds, ApplyBlocks
<1>2. Absorbed(ps, plan) \subseteq Ids(ps)
  BY DEF Absorbed
<1>3. NewBlock(ps, plan).effective \cap ProtectedTools = {}
  BY <1>2 DEF NewBlock, NewBlockOver, Fresh, EffectiveOf, Guarded
<1> HIDE DEF q
<1> QED
  BY <1>1, <1>3 DEF Adds, Guarded, q

LEMMA MergeGuarded ==
  ASSUME NEW ps, Sound(ps), Guarded(ps), NEW S, S \subseteq ps.activeIds, NEW at \in Times
  PROVE  Guarded(Merge(ps, S, at))
<1> DEFINE q == Merge(ps, S, at)
<1>1. Adds(ps, q, S) /\ q.blocks[ps.next] = MergedBlock(ps, S, at)
  BY MergeAdds DEF Merge
<1>2. S \subseteq Ids(ps)
  BY TypedFields DEF Sound
<1>3. MergedBlock(ps, S, at).effective \cap ProtectedTools = {}
  BY <1>2 DEF MergedBlock, Fresh, EffectiveOf, Guarded
<1> HIDE DEF q
<1> QED
  BY <1>1, <1>3 DEF Adds, Guarded, q

LEMMA DeactivateGuarded ==
  ASSUME NEW ps, Sound(ps), Guarded(ps), NEW targets, targets \subseteq Ids(ps),
         targets # {}, NEW full \in BOOLEAN
  PROVE  Guarded(Deactivate(ps, targets, full))
<1>1. /\ Ids(Deactivate(ps, targets, full)) = Ids(ps)
      /\ \A b \in Ids(ps) :
           Deactivate(ps, targets, full).blocks[b].effective = ps.blocks[b].effective
  BY ZenonT(40), DeactivateKeeps
<1> QED
  BY <1>1 DEF Guarded

\* The marks of a copy say nothing of its blocks.
LEMMA CopyGuarded ==
  ASSUME NEW ps, Sound(ps), Guarded(ps)
  PROVE  Guarded(Saved(ps)) /\ Guarded(Load(ps))
<1>1. Saved(ps).blocks = ps.blocks /\ Load(ps).blocks = ps.blocks
  BY DEF Sound, Typed, PruneState, Saved, Load
<1> QED
  BY <1>1 DEF Guarded, Ids

\* A plan leaves the protected messages out, and only messages that are under
\* a block already, or in the plan, come under a block.
LEMMA PlanGuarded ==
  ASSUME NEW lo, NEW hi, NEW plan \in PlansOver(lo, hi)
  PROVE  plan.msgs \cap ProtectedTools = {}
BY DEF PlansOver, Selected

LEMMA GuardedStep ==
  ASSUME IInv, Guarded(prune), Guarded(disk), [Next]_vars
  PROVE  Guarded(prune') /\ Guarded(disk')
<1>1. Sound(prune) /\ Sound(disk) /\ Typed(prune)
  BY DEF IInv, Sound
<1>2. ASSUME NEW ps, Sound(ps), Guarded(ps), prune' = ps, disk' \in {Saved(ps), disk}
      PROVE  Guarded(prune') /\ Guarded(disk')
  BY <1>2, CopyGuarded
<1>3. CASE CompressRange
  <2>1. PICK lo \in history, hi \in history :
          \E plan \in PlansOver(lo, hi) : Commit(Apply(prune, plan))
    BY <1>3 DEF CompressRange
  <2>2. PICK plan \in PlansOver(lo, hi) : Commit(Apply(prune, plan))
    BY <2>1
  <2>3. Sound(Apply(prune, plan)) /\ Guarded(Apply(prune, plan))
    BY <1>1, PlanFacts, PlanGuarded, ApplySound, ApplyGuarded
  <2> QED
    BY <1>2, <2>2, <2>3 DEF Commit, MaySave
<1>4. CASE CompressBatch
  <2>1. PICK lo1 \in history, hi1 \in history, lo2 \in history, hi2 \in history :
          /\ hi1 < lo2 \/ hi2 < lo1
          /\ \E first \in PlansOver(lo1, hi1), second \in PlansOver(lo2, hi2) :
               Commit(Apply(Apply(prune, first), second))
    BY <1>4 DEF CompressBatch
  <2>2. PICK first \in PlansOver(lo1, hi1), second \in PlansOver(lo2, hi2) :
          Commit(Apply(Apply(prune, first), second))
    BY <2>1
  <2> DEFINE ps == Apply(prune, first)
  <2>3. Sound(ps) /\ Guarded(ps)
    BY <1>1, PlanFacts, PlanGuarded, ApplySound, ApplyGuarded
  <2>4. second.consumed \subseteq ps.activeIds
    BY <2>1, SecondStillActive
  <2>5. second \in Plan /\ second.msgs \cap ProtectedTools = {}
    BY PlanFacts, PlanGuarded
  <2> HIDE DEF ps
  <2>6. Sound(Apply(ps, second)) /\ Guarded(Apply(ps, second))
    BY <2>3, <2>4, <2>5, ApplySound, ApplyGuarded
  <2> QED
    BY <1>2, <2>2, <2>6 DEF Commit, MaySave, ps
<1>5. ASSUME NEW targets, targets \subseteq Ids(prune), targets # {},
             NEW full \in BOOLEAN, DecompressTargets(targets, full)
      PROVE  Guarded(prune') /\ Guarded(disk')
  <2> DEFINE q == Deactivate(prune, targets, full)
  <2>1. Syncable(q) /\ Guarded(q)
    BY <1>1, <1>5, DeactivateSyncable, DeactivateGuarded
  <2>2. prune' = Sync(q) /\ disk' \in {Saved(Sync(q)), disk}
    BY <1>5 DEF DecompressTargets, MaySave
  <2> HIDE DEF q
  <2>3. Sound(Sync(q)) /\ Guarded(Sync(q))
    BY <2>1, SyncSound, SyncGuarded DEF Syncable
  <2> QED
    BY <1>2, <2>2, <2>3
<1>6. CASE Decompress
  <2>1. PICK full \in BOOLEAN :
          \/ \E b \in Ids(prune) : DecompressBlock(b, full)
          \/ \E lo, hi \in history : DecompressRange(lo, hi, full)
    BY <1>6 DEF Decompress
  <2>2. \E targets : targets \subseteq Ids(prune) /\ targets # {}
                    /\ DecompressTargets(targets, full)
    <3>1. ASSUME NEW b \in Ids(prune), DecompressBlock(b, full)
          PROVE  {b} \subseteq Ids(prune) /\ {b} # {} /\ DecompressTargets({b}, full)
      BY <3>1 DEF DecompressBlock
    <3>2. ASSUME NEW lo, NEW hi, DecompressRange(lo, hi, full)
          PROVE  \E targets : targets \subseteq Ids(prune) /\ targets # {}
                            /\ DecompressTargets(targets, full)
      BY <3>2 DEF DecompressRange
    <3> QED
      BY <2>1, <3>1, <3>2
  <2> QED
    BY <1>5, <2>2
<1>7. CASE Transform
  <2> DEFINE synced == Sync(prune)
             S == Mergeable(synced)
  <2>1. PICK at \in Times :
          \E ps \in {synced, Merge(synced, S, at)} :
            /\ ps # synced => Cardinality(S) >= 2
            /\ prune' = ps /\ disk' \in {Saved(ps), disk}
    BY <1>7 DEF Transform, MaySave
  <2>2. Sound(synced) /\ Guarded(synced)
    BY <1>1, SoundSyncable, SyncSound, SyncGuarded
  <2>3. Cardinality(S) >= 2 => S # {}
    <3>1. Cardinality({}) = 0
      BY FS_EmptySet
    <3> QED
      BY <3>1
  <2>4. S \subseteq synced.activeIds
    BY MergeableActive
  <2> HIDE DEF synced, S
  <2>5. S # {} => Sound(Merge(synced, S, at)) /\ Guarded(Merge(synced, S, at))
    BY <2>2, <2>4, MergeSound, MergeGuarded
  <2> QED
    BY <1>2, <2>1, <2>2, <2>3, <2>5
<1>8. CASE Restart
  <2>1. Sound(Load(disk)) /\ Guarded(Load(disk))
    BY <1>1, LoadSound, CopyGuarded
  <2> QED
    BY <1>2, <1>8, <2>1 DEF Restart, MaySave
<1>9. CASE AddMessage \/ RemoveMessage \/ UNCHANGED vars
  BY <1>9 DEF AddMessage, RemoveMessage, vars
<1> QED
  BY <1>3, <1>4, <1>6, <1>7, <1>8, <1>9 DEF Next

\* A message with a protected tool output never comes under a block.
THEOREM ProtectedToolsAlwaysStay == Spec => []ProtectedToolsStay
<1>1. Init => Guarded(prune) /\ Guarded(disk)
  BY DEF Init, EmptyPrune, Guarded, Ids
<1>2. IInv /\ Guarded(prune) /\ Guarded(disk) /\ [Next]_vars
        => (Guarded(prune) /\ Guarded(disk))'
  BY GuardedStep
<1>3. Guarded(prune) => ProtectedToolsStay
  BY DEF Guarded, ProtectedToolsStay
<1> QED
  BY <1>1, <1>2, <1>3, Inductive, PTL DEF Spec

-----------------------------------------------------------------------------
(* The loop of the replay and its closed form.                             *)

\* The replay visits the blocks in a total order: of those left, one is first.
LEMMA FirstIsEarliest ==
  ASSUME NEW ps, Typed(ps), NEW left, left \subseteq Ids(ps), left # {}
  PROVE  /\ FirstOf(ps, left) \in left
         /\ \A c \in left : c = FirstOf(ps, left) \/ Earlier(ps, FirstOf(ps, left), c)
<1> DEFINE at(b) == ps.blocks[b].createdAt
           Ats == {at(b) : b \in left}
<1>1. left \subseteq Nat /\ \A b \in left : at(b) \in Nat
  BY TypedFields, BlockFields
<1>2. PICK t \in Ats : \A u \in Ats : t <= u
  <2>1. Ats \subseteq Nat /\ Ats # {}
    BY <1>1
  <2> HIDE DEF Ats
  <2> QED
    BY <2>1, NatMin
<1> DEFINE Oldies == {b \in left : at(b) = t}
<1>3. PICK b \in Oldies : \A c \in Oldies : b <= c
  <2>1. Oldies \subseteq Nat /\ Oldies # {}
    BY <1>1
  <2> HIDE DEF Oldies
  <2> QED
    BY <2>1, NatMin
<1>4. ASSUME NEW c \in left
      PROVE  c = b \/ Earlier(ps, b, c)
  <2>1. b \in Nat /\ c \in Nat /\ at(b) = t /\ at(b) \in Nat /\ at(c) \in Nat
    BY <1>1
  <2>2. at(b) <= at(c)
    BY <1>2, <2>1
  <2>3. at(c) = at(b) => b <= c
    BY <1>3, <2>1
  <2> QED
    BY <2>1, <2>2, <2>3 DEF Earlier
<1>5. b \in left
  OBVIOUS
<1> HIDE DEF Oldies, Ats, at
<1> QED
  BY <1>4, <1>5 DEF FirstOf

\* What the loop has done when only the blocks of s.left are to be visited: they
\* are the later ones, and among the others the closed form holds.
SoFar(ps, s) ==
  LET done == Ids(ps) \ s.left
  IN /\ s.left \subseteq Ids(ps)
     /\ \A b \in done, c \in s.left : Earlier(ps, b, c)
     /\ s.active = {b \in done :
                      /\ ~Off(ps, b)
                      /\ \A c \in done : (~Off(ps, c) /\ b \in ps.blocks[c].consumed)
                                         => ~Earlier(ps, b, c)}

\* A round visits the first of the blocks left, and keeps that.
LEMMA VisitKeeps ==
  ASSUME NEW ps, Typed(ps), NEW s, SoFar(ps, s), s.left # {}
  PROVE  /\ SoFar(ps, Visited(ps, s))
         /\ Visited(ps, s).left = s.left \ {FirstOf(ps, s.left)}
         /\ FirstOf(ps, s.left) \in s.left
<1> DEFINE b == FirstOf(ps, s.left)
           q == Visited(ps, s)
           done == Ids(ps) \ s.left
           Stays(x, ds) == /\ ~Off(ps, x)
                           /\ \A c \in ds : (~Off(ps, c) /\ x \in ps.blocks[c].consumed)
                                           => ~Earlier(ps, x, c)
<1>1. /\ s.left \subseteq Ids(ps)
      /\ \A x \in done, c \in s.left : Earlier(ps, x, c)
      /\ s.active = {x \in done : Stays(x, done)}
  BY DEF SoFar
<1>2. b \in s.left /\ \A c \in s.left : c = b \/ Earlier(ps, b, c)
  BY <1>1, FirstIsEarliest
<1>3. q.left = s.left \ {b} /\ q.active = Round(ps, s.active, b)
  BY DEF Visited
<1>4. \A x, y \in Ids(ps) : x \in Nat /\ y \in Nat /\ ~(Earlier(ps, x, y) /\ Earlier(ps, y, x))
  BY TypedFields, BlockFields DEF Earlier
<1> HIDE DEF b, q
<1> DEFINE now == Ids(ps) \ q.left
<1>5. now = done \cup {b} /\ b \notin done /\ b \in Ids(ps) /\ now \subseteq Ids(ps)
  BY <1>1, <1>2, <1>3
<1>6. \A x \in done : Earlier(ps, x, b)
  BY <1>1, <1>2
<1>7. \A x \in now, c \in q.left : Earlier(ps, x, c)
  BY <1>1, <1>2, <1>3, <1>5
<1> HIDE DEF now, done
<1>8. \A x \in done : Stays(x, now) <=> (Stays(x, done) /\ (Off(ps, b) \/ x \notin ps.blocks[b].consumed))
  BY <1>5, <1>6
<1>9. Stays(b, now) <=> ~Off(ps, b)
  <2>1. \A c \in now : ~Earlier(ps, b, c)
    BY <1>4, <1>5, <1>6
  <2> QED
    BY <2>1
<1> HIDE DEF Stays
<1>10. q.active = {x \in now : Stays(x, now)}
  <2>1. CASE Off(ps, b)
    BY <1>1, <1>3, <1>5, <1>8, <1>9, <2>1 DEF Round
  <2>2. CASE ~Off(ps, b)
    <3>1. q.active = (s.active \ ps.blocks[b].consumed) \cup {b}
      BY <1>3, <2>2 DEF Round
    <3> QED
      BY <1>1, <1>5, <1>8, <1>9, <2>2, <3>1
  <2> QED
    BY <2>1, <2>2
<1>11. q.left \subseteq Ids(ps)
  BY <1>1, <1>3
<1>12. SoFar(ps, q)
  BY <1>7, <1>10, <1>11 DEF SoFar, now, Stays
<1> QED
  BY <1>2, <1>3, <1>12 DEF b, q

\* The rounds exist: were n the first that did not, one more visit would give it.
LEMMA RoundsExist ==
  ASSUME NEW ps, NEW N \in Nat, N = Cardinality(Ids(ps))
  PROVE  Rounds(ps) = [n \in 0 .. N |->
                         IF n = 0 THEN [left |-> Ids(ps), active |-> {}]
                         ELSE Visited(ps, Rounds(ps)[n - 1])]
<1> DEFINE start == [left |-> Ids(ps), active |-> {}]
           Stages(f, n) == f = [i \in 0 .. n |-> IF i = 0 THEN start ELSE Visited(ps, f[i - 1])]
           Missing == {n \in 0 .. N : ~ \E f : Stages(f, n)}
<1>1. ASSUME Missing # {}
      PROVE  FALSE
  <2>1. PICK n \in Missing : \A m \in Missing : n <= m
    <3>1. Missing \subseteq Nat
      OBVIOUS
    <3> HIDE DEF Missing
    <3> QED
      BY <1>1, <3>1, NatMin
  <2>2. n \in 0 .. N /\ ~ \E f : Stages(f, n)
    OBVIOUS
  <2>3. n # 0
    <3> DEFINE f == [i \in 0 .. 0 |-> start]
    <3>1. Stages(f, 0)
      OBVIOUS
    <3> QED
      BY <2>2, <3>1
  <2>4. PICK f : Stages(f, n - 1)
    <3>1. n - 1 \in 0 .. N /\ ~(n <= n - 1)
      BY <2>2, <2>3
    <3> QED
      BY <2>1, <3>1
  <2> DEFINE g == [i \in 0 .. n |-> IF i = n THEN Visited(ps, f[n - 1]) ELSE f[i]]
  <2>5. Stages(g, n)
    <3>1. \A i \in 0 .. n : i # 0 => i - 1 \in 0 .. n /\ i - 1 # n
      BY <2>2
    <3>2. \A i \in 0 .. n : i # n => f[i] = IF i = 0 THEN start ELSE Visited(ps, f[i - 1])
      <4>1. \A i \in 0 .. n : i # n => i \in 0 .. (n - 1)
        BY <2>2
      <4> QED
        BY <2>4, <4>1
    <3>3. \A i \in 0 .. n : i # 0 => g[i - 1] = f[i - 1]
      BY <3>1
    <3>4. \A i \in 0 .. n : g[i] = IF i = 0 THEN start ELSE Visited(ps, g[i - 1])
      BY <2>3, <3>2, <3>3
    <3>5. g = [i \in 0 .. n |-> g[i]]
      OBVIOUS
    <3> HIDE DEF g
    <3> QED
      BY <3>4, <3>5
  <2> QED
    BY <2>2, <2>5
<1>2. \E f : Stages(f, N)
  <2>1. N \in 0 .. N
    OBVIOUS
  <2> HIDE DEF Stages
  <2> QED
    BY <1>1, <2>1, Zenon
<1> QED
  BY <1>2 DEF Rounds

\* After as many rounds as there are blocks, all are visited.
LEMMA ReplayEndsLive ==
  ASSUME NEW ps, Typed(ps)
  PROVE  Replay(ps) = Live(ps)
<1> DEFINE N == Cardinality(Ids(ps))
           after == Rounds(ps)
           Fits(n) == /\ SoFar(ps, after[n])
                      /\ IsFiniteSet(after[n].left)
                      /\ Cardinality(after[n].left) = N - n
           Bad == {n \in 0 .. N : ~Fits(n)}
<1>1. IsFiniteSet(Ids(ps)) /\ N \in Nat
  <2>1. ps.next - 1 \in Int /\ Ids(ps) = 1 .. (ps.next - 1)
    BY TypedFields
  <2>2. IsFiniteSet(Ids(ps))
    BY <2>1, FS_Interval
  <2> QED
    BY <2>2, FS_CardinalityType
<1>2. after = [n \in 0 .. N |-> IF n = 0 THEN [left |-> Ids(ps), active |-> {}]
                                ELSE Visited(ps, after[n - 1])]
  BY <1>1, RoundsExist
<1>3. Fits(0)
  <2>1. after[0] = [left |-> Ids(ps), active |-> {}]
    BY <1>1, <1>2
  <2>2. SoFar(ps, [left |-> Ids(ps), active |-> {}])
    BY DEF SoFar
  <2> HIDE DEF after
  <2> QED
    BY <1>1, <2>1, <2>2
<1>4. ASSUME NEW n \in 0 .. N, n # 0, Fits(n - 1)
      PROVE  Fits(n)
  <2> DEFINE s == after[n - 1]
  <2>1. after[n] = Visited(ps, s)
    <3> HIDE DEF after, N
    <3> QED
      BY <1>2, <1>4
  <2>2. SoFar(ps, s) /\ IsFiniteSet(s.left) /\ Cardinality(s.left) = N - (n - 1)
    BY <1>4
  <2> HIDE DEF after, N, s
  <2>3. s.left # {}
    BY <1>1, <1>4, <2>2, FS_EmptySet
  <2>4. /\ SoFar(ps, Visited(ps, s))
        /\ Visited(ps, s).left = s.left \ {FirstOf(ps, s.left)}
        /\ FirstOf(ps, s.left) \in s.left
    BY <2>2, <2>3, VisitKeeps
  <2>5. /\ IsFiniteSet(s.left \ {FirstOf(ps, s.left)})
        /\ Cardinality(s.left \ {FirstOf(ps, s.left)}) = Cardinality(s.left) - 1
    BY <2>2, <2>4, FS_RemoveElement
  <2> QED
    BY <1>1, <1>4, <2>1, <2>2, <2>4, <2>5
<1> HIDE DEF Fits
<1>5. ASSUME Bad # {}
      PROVE  FALSE
  <2>1. PICK n \in Bad : \A m \in Bad : n <= m
    <3>1. Bad \subseteq Nat
      BY <1>1
    <3> HIDE DEF Bad
    <3> QED
      BY <1>5, <3>1, NatMin
  <2>2. n \in 0 .. N /\ ~Fits(n)
    OBVIOUS
  <2>3. n # 0
    BY <1>3, <2>2
  <2>4. Fits(n - 1)
    <3>1. n - 1 \in 0 .. N /\ ~(n <= n - 1)
      BY <1>1, <2>2, <2>3
    <3> QED
      BY <2>1, <3>1
  <2> QED
    BY <1>4, <2>2, <2>3, <2>4
<1>6. Fits(N)
  BY <1>1, <1>5
<1>7. SoFar(ps, after[N]) /\ after[N].left = {}
  <2>1. SoFar(ps, after[N]) /\ IsFiniteSet(after[N].left) /\ Cardinality(after[N].left) = 0
    BY <1>1, <1>6 DEF Fits
  <2> QED
    BY <2>1, FS_EmptySet
<1>8. Replay(ps) = after[N].active
  BY DEF Replay
<1> HIDE DEF after, N
<1> QED
  BY <1>7, <1>8 DEF SoFar, Live

\* The closed form the other theorems use is what the loop of
\* syncCompressionBlocks computes (sync.ts:86-130), in any order of the clock.
THEOREM ReplayReachesLive == Spec => []ReplayIsLive
<1>1. TypeOK => ReplayIsLive
  BY ReplayEndsLive DEF TypeOK, ReplayIsLive
<1> QED
  BY <1>1, TypeCorrect, PTL
=============================================================================
