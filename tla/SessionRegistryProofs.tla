------------------------ MODULE SessionRegistryProofs ------------------------
(***************************************************************************)
(* The registry keeps its invariant: calls of a session run one at a time  *)
(* and in order, no barrier is stranded, no session is evicted under a     *)
(* call, and only accepted work is shown or saved; for any sessions, any   *)
(* number of calls and any soft cap.                                       *)
(***************************************************************************)
EXTENDS SessionRegistry, FiniteSetTheorems, WellFoundedInduction, TLAPS

USE RegistryAssumption DEF Calls

Working == {"loading", "operating", "saving"}

LEMMA PhasesOfCall ==
  ASSUME TypeOK, NEW c \in Calls
  PROVE  /\ call[c] \in Call /\ call[c].phase \in Phase /\ call[c].session \in Sessions
         /\ call[c].after \in 0 .. MaxCalls
         /\ call[c].phase \in Working <=> call[c].phase \notin {"none", "queued", "done"}
BY DEF TypeOK, Call, Phase, Working

LEMMA NoCallTyped == NoCall \in Call /\ \A r \in Call : Ended(r) \in Call
<1>1. (CHOOSE s \in Sessions : TRUE) \in Sessions
  OBVIOUS
<1>2. NoCall \in Call
  BY <1>1 DEF NoCall, Call, Entry, Phase
<1>3. ASSUME NEW r \in Call
      PROVE  Ended(r) \in Call
  BY <1>2, <1>3 DEF Ended, NoCall, Call, Entry, Phase
<1> QED
  BY <1>2, <1>3

\* What Ended keeps of a call.
LEMMA EndedFields ==
  ASSUME NEW r \in Call
  PROVE  /\ Ended(r).session = r.session /\ Ended(r).phase = "done"
         /\ Ended(r).accepted = r.accepted /\ ~Ended(r).creates /\ ~Ended(r).found
BY DEF Ended, NoCall, Call

-----------------------------------------------------------------------------
(* The order of the map.                                                   *)

LEMMA KeepsExactly ==
  ASSUME NEW places \in [Sessions -> Nat], NEW stay \in SUBSET Sessions
  PROVE  /\ Keep(places, stay) \in [Sessions -> Nat]
         /\ \A s \in Sessions : Keep(places, stay)[s] # 0 <=> s \in stay
<1>1. ASSUME NEW s \in Sessions
      PROVE  /\ Cardinality({t \in stay : places[t] <= places[s]}) \in Nat
             /\ s \in stay => Cardinality({t \in stay : places[t] <= places[s]}) # 0
  <2> DEFINE below == {t \in stay : places[t] <= places[s]}
  <2>1. IsFiniteSet(below)
    BY FS_Subset
  <2>2. Cardinality(below) \in Nat /\ (Cardinality(below) = 0 <=> below = {})
    BY <2>1, FS_CardinalityType, FS_EmptySet
  <2>3. s \in stay => s \in below
    OBVIOUS
  <2> QED
    BY <2>2, <2>3
<1> QED
  BY <1>1 DEF Keep

LEMMA InsertsExactly ==
  ASSUME TypeOK, NEW s \in Sessions
  PROVE  /\ Insert(s) \in [Sessions -> Nat]
         /\ \A t \in Sessions : Insert(s)[t] # 0 <=> (t \in InMemory \/ t = s)
<1>1. order \in [Sessions -> Nat]
  BY DEF TypeOK
<1>2. Cardinality(InMemory) \in Nat
  BY FS_Subset, FS_CardinalityType DEF InMemory
<1> QED
  BY <1>1, <1>2 DEF Insert, InMemory

LEMMA RemovesExactly ==
  ASSUME TypeOK, NEW s \in Sessions
  PROVE  /\ Remove(s) \in [Sessions -> Nat]
         /\ \A t \in Sessions : Remove(s)[t] # 0 <=> (t \in InMemory /\ t # s)
<1>1. order \in [Sessions -> Nat] /\ InMemory \ {s} \in SUBSET Sessions
  BY DEF TypeOK, InMemory
<1> QED
  BY <1>1, KeepsExactly DEF Remove

\* enforceSoftCap drops idle sessions only, and with them what they held.
LEMMA EnforcedDropsIdle ==
  ASSUME NEW places \in [Sessions -> Nat], NEW contents \in [Sessions -> SUBSET Calls],
         Enforced(places, contents)
  PROVE  \E gone \in SUBSET Sessions :
           /\ \A s \in gone : Idle(call', barrier', s) /\ places[s] # 0
           /\ order' \in [Sessions -> Nat]
           /\ InMemory' = {s \in Sessions : places[s] # 0} \ gone
           /\ content' = [s \in Sessions |-> IF s \in gone THEN {} ELSE contents[s]]
           /\ content' \in [Sessions -> SUBSET Calls]
<1> DEFINE gone == Evicted(places, call', barrier')
           stay == {s \in Sessions : places[s] # 0} \ gone
<1>1. gone \in SUBSET Sessions /\ \A s \in gone : Idle(call', barrier', s) /\ places[s] # 0
  BY DEF Evicted
<1>2. /\ order' = Keep(places, stay)
      /\ content' = [s \in Sessions |-> IF s \in gone THEN {} ELSE contents[s]]
  BY DEF Enforced
<1> HIDE DEF gone
<1>3. order' \in [Sessions -> Nat] /\ \A s \in Sessions : order'[s] # 0 <=> s \in stay
  BY <1>2, KeepsExactly
<1>4. InMemory' = stay
  BY <1>3 DEF InMemory
<1>5. content' \in [Sessions -> SUBSET Calls]
  BY <1>2
<1> QED
  BY <1>1, <1>2, <1>3, <1>4, <1>5

-----------------------------------------------------------------------------
(* The chain of calls: typing, Chained and InOrder.                        *)

Ordered ==
  /\ call \in [Calls -> Call] /\ tail \in [Sessions -> 0 .. MaxCalls]
  /\ Chained /\ InOrder

\* Whoever has its turn comes after all the others of its session.
LEMMA EarlierDone ==
  ASSUME Ordered, NEW c \in Calls, Turn(c) \/ call[c].phase \in Working
  PROVE  \A d \in Calls : (d < c /\ call[d].session = call[c].session) => call[d].phase = "done"
<1>1. call \in [Calls -> Call] /\ Chained /\ InOrder
  BY DEF Ordered
<1>2. CASE call[c].phase \in Working
  BY <1>1, <1>2 DEF InOrder, Working
<1>3. CASE Turn(c)
  <2>1. call[c].after \in 0 .. MaxCalls /\ call[c].phase = "queued"
    BY <1>1, <1>3 DEF Call, Turn
  <2>2. call[c].after # 0 => /\ call[call[c].after].phase = "done"
                             /\ call[call[c].after].session = call[c].session
    BY <1>1, <1>3, <2>1 DEF Turn, Chained
  <2>3. \A d \in Calls : (d < call[c].after /\ call[d].session = call[c].session)
          => call[d].phase = "done"
    BY <1>1, <2>1, <2>2 DEF InOrder
  <2>4. \A d \in Calls : (call[c].after < d /\ d < c /\ call[d].session = call[c].session)
          => call[d].phase = "done"
    BY <1>1, <2>1 DEF Chained
  <2> QED
    BY <2>1, <2>2, <2>3, <2>4
<1> QED
  BY <1>2, <1>3

\* So it has the session to itself.
LEMMA OthersIdle ==
  ASSUME Ordered, NEW c \in Calls, Turn(c) \/ call[c].phase \in Working,
         NEW d \in Calls, d # c, call[d].session = call[c].session
  PROVE  call[d].phase \in {"none", "queued", "done"}
<1>1. call \in [Calls -> Call] /\ InOrder
  BY DEF Ordered
<1>2. call[c].phase # "done"
  BY DEF Turn, Working
<1>3. CASE d < c
  BY <1>3, EarlierDone
<1>4. CASE c < d
  BY <1>1, <1>2, <1>4 DEF InOrder, Call, Phase
<1> QED
  BY <1>3, <1>4

\* A call joins its session's chain.
LEMMA ReserveOrders ==
  ASSUME Ordered, NEW s \in Sessions, NEW entry \in Entry, Reserve(s, entry)
  PROVE  Ordered'
<1>1. PICK c \in Calls :
        /\ call[c].phase = "none" /\ \A d \in Calls : d < c => call[d].phase # "none"
        /\ call' = [call EXCEPT ![c].session = s, ![c].entry = entry,
                                ![c].phase = "queued", ![c].after = tail[s],
                                ![c].found = s \in InMemory /\ barrier[s] = 0]
        /\ tail' = [tail EXCEPT ![s] = c]
  BY DEF Reserve
<1>2. /\ call \in [Calls -> Call] /\ tail \in [Sessions -> 0 .. MaxCalls]
      /\ Chained /\ InOrder
  BY DEF Ordered
<1>3. /\ call'[c].session = s /\ call'[c].phase = "queued" /\ call'[c].after = tail[s]
      /\ \A d \in Calls : d # c => call'[d] = call[d]
      /\ tail'[s] = c /\ \A t \in Sessions : t # s => tail'[t] = tail[t]
  BY <1>1, <1>2 DEF Call
<1>4. call' \in [Calls -> Call] /\ tail' \in [Sessions -> 0 .. MaxCalls]
  <2>1. (s \in InMemory /\ barrier[s] = 0) \in BOOLEAN /\ tail[s] \in 0 .. MaxCalls
    BY <1>2
  <2>2. ASSUME NEW r \in Call, NEW f \in BOOLEAN, NEW a \in 0 .. MaxCalls
        PROVE  [r EXCEPT !.session = s, !.entry = entry, !.phase = "queued",
                         !.after = a, !.found = f] \in Call
    BY DEF Call, Phase
  <2>3. tail' \in [Sessions -> 0 .. MaxCalls]
    BY <1>1, <1>2
  <2>4. \A d \in Calls : call'[d] \in Call
    BY <1>1, <1>2, <2>1, <2>2
  <2> QED
    BY <1>1, <1>2, <2>3, <2>4
<1>5. \A d \in Calls : d > c => call[d].phase = "none"
  BY <1>1, <1>2 DEF Chained
<1>6. tail[s] \in 0 .. MaxCalls /\ tail[s] < c
        /\ (tail[s] # 0 => call[tail[s]].session = s /\ call[tail[s]].phase \notin {"none", "done"})
  BY <1>1, <1>2, <1>5 DEF Chained
<1>7. \A d \in Calls : (tail[s] < d /\ d < c /\ call[d].session = s) => call[d].phase = "done"
  BY <1>1, <1>2 DEF Chained
<1>8. Chained'
  <2>1. \A d, e \in Calls : e < d /\ call'[e].phase = "none" => call'[d].phase = "none"
    BY <1>1, <1>2, <1>3 DEF Chained
  <2>2. ASSUME NEW d \in Calls, call'[d].phase = "queued"
        PROVE  /\ call'[d].after < d
               /\ call'[d].after # 0 =>
                    /\ call'[call'[d].after].session = call'[d].session
                    /\ call'[call'[d].after].phase # "none"
               /\ \A e \in Calls :
                    (call'[d].after < e /\ e < d /\ call'[e].session = call'[d].session)
                      => call'[e].phase = "done"
    <3>1. CASE d = c
      BY <1>3, <1>6, <1>7, <3>1
    <3>2. CASE d # c
      <4>1. call'[d] = call[d] /\ call[d].phase = "queued" /\ d < c
        BY <1>3, <1>5, <2>2, <3>2
      <4>2. call[d].after \in 0 .. MaxCalls
        BY <1>2 DEF Call
      <4>3. /\ call[d].after < d
            /\ call[d].after # 0 =>
                    /\ call[call[d].after].session = call[d].session
                    /\ call[call[d].after].phase # "none"
            /\ \A e \in Calls :
                    (call[d].after < e /\ e < d /\ call[e].session = call[d].session)
                      => call[e].phase = "done"
        BY <1>2, <4>1 DEF Chained
      <4> QED
        BY <1>3, <4>1, <4>2, <4>3
    <3> QED
      BY <3>1, <3>2
  <2>3. ASSUME NEW t \in Sessions
        PROVE  /\ tail'[t] # 0 => /\ call'[tail'[t]].session = t
                                  /\ call'[tail'[t]].phase \notin {"none", "done"}
               /\ \A d \in Calls :
                    call'[d].session = t /\ tail'[t] < d => call'[d].phase \in {"none", "done"}
    <3>1. CASE t = s
      BY <1>2, <1>3, <1>5, <3>1
    <3>2. CASE t # s
      <4>1. tail'[t] = tail[t] /\ tail[t] \in 0 .. MaxCalls
        BY <1>2, <1>3, <3>2
      <4>2. tail[t] # c
        BY <1>1, <1>2 DEF Chained
      <4> QED
        BY <1>2, <1>3, <3>2, <4>1, <4>2 DEF Chained
    <3> QED
      BY <3>1, <3>2
  <2> QED
    BY <2>1, <2>2, <2>3 DEF Chained
<1>9. InOrder'
  BY <1>2, <1>3, <1>5 DEF InOrder
<1> QED
  BY <1>4, <1>8, <1>9 DEF Ordered

\* A call goes on: from its turn, or from one stage of its work to the next.
LEMMA WorkOrders ==
  ASSUME Ordered, NEW c \in Calls, Turn(c) \/ call[c].phase \in Working,
         call' \in [Calls -> Call], \A d \in Calls : d # c => call'[d] = call[d],
         call'[c].session = call[c].session, call'[c].phase \in Working,
         UNCHANGED tail
  PROVE  Ordered'
<1>1. /\ call \in [Calls -> Call] /\ tail \in [Sessions -> 0 .. MaxCalls]
      /\ Chained /\ InOrder
  BY DEF Ordered
<1>2. call[c].phase \notin {"none", "done"} /\ call'[c].phase \notin {"none", "queued", "done"}
  BY DEF Turn, Working
<1>3. \A d \in Calls : /\ call'[d].session = call[d].session
                       /\ call'[d].phase = "none" <=> call[d].phase = "none"
                       /\ call'[d].phase = "done" <=> call[d].phase = "done"
                       /\ call'[d].phase = "queued" => d # c
  BY <1>2
<1>4. \A d \in Calls : (d < c /\ call[d].session = call[c].session) => call[d].phase = "done"
  BY EarlierDone
<1>5. InOrder'
  BY <1>1, <1>3, <1>4 DEF InOrder
<1>6. Chained'
  <2>1. \A d \in Calls : call[d].after \in 0 .. MaxCalls
    BY <1>1 DEF Call
  <2>2. ASSUME NEW d \in Calls, call'[d].phase = "queued"
        PROVE  /\ call'[d].after < d
               /\ call'[d].after # 0 =>
                    /\ call'[call'[d].after].session = call'[d].session
                    /\ call'[call'[d].after].phase # "none"
               /\ \A e \in Calls :
                    (call'[d].after < e /\ e < d /\ call'[e].session = call'[d].session)
                      => call'[e].phase = "done"
    <3>1. call'[d] = call[d] /\ call[d].phase = "queued"
      BY <1>3, <2>2
    <3>2. /\ call[d].after < d
          /\ call[d].after # 0 =>
               /\ call[call[d].after].session = call[d].session
               /\ call[call[d].after].phase # "none"
          /\ \A e \in Calls :
               (call[d].after < e /\ e < d /\ call[e].session = call[d].session)
                 => call[e].phase = "done"
      BY <1>1, <3>1 DEF Chained
    <3> QED
      BY <1>3, <2>1, <3>1, <3>2
  <2>3. \A d, e \in Calls : e < d /\ call'[e].phase = "none" => call'[d].phase = "none"
    BY <1>1, <1>3 DEF Chained
  <2>4. \A t \in Sessions :
          /\ tail'[t] # 0 => /\ call'[tail'[t]].session = t
                             /\ call'[tail'[t]].phase \notin {"none", "done"}
          /\ \A d \in Calls :
               call'[d].session = t /\ tail'[t] < d => call'[d].phase \in {"none", "done"}
    <3>1. \A t \in Sessions : tail'[t] = tail[t] /\ tail[t] \in 0 .. MaxCalls
      BY <1>1
    <3> QED
      BY <1>1, <1>3, <3>1 DEF Chained
  <2> QED
    BY <2>2, <2>3, <2>4 DEF Chained
<1> QED
  BY <1>1, <1>5, <1>6 DEF Ordered

\* A call leaves, having had its turn.
LEMMA LeaveOrders ==
  ASSUME Ordered, NEW c \in Calls, Turn(c) \/ call[c].phase \in Working,
         call' = [call EXCEPT ![c] = Ended(call[c])], tail' = Released(c)
  PROVE  Ordered'
<1>1. /\ call \in [Calls -> Call] /\ tail \in [Sessions -> 0 .. MaxCalls]
      /\ Chained /\ InOrder /\ call[c] \in Call
  BY DEF Ordered
<1>2. call[c].phase \notin {"none", "done"}
  BY DEF Turn, Working
<1>3. /\ call' \in [Calls -> Call]
      /\ \A d \in Calls : d # c => call'[d] = call[d]
      /\ call'[c].session = call[c].session /\ call'[c].phase = "done"
  BY <1>1, NoCallTyped, EndedFields
<1>4. /\ tail' \in [Sessions -> 0 .. MaxCalls]
      /\ \A t \in Sessions : tail'[t] = IF tail[t] = c /\ t = call[c].session THEN 0 ELSE tail[t]
  BY <1>1 DEF Released, Call
<1>5. \A d \in Calls : (d < c /\ call[d].session = call[c].session) => call[d].phase = "done"
  BY EarlierDone
<1>6. \A d \in Calls : /\ call'[d].session = call[d].session
                       /\ call'[d].phase = "none" <=> call[d].phase = "none"
                       /\ call[d].phase = "done" => call'[d].phase = "done"
                       /\ call'[d].phase = "queued" => d # c
  BY <1>2, <1>3
<1>7. InOrder'
  BY <1>1, <1>3, <1>5, <1>6 DEF InOrder
<1>8. Chained'
  <2>1. \A d \in Calls : call[d].after \in 0 .. MaxCalls
    BY <1>1 DEF Call
  <2>2. ASSUME NEW d \in Calls, call'[d].phase = "queued"
        PROVE  /\ call'[d].after < d
               /\ call'[d].after # 0 =>
                    /\ call'[call'[d].after].session = call'[d].session
                    /\ call'[call'[d].after].phase # "none"
               /\ \A e \in Calls :
                    (call'[d].after < e /\ e < d /\ call'[e].session = call'[d].session)
                      => call'[e].phase = "done"
    <3>1. call'[d] = call[d] /\ call[d].phase = "queued"
      BY <1>3, <1>6, <2>2
    <3>2. /\ call[d].after < d
          /\ call[d].after # 0 =>
               /\ call[call[d].after].session = call[d].session
               /\ call[call[d].after].phase # "none"
          /\ \A e \in Calls :
               (call[d].after < e /\ e < d /\ call[e].session = call[d].session)
                 => call[e].phase = "done"
      BY <1>1, <3>1 DEF Chained
    <3> QED
      BY <1>6, <2>1, <3>1, <3>2
  <2>3. \A d, e \in Calls : e < d /\ call'[e].phase = "none" => call'[d].phase = "none"
    BY <1>1, <1>6 DEF Chained
  <2>4. ASSUME NEW t \in Sessions
        PROVE  /\ tail'[t] # 0 => /\ call'[tail'[t]].session = t
                                  /\ call'[tail'[t]].phase \notin {"none", "done"}
               /\ \A d \in Calls :
                    call'[d].session = t /\ tail'[t] < d => call'[d].phase \in {"none", "done"}
    <3>1. tail[t] \in 0 .. MaxCalls
      BY <1>1
    <3>2. /\ tail[t] # 0 => /\ call[tail[t]].session = t
                            /\ call[tail[t]].phase \notin {"none", "done"}
          /\ \A d \in Calls :
               call[d].session = t /\ tail[t] < d => call[d].phase \in {"none", "done"}
      BY <1>1 DEF Chained
    <3>3. CASE tail[t] = c
      <4>1. tail'[t] = 0 /\ call[c].session = t
        BY <1>4, <3>2, <3>3
      <4>2. \A d \in Calls : call[d].session = t /\ d # c => call[d].phase \in {"none", "done"}
        BY <1>5, <3>2, <3>3, <4>1
      <4> QED
        BY <1>3, <1>6, <4>1, <4>2
    <3>4. CASE tail[t] # c
      BY <1>3, <1>4, <1>6, <3>1, <3>2, <3>4
    <3> QED
      BY <3>3, <3>4
  <2> QED
    BY <2>2, <2>3, <2>4 DEF Chained
<1> QED
  BY <1>3, <1>4, <1>7, <1>8 DEF Ordered

-----------------------------------------------------------------------------
(* One session at a time.                                                  *)

\* What IInv says of a session, its calls and its state.
Sound(s) ==
  /\ barrier[s] # 0 => /\ call[barrier[s]].session = s
                       /\ call[barrier[s]].phase \in Working
                       /\ call[barrier[s]].creates
  /\ file[s] \subseteq AcceptedCalls
  /\ order[s] = 0 => content[s] = {}
  /\ (order[s] # 0 /\ \A c \in Calls : ~(call[c].session = s /\ call[c].phase \in Working)) =>
       file[s] \subseteq content[s] /\ content[s] \subseteq AcceptedCalls
  /\ \A c \in Calls : call[c].session = s =>
       /\ call[c].phase \in {"none", "queued", "done"} => ~call[c].creates
       /\ call[c].phase \in {"none", "done"} => ~call[c].found
       /\ call[c].creates => barrier[s] = c /\ call[c].entry = "open"
       /\ call[c].found => barrier[s] = 0
       /\ call[c].phase \in Working \/ call[c].found => order[s] # 0
       /\ (call[c].phase \in {"loading", "operating"} /\ ~call[c].creates) =>
            file[s] \subseteq call[c].before /\ call[c].before \subseteq AcceptedCalls
       /\ (call[c].phase \in {"loading", "operating"} /\ call[c].creates) => call[c].before = {}
       /\ call[c].phase = "loading" => content[s] = call[c].before /\ call[c].entry = "open"
       /\ call[c].phase = "operating" /\ call[c].entry = "live" => call[c].accepted
       /\ call[c].phase = "operating" =>
            content[s] = {c} \cup IF call[c].creates THEN file[s] ELSE call[c].before
       /\ call[c].phase = "saving" =>
            file[s] \subseteq content[s] /\ content[s] \subseteq AcceptedCalls

LEMMA SoundAll ==
  ASSUME TypeOK
  PROVE  (Opened /\ BarrierIsHeld /\ GuardedIsRegistered /\ Staged)
           <=> \A s \in Sessions : Sound(s)
<1>1. \A c \in Calls : call[c].session \in Sessions /\ call[c].phase \in Phase
  BY PhasesOfCall
<1>2. \A s \in Sessions : barrier[s] \in 0 .. MaxCalls
  BY DEF TypeOK
<1>3. ASSUME NEW s \in Sessions
      PROVE  /\ s \in InMemory <=> order[s] # 0
             /\ Executing(call, s) <=>
                  \E c \in Calls : call[c].session = s /\ call[c].phase \in Working
  BY <1>1 DEF InMemory, Executing, Phase, Working
<1>4. ASSUME Opened, BarrierIsHeld, GuardedIsRegistered, Staged, NEW s \in Sessions
      PROVE  Sound(s)
  <2>1. /\ barrier[s] # 0 => /\ call[barrier[s]].session = s
                             /\ call[barrier[s]].phase \in Working
                             /\ call[barrier[s]].creates
    BY <1>4, <1>2 DEF Opened, BarrierIsHeld, Working
  <2>2. /\ file[s] \subseteq AcceptedCalls
        /\ order[s] = 0 => content[s] = {}
        /\ (order[s] # 0 /\ \A c \in Calls : ~(call[c].session = s /\ call[c].phase \in Working)) =>
             file[s] \subseteq content[s] /\ content[s] \subseteq AcceptedCalls
    BY <1>4, <1>3 DEF Staged
  <2>3. \A c \in Calls : call[c].session = s =>
          /\ call[c].phase \in {"none", "queued", "done"} => ~call[c].creates
          /\ call[c].phase \in {"none", "done"} => ~call[c].found
          /\ call[c].creates => barrier[s] = c /\ call[c].entry = "open"
          /\ call[c].found => barrier[s] = 0
          /\ call[c].phase \in Working \/ call[c].found => order[s] # 0
    BY <1>4, <1>3 DEF Opened, GuardedIsRegistered, Working
  <2>4. \A c \in Calls : call[c].session = s =>
          /\ (call[c].phase \in {"loading", "operating"} /\ ~call[c].creates) =>
               file[s] \subseteq call[c].before /\ call[c].before \subseteq AcceptedCalls
          /\ (call[c].phase \in {"loading", "operating"} /\ call[c].creates) => call[c].before = {}
          /\ call[c].phase = "loading" => content[s] = call[c].before /\ call[c].entry = "open"
          /\ call[c].phase = "operating" /\ call[c].entry = "live" => call[c].accepted
          /\ call[c].phase = "operating" =>
               content[s] = {c} \cup IF call[c].creates THEN file[s] ELSE call[c].before
          /\ call[c].phase = "saving" =>
               file[s] \subseteq content[s] /\ content[s] \subseteq AcceptedCalls
    BY <1>4 DEF Staged
  <2> QED
    BY <2>1, <2>2, <2>3, <2>4 DEF Sound
<1>5. ASSUME \A s \in Sessions : Sound(s)
      PROVE  Opened /\ BarrierIsHeld /\ GuardedIsRegistered /\ Staged
  <2>1. Opened
    BY <1>1, <1>5 DEF Opened, Sound
  <2>2. BarrierIsHeld
    BY <1>5 DEF BarrierIsHeld, Sound, Working
  <2>3. GuardedIsRegistered
    BY <1>1, <1>3, <1>5 DEF GuardedIsRegistered, Sound, Working
  <2>4. \A s \in Sessions :
          /\ file[s] \subseteq AcceptedCalls
          /\ s \notin InMemory => content[s] = {}
          /\ (s \in InMemory /\ ~Executing(call, s)) =>
               file[s] \subseteq content[s] /\ content[s] \subseteq AcceptedCalls
    BY <1>3, <1>5 DEF Sound
  <2>5. ASSUME NEW c \in Calls
        PROVE  LET s == call[c].session IN
               /\ (call[c].phase \in {"loading", "operating"} /\ ~call[c].creates) =>
                    file[s] \subseteq call[c].before /\ call[c].before \subseteq AcceptedCalls
               /\ (call[c].phase \in {"loading", "operating"} /\ call[c].creates) => call[c].before = {}
               /\ call[c].phase = "loading" => content[s] = call[c].before /\ call[c].entry = "open"
               /\ call[c].phase = "operating" /\ call[c].entry = "live" => call[c].accepted
               /\ call[c].phase = "operating" =>
                    content[s] = {c} \cup IF call[c].creates THEN file[s] ELSE call[c].before
               /\ call[c].phase = "saving" =>
                    file[s] \subseteq content[s] /\ content[s] \subseteq AcceptedCalls
    BY <1>1, <1>5 DEF Sound
  <2> QED
    BY <2>1, <2>2, <2>3, <2>4, <2>5 DEF Staged
<1> QED
  BY <1>4, <1>5

\* A session that a step has evicted.
LEMMA EvictedIsSound ==
  ASSUME NEW s \in Sessions, \A c \in Calls : call'[c].phase \in Phase,
         Idle(call', barrier', s), order'[s] = 0, content'[s] = {},
         file'[s] \subseteq AcceptedCalls',
         \A c \in Calls : call'[c].session = s /\ call'[c].phase \in {"none", "done"} =>
           ~call'[c].creates /\ ~call'[c].found
  PROVE  Sound(s)'
<1>1. barrier'[s] = 0
  BY DEF Idle
<1>2. \A c \in Calls : call'[c].session = s => call'[c].phase \in {"none", "done"}
  BY DEF Idle, Guarded
<1> QED
  BY <1>1, <1>2 DEF Sound, Working

\* A step of a call leaves the other sessions alone, or evicts them.
LEMMA OtherSessions ==
  ASSUME NEW s \in Sessions, NEW c \in Calls, NEW t \in Sessions, t # s,
         Sound(t), \A d \in Calls : call'[d].phase \in Phase,
         \A d \in Calls : d # c => call'[d] = call[d],
         call'[c].session = s, call[c].session = s \/ call[c].phase = "none",
         AcceptedCalls \subseteq AcceptedCalls',
         barrier[t] \in 0 .. MaxCalls,
         barrier'[t] = barrier[t], file'[t] = file[t],
         \/ (order'[t] # 0 <=> order[t] # 0) /\ content'[t] = content[t]
         \/ Idle(call', barrier', t) /\ order'[t] = 0 /\ content'[t] = {}
  PROVE  Sound(t)'
<1>1. \A d \in Calls : call'[d].session = t => call'[d] = call[d]
  OBVIOUS
<1>2. \A d \in Calls : (call[d].session = t /\ call[d].phase \in Working) => call'[d] = call[d]
  BY DEF Working
<1>3. file'[t] \subseteq AcceptedCalls'
  BY DEF Sound
<1>4. CASE Idle(call', barrier', t) /\ order'[t] = 0 /\ content'[t] = {}
  <2>1. \A d \in Calls : call'[d].session = t /\ call'[d].phase \in {"none", "done"} =>
           ~call'[d].creates /\ ~call'[d].found
    BY <1>1 DEF Sound
  <2> QED
    BY <1>3, <1>4, <2>1, EvictedIsSound
<1>5. CASE (order'[t] # 0 <=> order[t] # 0) /\ content'[t] = content[t]
  <2>1. barrier'[t] # 0 => /\ call'[barrier'[t]].session = t
                           /\ call'[barrier'[t]].phase \in Working
                           /\ call'[barrier'[t]].creates
    BY <1>2 DEF Sound
  <2>2. /\ order'[t] = 0 => content'[t] = {}
        /\ (order'[t] # 0 /\ \A d \in Calls : ~(call'[d].session = t /\ call'[d].phase \in Working)) =>
             file'[t] \subseteq content'[t] /\ content'[t] \subseteq AcceptedCalls'
    BY <1>2, <1>5 DEF Sound
  <2>3. ASSUME NEW d \in Calls, call'[d].session = t
        PROVE
       /\ call'[d].phase \in {"none", "queued", "done"} => ~call'[d].creates
       /\ call'[d].phase \in {"none", "done"} => ~call'[d].found
       /\ call'[d].creates => barrier'[t] = d /\ call'[d].entry = "open"
       /\ call'[d].found => barrier'[t] = 0
       /\ call'[d].phase \in Working \/ call'[d].found => order'[t] # 0
       /\ (call'[d].phase \in {"loading", "operating"} /\ ~call'[d].creates) =>
            file'[t] \subseteq call'[d].before /\ call'[d].before \subseteq AcceptedCalls'
       /\ (call'[d].phase \in {"loading", "operating"} /\ call'[d].creates) => call'[d].before = {}
       /\ call'[d].phase = "loading" => content'[t] = call'[d].before /\ call'[d].entry = "open"
       /\ call'[d].phase = "operating" /\ call'[d].entry = "live" => call'[d].accepted
       /\ call'[d].phase = "operating" =>
            content'[t] = {d} \cup IF call'[d].creates THEN file'[t] ELSE call'[d].before
       /\ call'[d].phase = "saving" =>
            file'[t] \subseteq content'[t] /\ content'[t] \subseteq AcceptedCalls'
    <3>1. call'[d] = call[d] /\ call[d].session = t
      BY <1>1, <2>3
    <3> QED
      BY <1>5, <3>1 DEF Sound
  <2> QED
    BY <1>3, <2>1, <2>2, <2>3 DEF Sound
<1> QED
  BY <1>4, <1>5

\* The session a call works on, given that the others queued on it found it open
\* only if it still is.
LEMMA OwnSession ==
  ASSUME NEW s \in Sessions, NEW c \in Calls, Sound(s),
         call[c].session = s, call'[c].session = s,
         \A d \in Calls : d # c => call'[d] = call[d],
         \A d \in Calls : d # c /\ call[d].session = s => call[d].phase \in {"none", "queued", "done"},
         file'[s] \subseteq AcceptedCalls', order'[s] = 0 => content'[s] = {},
         barrier'[s] # 0 => barrier'[s] = c /\ call'[c].creates /\ call'[c].phase \in Working,
         (\E d \in Calls : d # c /\ call[d].session = s /\ call[d].found)
           => barrier'[s] = 0 /\ order'[s] # 0,
         (order'[s] # 0 /\ call'[c].phase \notin Working) =>
           file'[s] \subseteq content'[s] /\ content'[s] \subseteq AcceptedCalls',
         call'[c].phase \in Working \cup {"done"},
         call'[c].phase = "done" => ~call'[c].creates /\ ~call'[c].found,
         call'[c].found => barrier'[s] = 0 /\ order'[s] # 0,
         call'[c].creates => barrier'[s] = c /\ call'[c].entry = "open",
         call'[c].phase \in Working => order'[s] # 0,
         (call'[c].phase \in {"loading", "operating"} /\ ~call'[c].creates) =>
            file'[s] \subseteq call'[c].before /\ call'[c].before \subseteq AcceptedCalls',
         (call'[c].phase \in {"loading", "operating"} /\ call'[c].creates) => call'[c].before = {},
         call'[c].phase = "loading" => content'[s] = call'[c].before /\ call'[c].entry = "open",
         call'[c].phase = "operating" /\ call'[c].entry = "live" => call'[c].accepted,
         call'[c].phase = "operating" =>
            content'[s] = {c} \cup IF call'[c].creates THEN file'[s] ELSE call'[c].before,
         call'[c].phase = "saving" =>
            file'[s] \subseteq content'[s] /\ content'[s] \subseteq AcceptedCalls'
  PROVE  Sound(s)'
<1>1. \A d \in Calls : (d # c /\ call'[d].session = s) =>
        /\ call'[d].phase \in {"none", "queued", "done"} /\ ~call'[d].creates
        /\ call'[d].phase \in {"none", "done"} => ~call'[d].found
        /\ call'[d].found => barrier'[s] = 0 /\ order'[s] # 0
  BY DEF Sound
<1>2. (\A d \in Calls : ~(call'[d].session = s /\ call'[d].phase \in Working))
        => call'[c].phase \notin Working
  OBVIOUS
<1>3. barrier'[s] # 0 => /\ call'[barrier'[s]].session = s
                         /\ call'[barrier'[s]].phase \in Working
                         /\ call'[barrier'[s]].creates
  OBVIOUS
<1>4. ASSUME NEW d \in Calls, call'[d].session = s
      PROVE
       /\ call'[d].phase \in {"none", "queued", "done"} => ~call'[d].creates
       /\ call'[d].phase \in {"none", "done"} => ~call'[d].found
       /\ call'[d].creates => barrier'[s] = d /\ call'[d].entry = "open"
       /\ call'[d].found => barrier'[s] = 0
       /\ call'[d].phase \in Working \/ call'[d].found => order'[s] # 0
       /\ (call'[d].phase \in {"loading", "operating"} /\ ~call'[d].creates) =>
            file'[s] \subseteq call'[d].before /\ call'[d].before \subseteq AcceptedCalls'
       /\ (call'[d].phase \in {"loading", "operating"} /\ call'[d].creates) => call'[d].before = {}
       /\ call'[d].phase = "loading" => content'[s] = call'[d].before /\ call'[d].entry = "open"
       /\ call'[d].phase = "operating" /\ call'[d].entry = "live" => call'[d].accepted
       /\ call'[d].phase = "operating" =>
            content'[s] = {d} \cup IF call'[d].creates THEN file'[s] ELSE call'[d].before
       /\ call'[d].phase = "saving" =>
            file'[s] \subseteq content'[s] /\ content'[s] \subseteq AcceptedCalls'
  <2>1. CASE d = c
    BY <2>1 DEF Working
  <2>2. CASE d # c
    BY <1>1, <1>4, <2>2 DEF Working
  <2> QED
    BY <2>1, <2>2
<1> QED
  BY <1>2, <1>3, <1>4 DEF Sound

\* What enforceSoftCap leaves of a session: nothing, or what there was.
LEMMA KeptOrIdle ==
  ASSUME NEW places \in [Sessions -> Nat], NEW contents \in [Sessions -> SUBSET Calls],
         Enforced(places, contents), NEW t \in Sessions
  PROVE  \/ Idle(call', barrier', t) /\ order'[t] = 0 /\ content'[t] = {}
         \/ (order'[t] # 0 <=> places[t] # 0) /\ content'[t] = contents[t]
<1>1. PICK gone \in SUBSET Sessions :
           /\ \A s \in gone : Idle(call', barrier', s) /\ places[s] # 0
           /\ order' \in [Sessions -> Nat]
           /\ InMemory' = {s \in Sessions : places[s] # 0} \ gone
           /\ content' = [s \in Sessions |-> IF s \in gone THEN {} ELSE contents[s]]
           /\ content' \in [Sessions -> SUBSET Calls]
  BY EnforcedDropsIdle
<1>2. order'[t] # 0 <=> places[t] # 0 /\ t \notin gone
  BY <1>1 DEF InMemory
<1> QED
  BY <1>1, <1>2

\* What a step that ends in enforceSoftCap leaves.
LEMMA AfterEnforced ==
  ASSUME TypeOK, \A t \in Sessions : Sound(t),
         NEW s \in Sessions, NEW c \in Calls,
         NEW places \in [Sessions -> Nat], NEW contents \in [Sessions -> SUBSET Calls],
         call' \in [Calls -> Call], \A d \in Calls : d # c => call'[d] = call[d],
         call'[c].session = s, call[c].session = s \/ call[c].phase = "none",
         AcceptedCalls \subseteq AcceptedCalls',
         \A t \in Sessions : t # s =>
           /\ barrier'[t] = barrier[t] /\ file'[t] = file[t]
           /\ (places[t] # 0 <=> order[t] # 0) /\ contents[t] = content[t],
         Enforced(places, contents)
  PROVE  /\ order' \in [Sessions -> Nat] /\ content' \in [Sessions -> SUBSET Calls]
         /\ \A t \in Sessions : t # s => Sound(t)'
<1>1. order' \in [Sessions -> Nat] /\ content' \in [Sessions -> SUBSET Calls]
  BY EnforcedDropsIdle
<1>2. \A t \in Sessions :
        \/ Idle(call', barrier', t) /\ order'[t] = 0 /\ content'[t] = {}
        \/ (order'[t] # 0 <=> places[t] # 0) /\ content'[t] = contents[t]
  BY KeptOrIdle
<1>3. \A d \in Calls : call'[d].phase \in Phase
  BY DEF Call
<1>4. \A t \in Sessions : barrier[t] \in 0 .. MaxCalls
  BY DEF TypeOK
<1>5. ASSUME NEW t \in Sessions, t # s
      PROVE  Sound(t)'
  BY SMTT(30), <1>2, <1>3, <1>4, <1>5, OtherSessions
<1> QED
  BY <1>1, <1>5

\* A call ends, with its session's state as it must be left.
LEMMA LeaveIsSound ==
  ASSUME TypeOK, Ordered, \A t \in Sessions : Sound(t),
         NEW c \in Calls, Turn(c) \/ call[c].phase \in Working,
         NEW s \in Sessions, s = call[c].session,
         NEW places \in [Sessions -> Nat], NEW contents \in [Sessions -> SUBSET Calls],
         Leave(c, places, contents),
         \A t \in Sessions : t # s =>
           /\ barrier'[t] = barrier[t] /\ file'[t] = file[t]
           /\ (places[t] # 0 <=> order[t] # 0) /\ contents[t] = content[t],
         barrier'[s] = 0, file'[s] \subseteq AcceptedCalls,
         places[s] = 0 => contents[s] = {},
         (\E d \in Calls : d # c /\ call[d].session = s /\ call[d].found) => places[s] # 0,
         places[s] # 0 => file'[s] \subseteq contents[s] /\ contents[s] \subseteq AcceptedCalls
  PROVE  /\ Ordered' /\ order' \in [Sessions -> Nat] /\ content' \in [Sessions -> SUBSET Calls]
         /\ \A t \in Sessions : Sound(t)'
<1>1. /\ call' = [call EXCEPT ![c] = Ended(call[c])] /\ tail' = Released(c)
      /\ Enforced(places, contents) /\ call \in [Calls -> Call] /\ call[c] \in Call
  BY DEF Leave, TypeOK
<1>2. Ordered'
  BY <1>1, LeaveOrders
<1>3. /\ call' \in [Calls -> Call] /\ \A d \in Calls : d # c => call'[d] = call[d]
      /\ call'[c].session = s /\ call'[c].phase = "done" /\ call'[c].accepted = call[c].accepted
      /\ ~call'[c].creates /\ ~call'[c].found
  BY <1>1, NoCallTyped, EndedFields
<1>4. AcceptedCalls' = AcceptedCalls
  BY <1>3 DEF AcceptedCalls
<1>5. /\ order' \in [Sessions -> Nat] /\ content' \in [Sessions -> SUBSET Calls]
      /\ \A t \in Sessions : t # s => Sound(t)'
      /\ \/ Idle(call', barrier', s) /\ order'[s] = 0 /\ content'[s] = {}
         \/ (order'[s] # 0 <=> places[s] # 0) /\ content'[s] = contents[s]
  <2>1. AcceptedCalls \subseteq AcceptedCalls' /\ call[c].session = s
    BY <1>4
  <2>2. call' \in [Calls -> Call] /\ call'[c].session = s /\ Enforced(places, contents)
    BY <1>1, <1>3
  <2>3. \A d \in Calls : d # c => call'[d] = call[d]
    BY <1>3
  <2>4. \A t \in Sessions : t # s =>
          /\ barrier'[t] = barrier[t] /\ file'[t] = file[t]
          /\ (places[t] # 0 <=> order[t] # 0) /\ contents[t] = content[t]
    OBVIOUS
  <2>5. call[c].session = s \/ call[c].phase = "none"
    BY <2>1
  <2>6. order' \in [Sessions -> Nat] /\ content' \in [Sessions -> SUBSET Calls]
    BY <2>1, <2>2, <2>3, <2>4, <2>5, AfterEnforced
  <2>7. \A t \in Sessions : t # s => Sound(t)'
    BY <2>1, <2>2, <2>3, <2>4, <2>5, AfterEnforced
  <2>8. \/ Idle(call', barrier', s) /\ order'[s] = 0 /\ content'[s] = {}
        \/ (order'[s] # 0 <=> places[s] # 0) /\ content'[s] = contents[s]
    BY <2>2, KeptOrIdle
  <2> QED
    BY <2>6, <2>7, <2>8
<1>6. \A d \in Calls : d # c /\ call[d].session = s => call[d].phase \in {"none", "queued", "done"}
  BY OthersIdle
<1>7. CASE Idle(call', barrier', s) /\ order'[s] = 0 /\ content'[s] = {}
  <2>1. \A d \in Calls : call'[d].session = s /\ call'[d].phase \in {"none", "done"} =>
           ~call'[d].creates /\ ~call'[d].found
    BY SMTT(30), <1>3 DEF Sound
  <2>2. \A d \in Calls : call'[d].phase \in Phase
    BY <1>3 DEF Call
  <2>3. Sound(s)'
    BY <1>4, <1>7, <2>1, <2>2, EvictedIsSound
  <2> QED
    BY <1>2, <1>5, <2>3
<1>8. CASE (order'[s] # 0 <=> places[s] # 0) /\ content'[s] = contents[s]
  <2>1. Sound(s)
    OBVIOUS
  <2>2. /\ call'[c].phase \notin Working /\ call'[c].phase \in Working \cup {"done"}
        /\ call'[c].phase \notin {"loading", "operating"}
        /\ call'[c].phase # "loading" /\ call'[c].phase # "operating" /\ call'[c].phase # "saving"
    BY <1>3 DEF Working
  <2>3. /\ file'[s] \subseteq AcceptedCalls' /\ (order'[s] = 0 => content'[s] = {})
        /\ (\E d \in Calls : d # c /\ call[d].session = s /\ call[d].found)
             => barrier'[s] = 0 /\ order'[s] # 0
        /\ (order'[s] # 0 /\ call'[c].phase \notin Working) =>
             file'[s] \subseteq content'[s] /\ content'[s] \subseteq AcceptedCalls'
    BY <1>4, <1>8
  <2>4. Sound(s)'
    BY ZenonT(40), <1>3, <1>6, <2>1, <2>2, <2>3, OwnSession
  <2> QED
    BY <1>2, <1>5, <2>4
<1> QED
  BY <1>5, <1>7, <1>8

-----------------------------------------------------------------------------
(* The steps.                                                              *)

Sane == TypeOK /\ Ordered /\ \A s \in Sessions : Sound(s)

LEMMA ReserveIsSane ==
  ASSUME Sane, NEW s \in Sessions, NEW entry \in Entry, Reserve(s, entry)
  PROVE  Sane'
<1>1. PICK c \in Calls :
        /\ call[c].phase = "none" /\ \A d \in Calls : d < c => call[d].phase # "none"
        /\ call' = [call EXCEPT ![c].session = s, ![c].entry = entry,
                                ![c].phase = "queued", ![c].after = tail[s],
                                ![c].found = s \in InMemory /\ barrier[s] = 0]
  BY DEF Reserve
<1>2. TypeOK /\ Ordered /\ \A t \in Sessions : Sound(t)
  BY DEF Sane
<1>3. Ordered'
  BY <1>2, ReserveOrders
<1>4. /\ order \in [Sessions -> Nat] /\ content \in [Sessions -> SUBSET Calls]
      /\ call \in [Calls -> Call] /\ call' \in [Calls -> Call]
  BY <1>2, <1>3 DEF TypeOK, Ordered
<1>5. /\ call'[c].session = s /\ call'[c].phase = "queued"
      /\ call'[c].creates = call[c].creates /\ call'[c].accepted = call[c].accepted
      /\ call'[c].found = (s \in InMemory /\ barrier[s] = 0)
      /\ \A d \in Calls : d # c => call'[d] = call[d]
  BY <1>1, <1>4 DEF Call
<1>6. UNCHANGED <<barrier, file>> /\ Enforced(order, content)
  BY DEF Reserve
<1>7. AcceptedCalls' = AcceptedCalls
  BY <1>5 DEF AcceptedCalls
<1>8. ~call[c].creates
  BY <1>1, <1>2, <1>4 DEF Sound, Call
<1>9. ~Idle(call', barrier', s)
  BY <1>5 DEF Idle, Guarded
<1>10. (order'[s] # 0 <=> order[s] # 0) /\ content'[s] = content[s]
  BY <1>4, <1>6, <1>9, KeptOrIdle
<1>11. order' \in [Sessions -> Nat] /\ content' \in [Sessions -> SUBSET Calls]
  BY <1>4, <1>6, EnforcedDropsIdle
<1>12. ASSUME NEW t \in Sessions, t # s
       PROVE  Sound(t)'
  <2>1. \/ Idle(call', barrier', t) /\ order'[t] = 0 /\ content'[t] = {}
        \/ (order'[t] # 0 <=> order[t] # 0) /\ content'[t] = content[t]
    BY <1>4, <1>6, KeptOrIdle
  <2>2. (\A d \in Calls : call'[d].phase \in Phase) /\ barrier[t] \in 0 .. MaxCalls
    BY <1>2, <1>4 DEF Call, TypeOK
  <2> QED
    BY <1>1, <1>2, <1>5, <1>6, <1>7, <1>12, <2>1, <2>2, OtherSessions
<1>13. Sound(s)'
  <2>1. /\ Sound(s) /\ barrier'[s] = barrier[s] /\ file'[s] = file[s]
        /\ barrier[s] \in 0 .. MaxCalls
    BY <1>2, <1>6 DEF TypeOK
  <2>2. barrier'[s] # 0 => /\ call'[barrier'[s]].session = s
                           /\ call'[barrier'[s]].phase \in Working
                           /\ call'[barrier'[s]].creates
    <3>1. barrier[s] # 0 => /\ call[barrier[s]].session = s
                            /\ call[barrier[s]].phase \in Working
                            /\ call[barrier[s]].creates
      BY <2>1 DEF Sound
    <3>2. barrier[s] # 0 => barrier[s] # c
      BY <1>1, <3>1 DEF Working
    <3>3. barrier[s] # 0 => call'[barrier[s]] = call[barrier[s]]
      BY <1>5, <2>1, <3>2
    <3> QED
      BY <2>1, <3>1, <3>3
  <2>3. (\A d \in Calls : ~(call'[d].session = s /\ call'[d].phase \in Working))
          => \A d \in Calls : ~(call[d].session = s /\ call[d].phase \in Working)
    BY <1>1, <1>5 DEF Working
  <2>4. ASSUME NEW d \in Calls, call'[d].session = s
        PROVE
         /\ call'[d].phase \in {"none", "queued", "done"} => ~call'[d].creates
         /\ call'[d].phase \in {"none", "done"} => ~call'[d].found
         /\ call'[d].creates => barrier'[s] = d /\ call'[d].entry = "open"
         /\ call'[d].found => barrier'[s] = 0
         /\ call'[d].phase \in Working \/ call'[d].found => order'[s] # 0
         /\ (call'[d].phase \in {"loading", "operating"} /\ ~call'[d].creates) =>
              file'[s] \subseteq call'[d].before /\ call'[d].before \subseteq AcceptedCalls'
         /\ (call'[d].phase \in {"loading", "operating"} /\ call'[d].creates) => call'[d].before = {}
         /\ call'[d].phase = "loading" => content'[s] = call'[d].before /\ call'[d].entry = "open"
         /\ call'[d].phase = "operating" /\ call'[d].entry = "live" => call'[d].accepted
         /\ call'[d].phase = "operating" =>
              content'[s] = {d} \cup IF call'[d].creates THEN file'[s] ELSE call'[d].before
         /\ call'[d].phase = "saving" =>
              file'[s] \subseteq content'[s] /\ content'[s] \subseteq AcceptedCalls'
    <3>1. CASE d = c
      BY <1>5, <1>6, <1>8, <1>10, <2>1, <3>1 DEF InMemory, Working
    <3>2. CASE d # c
      <4>1. call'[d] = call[d] /\ call[d].session = s
        BY <1>5, <2>4, <3>2
      <4> QED
        BY <1>7, <1>10, <2>1, <4>1 DEF Sound
    <3> QED
      BY <3>1, <3>2
  <2> QED
    BY <1>7, <1>10, <2>1, <2>2, <2>3, <2>4 DEF Sound
<1>14. TypeOK'
  BY <1>2, <1>3, <1>6, <1>11 DEF TypeOK, Ordered
<1> QED
  BY <1>3, <1>12, <1>13, <1>14 DEF Sane

\* Its turn comes: nobody holds the barrier, and no work is in progress.
LEMMA TurnIsQuiet ==
  ASSUME Sane, NEW c \in Calls, Turn(c)
  PROVE  LET s == call[c].session IN
         /\ s \in Sessions /\ call[c] \in Call /\ barrier[s] = 0 /\ ~call[c].creates
         /\ order[s] # 0 => file[s] \subseteq content[s] /\ content[s] \subseteq AcceptedCalls
<1> DEFINE s == call[c].session
<1>1. TypeOK /\ Ordered /\ s \in Sessions /\ Sound(s) /\ call[c] \in Call
  BY PhasesOfCall DEF Sane
<1>2. call[c].phase = "queued"
  BY DEF Turn
<1>3. \A d \in Calls : call[d].session = s => call[d].phase \notin Working
  BY <1>1, <1>2, OthersIdle DEF Working
<1>4. barrier[s] \in 0 .. MaxCalls
  BY <1>1 DEF TypeOK
<1> QED
  BY <1>1, <1>2, <1>3, <1>4 DEF Sound

LEMMA StartOpenIsSane ==
  ASSUME Sane, NEW c \in Calls, StartOpen(c)
  PROVE  Sane'
<1>0. PICK s \in Sessions : s = call[c].session
  BY PhasesOfCall DEF Sane
<1> DEFINE creates == s \notin InMemory
           places == IF creates THEN Insert(s) ELSE order
<1>1. /\ TypeOK /\ Ordered /\ s \in Sessions /\ Sound(s) /\ \A t \in Sessions : Sound(t)
      /\ call[c] \in Call /\ Turn(c)
  BY <1>0, PhasesOfCall DEF Sane, StartOpen
<1>2. /\ call' = [call EXCEPT ![c].phase = "loading", ![c].creates = creates,
                              ![c].before = content[s]]
      /\ barrier' = IF creates THEN [barrier EXCEPT ![s] = c] ELSE barrier
      /\ UNCHANGED <<tail, file>>
      /\ Enforced(places, content)
  BY <1>0 DEF StartOpen
<1>3. /\ call \in [Calls -> Call] /\ order \in [Sessions -> Nat]
      /\ content \in [Sessions -> SUBSET Calls] /\ barrier \in [Sessions -> 0 .. MaxCalls]
      /\ file \in [Sessions -> SUBSET Calls]
  BY <1>1 DEF TypeOK
<1>4. /\ call'[c].session = s /\ call'[c].phase = "loading"
      /\ call'[c].creates = creates /\ call'[c].before = content[s]
      /\ call'[c].accepted = call[c].accepted /\ call'[c].found = call[c].found
      /\ call'[c].entry = call[c].entry /\ call[c].entry = "open"
      /\ \A d \in Calls : d # c => call'[d] = call[d]
  BY <1>0, <1>2, <1>3 DEF Call, StartOpen
<1>5. call' \in [Calls -> Call]
  <2>1. ASSUME NEW r \in Call, NEW b \in BOOLEAN, NEW before \in SUBSET Calls
        PROVE  [r EXCEPT !.phase = "loading", !.creates = b, !.before = before] \in Call
    BY DEF Call, Phase
  <2>2. creates \in BOOLEAN /\ content[s] \in SUBSET Calls
    BY <1>1, <1>3
  <2> QED
    BY <1>1, <1>2, <1>3, <2>1, <2>2
<1>6. /\ places \in [Sessions -> Nat] /\ places[s] # 0
      /\ \A t \in Sessions : t # s => (places[t] # 0 <=> order[t] # 0)
      /\ creates <=> order[s] = 0
  BY <1>1, <1>3, InsertsExactly DEF InMemory
<1>7. /\ barrier' \in [Sessions -> 0 .. MaxCalls]
      /\ barrier'[s] = IF creates THEN c ELSE barrier[s]
      /\ \A t \in Sessions : t # s => barrier'[t] = barrier[t]
  BY <1>1, <1>2, <1>3
<1>8. AcceptedCalls' = AcceptedCalls /\ file' = file
  BY <1>2, <1>4 DEF AcceptedCalls
<1>9. Ordered'
  BY <1>0, <1>1, <1>2, <1>4, <1>5, WorkOrders DEF Working
<1> HIDE DEF places, creates
<1>10. order' \in [Sessions -> Nat] /\ content' \in [Sessions -> SUBSET Calls]
  BY <1>2, <1>3, <1>6, EnforcedDropsIdle
<1>11. \A t \in Sessions : t # s => Sound(t)'
  <2>1. call[c].session = s \/ call[c].phase = "none"
    BY <1>0
  <2>2. \A t \in Sessions : t # s =>
           /\ barrier'[t] = barrier[t] /\ file'[t] = file[t]
           /\ (places[t] # 0 <=> order[t] # 0) /\ content[t] = content[t]
    BY <1>6, <1>7, <1>8
  <2>3. Enforced(places, content)
    BY <1>2
  <2> QED
    BY ZenonT(40), <1>1, <1>3, <1>4, <1>5, <1>6, <1>8, <2>1, <2>2, <2>3, AfterEnforced
<1>12. order'[s] # 0 /\ content'[s] = content[s]
  <2>1. ~Idle(call', barrier', s)
    BY <1>4 DEF Idle, Guarded
  <2>2. \/ Idle(call', barrier', s) /\ order'[s] = 0 /\ content'[s] = {}
        \/ (order'[s] # 0 <=> places[s] # 0) /\ content'[s] = content[s]
    <3>1. Enforced(places, content)
      BY <1>2
    <3>2. places \in [Sessions -> Nat] /\ content \in [Sessions -> SUBSET Calls]
      BY <1>3, <1>6
    <3>3. PICK at \in [Sessions -> Nat] : at = places /\ Enforced(at, content)
      BY <3>1, <3>2
    <3>4. \/ Idle(call', barrier', s) /\ order'[s] = 0 /\ content'[s] = {}
          \/ (order'[s] # 0 <=> at[s] # 0) /\ content'[s] = content[s]
      BY <3>2, <3>3, KeptOrIdle
    <3> QED
      BY <3>3, <3>4
  <2> QED
    BY <1>6, <2>1, <2>2
<1>13. /\ barrier[s] = 0 /\ ~call[c].creates /\ call[c].session = s
       /\ order[s] # 0 => file[s] \subseteq content[s] /\ content[s] \subseteq AcceptedCalls
  BY <1>0, <1>1, TurnIsQuiet
<1>14. /\ order[s] = 0 => content[s] = {}
       /\ file[s] \subseteq AcceptedCalls
       /\ \A d \in Calls : call[d].session = s /\ call[d].found => order[s] # 0
  BY <1>1 DEF Sound
<1>15. \A d \in Calls : d # c /\ call[d].session = s => call[d].phase \in {"none", "queued", "done"}
  BY <1>1, <1>13, OthersIdle
<1>16. Sound(s)'
  <2>1. /\ call'[c].phase \in Working /\ call'[c].phase \in Working \cup {"done"}
        /\ call'[c].phase # "done" /\ call'[c].phase # "operating" /\ call'[c].phase # "saving"
    BY <1>4 DEF Working
  <2>2. /\ barrier'[s] # 0 => barrier'[s] = c /\ call'[c].creates
        /\ call'[c].creates => barrier'[s] = c /\ call'[c].entry = "open"
        /\ call'[c].found => barrier'[s] = 0 /\ order'[s] # 0
        /\ (\E d \in Calls : d # c /\ call[d].session = s /\ call[d].found)
             => barrier'[s] = 0 /\ order'[s] # 0
    BY <1>4, <1>6, <1>7, <1>12, <1>13, <1>14
  <2>3. /\ ~call'[c].creates =>
             file'[s] \subseteq call'[c].before /\ call'[c].before \subseteq AcceptedCalls'
        /\ call'[c].creates => call'[c].before = {}
        /\ content'[s] = call'[c].before /\ call'[c].entry = "open"
    BY <1>4, <1>6, <1>8, <1>12, <1>13, <1>14
  <2> QED
    BY <1>1, <1>4, <1>8, <1>12, <1>13, <1>14, <1>15, <2>1, <2>2, <2>3, OwnSession
<1>17. TypeOK'
  BY <1>3, <1>5, <1>7, <1>8, <1>9, <1>10 DEF TypeOK, Ordered
<1> QED
  BY <1>9, <1>11, <1>16, <1>17 DEF Sane

\* A call that leaves undoes what it did, or drops what it opened.
LEMMA UndoIsSane ==
  ASSUME Sane, NEW c \in Calls, call[c].phase \in {"loading", "operating"}, Undo(c)
  PROVE  Sane'
<1> DEFINE s == call[c].session
           places == IF call[c].creates THEN Remove(s) ELSE order
<1>1. /\ TypeOK /\ Ordered /\ s \in Sessions /\ Sound(s) /\ \A t \in Sessions : Sound(t)
      /\ call[c] \in Call
  BY PhasesOfCall DEF Sane
<1>2. /\ barrier' = IF call[c].creates THEN [barrier EXCEPT ![s] = 0] ELSE barrier
      /\ Leave(c, places, Restored(c)) /\ file' = file
  BY DEF Undo, Lifted
<1>3. /\ call \in [Calls -> Call] /\ order \in [Sessions -> Nat]
      /\ content \in [Sessions -> SUBSET Calls] /\ barrier \in [Sessions -> 0 .. MaxCalls]
      /\ file \in [Sessions -> SUBSET Calls]
  BY <1>1 DEF TypeOK
<1>4. /\ Restored(c) \in [Sessions -> SUBSET Calls] /\ Restored(c)[s] = call[c].before
      /\ \A t \in Sessions : t # s => Restored(c)[t] = content[t]
  BY <1>1, <1>3 DEF Restored, Call
<1>5. /\ places \in [Sessions -> Nat]
      /\ \A t \in Sessions : t # s => (places[t] # 0 <=> order[t] # 0)
      /\ places[s] # 0 <=> (order[s] # 0 /\ ~call[c].creates)
  BY <1>1, <1>3, RemovesExactly DEF InMemory, Call
<1>6. /\ order[s] # 0
      /\ call[c].creates => barrier[s] = c /\ call[c].before = {}
      /\ ~call[c].creates => file[s] \subseteq call[c].before /\ call[c].before \subseteq AcceptedCalls
      /\ file[s] \subseteq AcceptedCalls
      /\ barrier[s] # 0 => call[barrier[s]].session = s /\ call[barrier[s]].phase \in Working
                           /\ call[barrier[s]].creates
      /\ \A d \in Calls : call[d].session = s /\ call[d].found => barrier[s] = 0
  BY <1>1 DEF Sound, Working
<1>7. call[c].phase \in Working
  BY DEF Working
<1>8. \A d \in Calls : d # c /\ call[d].session = s => call[d].phase \notin Working
  BY <1>1, <1>7, OthersIdle DEF Working
<1>9. barrier[s] \in 0 .. MaxCalls /\ (~call[c].creates => barrier[s] = 0)
  BY <1>1, <1>3, <1>6, <1>8
<1>10. /\ barrier' \in [Sessions -> 0 .. MaxCalls] /\ barrier'[s] = 0
       /\ \A t \in Sessions : t # s => barrier'[t] = barrier[t]
  BY <1>1, <1>2, <1>3, <1>9
<1> DEFINE contents == Restored(c)
<1>11. /\ places[s] = 0 => contents[s] = {}
       /\ (\E d \in Calls : d # c /\ call[d].session = s /\ call[d].found) => places[s] # 0
       /\ places[s] # 0 => file'[s] \subseteq contents[s] /\ contents[s] \subseteq AcceptedCalls
       /\ file'[s] \subseteq AcceptedCalls
  BY <1>2, <1>4, <1>5, <1>6
<1>12. \A t \in Sessions : t # s =>
           /\ barrier'[t] = barrier[t] /\ file'[t] = file[t]
           /\ (places[t] # 0 <=> order[t] # 0) /\ contents[t] = content[t]
  BY <1>2, <1>4, <1>5, <1>10
<1>13. contents \in [Sessions -> SUBSET Calls] /\ Leave(c, places, contents) /\ s = call[c].session
  BY <1>2, <1>4
<1> HIDE DEF s, places, contents
<1>14. /\ Ordered' /\ order' \in [Sessions -> Nat] /\ content' \in [Sessions -> SUBSET Calls]
       /\ \A t \in Sessions : Sound(t)'
  BY <1>1, <1>5, <1>7, <1>10, <1>11, <1>12, <1>13, LeaveIsSound
<1>15. TypeOK'
  BY <1>2, <1>3, <1>10, <1>14 DEF TypeOK, Ordered
<1> QED
  BY <1>14, <1>15 DEF Sane

LEMMA StartMutateIsSane ==
  ASSUME Sane, NEW c \in Calls, StartMutate(c)
  PROVE  Sane'
<1>0. PICK s \in Sessions : s = call[c].session
  BY PhasesOfCall DEF Sane
<1>1. /\ TypeOK /\ Ordered /\ Sound(s) /\ \A t \in Sessions : Sound(t)
      /\ call[c] \in Call /\ Turn(c) /\ barrier[s] = 0 /\ barrier' = barrier /\ file' = file
  BY <1>0, PhasesOfCall DEF Sane, StartMutate
<1>2. /\ call \in [Calls -> Call] /\ order \in [Sessions -> Nat]
      /\ content \in [Sessions -> SUBSET Calls] /\ barrier \in [Sessions -> 0 .. MaxCalls]
      /\ file \in [Sessions -> SUBSET Calls]
  BY <1>1 DEF TypeOK
<1>3. /\ ~call[c].creates /\ call[c].phase = "queued"
      /\ order[s] # 0 => file[s] \subseteq content[s] /\ content[s] \subseteq AcceptedCalls
  BY <1>0, <1>1, TurnIsQuiet DEF Turn
<1>4. /\ order[s] = 0 => content[s] = {}
      /\ file[s] \subseteq AcceptedCalls
      /\ \A d \in Calls : call[d].session = s /\ call[d].found => order[s] # 0
  BY <1>1 DEF Sound
<1>5. CASE s \in InMemory
  <2>1. /\ call' = [call EXCEPT ![c].phase = "operating", ![c].before = content[s],
                                ![c].accepted = @ \/ call[c].entry = "live"]
        /\ content' = [content EXCEPT ![s] = @ \cup {c}]
        /\ UNCHANGED <<tail, order>>
    BY <1>0, <1>5 DEF StartMutate
  <2>2. /\ call'[c].session = s /\ call'[c].phase = "operating"
        /\ ~call'[c].creates /\ call'[c].before = content[s]
        /\ call'[c].entry = call[c].entry /\ (call[c].entry = "live" => call'[c].accepted)
        /\ call'[c].found = call[c].found
        /\ \A d \in Calls : d # c => call'[d] = call[d]
    BY <1>0, <1>2, <1>3, <2>1 DEF Call
  <2>3. call' \in [Calls -> Call]
    <3>1. ASSUME NEW r \in Call, NEW before \in SUBSET Calls, NEW b \in BOOLEAN
          PROVE  [r EXCEPT !.phase = "operating", !.before = before, !.accepted = b] \in Call
      BY DEF Call, Phase
    <3>2. (call[c].accepted \/ call[c].entry = "live") \in BOOLEAN
      OBVIOUS
    <3> QED
      BY <1>1, <1>2, <2>1, <3>1, <3>2
  <2>4. /\ content' \in [Sessions -> SUBSET Calls] /\ content'[s] = content[s] \cup {c}
        /\ \A t \in Sessions : t # s => content'[t] = content[t]
    BY <1>2, <2>1
  <2>5. AcceptedCalls \subseteq AcceptedCalls' /\ order' = order
    <3>1. call[c].accepted => call'[c].accepted
      BY <1>2, <2>1 DEF Call
    <3> QED
      BY <2>1, <2>2, <3>1 DEF AcceptedCalls
  <2>6. Ordered'
    BY <1>0, <1>1, <2>1, <2>2, <2>3, WorkOrders DEF Working
  <2>7. ASSUME NEW t \in Sessions, t # s
        PROVE  Sound(t)'
    <3>1. (\A d \in Calls : call'[d].phase \in Phase) /\ barrier[t] \in 0 .. MaxCalls
      BY <1>2, <2>3 DEF Call
    <3> QED
      BY <1>0, <1>1, <2>2, <2>4, <2>5, <2>7, <3>1, OtherSessions
  <2>8. Sound(s)'
    <3>1. /\ order'[s] # 0 /\ barrier'[s] = 0 /\ file'[s] = file[s]
      BY <1>1, <1>5, <2>5 DEF InMemory
    <3>2. \A d \in Calls : d # c /\ call[d].session = s => call[d].phase \in {"none", "queued", "done"}
      BY <1>0, <1>1, OthersIdle
    <3>3. /\ call'[c].phase \in Working /\ call'[c].phase \in Working \cup {"done"}
          /\ call'[c].phase # "done" /\ call'[c].phase # "loading" /\ call'[c].phase # "saving"
      BY <2>2 DEF Working
    <3>4. content'[s] = {c} \cup IF call'[c].creates THEN file'[s] ELSE call'[c].before
      BY <2>2, <2>4
    <3>5. file'[s] \subseteq call'[c].before /\ call'[c].before \subseteq AcceptedCalls'
      BY <1>3, <2>2, <2>5, <3>1
    <3> QED
      BY <1>0, <1>1, <1>4, <2>2, <2>5, <3>1, <3>2, <3>3, <3>4, <3>5, OwnSession
  <2>9. TypeOK'
    BY <1>1, <1>2, <2>4, <2>5, <2>6 DEF TypeOK, Ordered
  <2> QED
    BY <2>6, <2>7, <2>8, <2>9 DEF Sane
<1>6. CASE s \notin InMemory
  <2>1. Leave(c, order, content)
    BY <1>0, <1>6 DEF StartMutate
  <2>2. order[s] = 0
    BY <1>6 DEF InMemory
  <2>3. /\ \A t \in Sessions : t # s =>
             /\ barrier'[t] = barrier[t] /\ file'[t] = file[t]
             /\ (order[t] # 0 <=> order[t] # 0) /\ content[t] = content[t]
        /\ barrier'[s] = 0 /\ file'[s] \subseteq AcceptedCalls
        /\ order[s] = 0 => content[s] = {}
        /\ (\E d \in Calls : d # c /\ call[d].session = s /\ call[d].found) => order[s] # 0
        /\ order[s] # 0 => file'[s] \subseteq content[s] /\ content[s] \subseteq AcceptedCalls
    BY <1>1, <1>4, <2>2
  <2>4. /\ Ordered' /\ order' \in [Sessions -> Nat] /\ content' \in [Sessions -> SUBSET Calls]
        /\ \A t \in Sessions : Sound(t)'
    BY ZenonT(40), <1>0, <1>1, <1>2, <2>1, <2>3, LeaveIsSound
  <2>5. TypeOK'
    BY <1>1, <1>2, <2>4 DEF TypeOK, Ordered
  <2> QED
    BY <2>4, <2>5 DEF Sane
<1> QED
  BY <1>5, <1>6

LEMMA LoadIsSane ==
  ASSUME Sane, NEW c \in Calls, Load(c)
  PROVE  Sane'
<1>0. PICK s \in Sessions : s = call[c].session
  BY PhasesOfCall DEF Sane
<1> DEFINE base == IF call[c].creates THEN file[s] ELSE content[s]
<1>1. /\ TypeOK /\ Ordered /\ Sound(s) /\ \A t \in Sessions : Sound(t)
      /\ call[c] \in Call /\ call[c].phase = "loading"
      /\ call' = [call EXCEPT ![c].phase = "operating"]
      /\ content' = [content EXCEPT ![s] = base \cup {c}]
      /\ tail' = tail /\ order' = order /\ barrier' = barrier /\ file' = file
  BY <1>0, PhasesOfCall DEF Sane, Load
<1>2. /\ call \in [Calls -> Call] /\ order \in [Sessions -> Nat]
      /\ content \in [Sessions -> SUBSET Calls] /\ barrier \in [Sessions -> 0 .. MaxCalls]
      /\ file \in [Sessions -> SUBSET Calls]
  BY <1>1 DEF TypeOK
<1>3. /\ call'[c].session = s /\ call'[c].phase = "operating"
      /\ call'[c].creates = call[c].creates /\ call'[c].before = call[c].before
      /\ call'[c].accepted = call[c].accepted /\ call'[c].found = call[c].found
      /\ call'[c].entry = call[c].entry
      /\ \A d \in Calls : d # c => call'[d] = call[d]
      /\ call' \in [Calls -> Call]
  BY <1>0, <1>1, <1>2 DEF Call, Phase
<1>4. /\ content' \in [Sessions -> SUBSET Calls] /\ content'[s] = base \cup {c}
      /\ \A t \in Sessions : t # s => content'[t] = content[t]
  BY <1>1, <1>2
<1>5. AcceptedCalls' = AcceptedCalls
  BY <1>3 DEF AcceptedCalls
<1>6. Ordered'
  BY <1>0, <1>1, <1>3, WorkOrders DEF Working
<1>7. ASSUME NEW t \in Sessions, t # s
      PROVE  Sound(t)'
  <2>1. (\A d \in Calls : call'[d].phase \in Phase) /\ barrier[t] \in 0 .. MaxCalls
    BY <1>2, <1>3 DEF Call
  <2> QED
    BY <1>0, <1>1, <1>3, <1>4, <1>5, <1>7, <2>1, OtherSessions
<1>8. Sound(s)'
  <2>1. /\ order[s] # 0 /\ content[s] = call[c].before /\ call[c].entry = "open"
        /\ call[c].creates => barrier[s] = c /\ call[c].before = {}
        /\ ~call[c].creates => file[s] \subseteq call[c].before /\ call[c].before \subseteq AcceptedCalls
        /\ file[s] \subseteq AcceptedCalls
        /\ barrier[s] # 0 => call[barrier[s]].session = s /\ call[barrier[s]].phase \in Working
                             /\ call[barrier[s]].creates
        /\ \A d \in Calls : call[d].session = s /\ call[d].found => barrier[s] = 0
    BY <1>0, <1>1 DEF Sound, Working
  <2>2. \A d \in Calls : d # c /\ call[d].session = s => call[d].phase \in {"none", "queued", "done"}
    BY <1>0, <1>1, OthersIdle DEF Working
  <2>3. barrier[s] # 0 => barrier[s] = c /\ call[c].creates
    <3>1. barrier[s] \in 0 .. MaxCalls
      BY <1>2
    <3> QED
      BY <2>1, <2>2, <3>1 DEF Working
  <2>4. /\ call'[c].phase \in Working /\ call'[c].phase \in Working \cup {"done"}
        /\ call'[c].phase # "done" /\ call'[c].phase # "loading" /\ call'[c].phase # "saving"
    BY <1>3 DEF Working
  <2>5. content'[s] = {c} \cup IF call'[c].creates THEN file'[s] ELSE call'[c].before
    BY <1>1, <1>3, <1>4, <2>1
  <2>6. /\ order'[s] # 0 /\ barrier'[s] = barrier[s] /\ file'[s] = file[s]
        /\ file'[s] \subseteq AcceptedCalls'
        /\ call'[c].found => barrier'[s] = 0
        /\ (\E d \in Calls : d # c /\ call[d].session = s /\ call[d].found) => barrier'[s] = 0
    BY <1>0, <1>1, <1>3, <1>5, <2>1
  <2>7. /\ Sound(s) /\ call[c].session = s /\ call'[c].session = s
        /\ \A d \in Calls : d # c => call'[d] = call[d]
        /\ file'[s] \subseteq AcceptedCalls' /\ call'[c].phase \in Working \cup {"done"}
        /\ order'[s] = 0 => content'[s] = {}
        /\ barrier'[s] # 0 => barrier'[s] = c /\ call'[c].creates /\ call'[c].phase \in Working
        /\ call'[c].creates => barrier'[s] = c /\ call'[c].entry = "open"
    BY <1>0, <1>1, <1>3, <2>1, <2>3, <2>4, <2>6
  <2>8. /\ call'[c].phase = "done" => ~call'[c].creates /\ ~call'[c].found
        /\ call'[c].found => barrier'[s] = 0 /\ order'[s] # 0
        /\ call'[c].phase \in Working => order'[s] # 0
        /\ (\E d \in Calls : d # c /\ call[d].session = s /\ call[d].found)
             => barrier'[s] = 0 /\ order'[s] # 0
        /\ (order'[s] # 0 /\ call'[c].phase \notin Working) =>
             file'[s] \subseteq content'[s] /\ content'[s] \subseteq AcceptedCalls'
    BY <1>3, <2>4, <2>6
  <2>9. /\ (call'[c].phase \in {"loading", "operating"} /\ ~call'[c].creates) =>
             file'[s] \subseteq call'[c].before /\ call'[c].before \subseteq AcceptedCalls'
        /\ (call'[c].phase \in {"loading", "operating"} /\ call'[c].creates) => call'[c].before = {}
        /\ call'[c].phase = "loading" => content'[s] = call'[c].before /\ call'[c].entry = "open"
        /\ call'[c].phase = "operating" /\ call'[c].entry = "live" => call'[c].accepted
        /\ call'[c].phase = "operating" =>
             content'[s] = {c} \cup IF call'[c].creates THEN file'[s] ELSE call'[c].before
        /\ call'[c].phase = "saving" => file'[s] \subseteq content'[s] /\ content'[s] \subseteq AcceptedCalls'
    BY <1>3, <1>5, <2>1, <2>4, <2>5, <2>6
  <2> QED
    BY <2>2, <2>7, <2>8, <2>9, OwnSession
<1>9. TypeOK'
  BY <1>1, <1>2, <1>4, <1>6 DEF TypeOK, Ordered
<1> QED
  BY <1>6, <1>7, <1>8, <1>9 DEF Sane

LEMMA BreakIsSane ==
  ASSUME Sane, NEW c \in Calls, Break(c)
  PROVE  Sane'
<1>0. PICK s \in Sessions : s = call[c].session
  BY PhasesOfCall DEF Sane
<1>1. /\ TypeOK /\ Ordered /\ Sound(s) /\ \A t \in Sessions : Sound(t)
      /\ call[c] \in Call /\ call[c].phase = "operating" /\ call[c].entry = "live"
      /\ call[c].phase \in Working /\ barrier' = barrier /\ file' = file
  BY <1>0, PhasesOfCall DEF Sane, Break, Working
<1>2. /\ call \in [Calls -> Call] /\ order \in [Sessions -> Nat]
      /\ content \in [Sessions -> SUBSET Calls] /\ barrier \in [Sessions -> 0 .. MaxCalls]
      /\ file \in [Sessions -> SUBSET Calls]
  BY <1>1 DEF TypeOK
<1>3. PICK contents \in {content, Restored(c)} : Leave(c, order, contents)
  BY DEF Break
<1>4. /\ order[s] # 0 /\ ~call[c].creates /\ call[c].accepted
      /\ content[s] = {c} \cup call[c].before
      /\ file[s] \subseteq call[c].before /\ call[c].before \subseteq AcceptedCalls
      /\ file[s] \subseteq AcceptedCalls
      /\ barrier[s] # 0 => call[barrier[s]].session = s /\ call[barrier[s]].phase \in Working
                           /\ call[barrier[s]].creates
  BY <1>0, <1>1 DEF Sound, Working
<1>5. /\ contents \in [Sessions -> SUBSET Calls]
      /\ contents[s] \in {content[s], call[c].before}
      /\ \A t \in Sessions : t # s => contents[t] = content[t]
  BY <1>0, <1>1, <1>2, <1>3 DEF Restored, Call
<1>6. \A d \in Calls : d # c /\ call[d].session = s => call[d].phase \notin Working
  BY <1>0, <1>1, OthersIdle DEF Working
<1>7. barrier[s] = 0
  BY <1>2, <1>4, <1>6
<1>8. c \in AcceptedCalls
  BY <1>4 DEF AcceptedCalls
<1>9. /\ \A t \in Sessions : t # s =>
           /\ barrier'[t] = barrier[t] /\ file'[t] = file[t]
           /\ (order[t] # 0 <=> order[t] # 0) /\ contents[t] = content[t]
      /\ barrier'[s] = 0 /\ file'[s] \subseteq AcceptedCalls
      /\ order[s] = 0 => contents[s] = {}
      /\ (\E d \in Calls : d # c /\ call[d].session = s /\ call[d].found) => order[s] # 0
      /\ order[s] # 0 => file'[s] \subseteq contents[s] /\ contents[s] \subseteq AcceptedCalls
  BY <1>1, <1>4, <1>5, <1>7, <1>8
<1>10. /\ Ordered' /\ order' \in [Sessions -> Nat] /\ content' \in [Sessions -> SUBSET Calls]
       /\ \A t \in Sessions : Sound(t)'
  <2>1. PICK kept \in [Sessions -> SUBSET Calls] : kept = contents
    BY <1>5
  <2>2. /\ Leave(c, order, kept)
        /\ \A t \in Sessions : t # s =>
             /\ barrier'[t] = barrier[t] /\ file'[t] = file[t]
             /\ (order[t] # 0 <=> order[t] # 0) /\ kept[t] = content[t]
        /\ barrier'[s] = 0 /\ file'[s] \subseteq AcceptedCalls
        /\ order[s] = 0 => kept[s] = {}
        /\ (\E d \in Calls : d # c /\ call[d].session = s /\ call[d].found) => order[s] # 0
        /\ order[s] # 0 => file'[s] \subseteq kept[s] /\ kept[s] \subseteq AcceptedCalls
    BY <1>3, <1>9, <2>1
  <2>3. TypeOK /\ Ordered /\ (\A t \in Sessions : Sound(t)) /\ order \in [Sessions -> Nat]
        /\ (Turn(c) \/ call[c].phase \in Working)
    BY <1>1, <1>2
  <2>4. Ordered'
    BY <1>0, <2>2, <2>3, LeaveIsSound
  <2>5. order' \in [Sessions -> Nat] /\ content' \in [Sessions -> SUBSET Calls]
    BY <1>0, <2>2, <2>3, LeaveIsSound
  <2>6. \A t \in Sessions : Sound(t)'
    BY <1>0, <2>2, <2>3, LeaveIsSound
  <2> QED
    BY <2>4, <2>5, <2>6
<1>11. TypeOK'
  BY <1>1, <1>2, <1>10 DEF TypeOK, Ordered
<1> QED
  BY <1>10, <1>11 DEF Sane

LEMMA AcceptIsSane ==
  ASSUME Sane, NEW c \in Calls, Accept(c)
  PROVE  Sane'
<1>0. PICK s \in Sessions : s = call[c].session
  BY PhasesOfCall DEF Sane
<1>1. /\ TypeOK /\ Ordered /\ Sound(s) /\ \A t \in Sessions : Sound(t)
      /\ call[c] \in Call /\ call[c].phase = "operating"
      /\ call' = [call EXCEPT ![c].phase = "saving", ![c].accepted = TRUE]
      /\ tail' = tail /\ order' = order /\ content' = content /\ barrier' = barrier /\ file' = file
  BY <1>0, PhasesOfCall DEF Sane, Accept
<1>2. /\ call \in [Calls -> Call] /\ order \in [Sessions -> Nat]
      /\ content \in [Sessions -> SUBSET Calls] /\ barrier \in [Sessions -> 0 .. MaxCalls]
      /\ file \in [Sessions -> SUBSET Calls]
  BY <1>1 DEF TypeOK
<1>3. /\ call'[c].session = s /\ call'[c].phase = "saving"
      /\ call'[c].creates = call[c].creates /\ call'[c].found = call[c].found
      /\ call'[c].accepted /\ call'[c].entry = call[c].entry
      /\ \A d \in Calls : d # c => call'[d] = call[d]
      /\ call' \in [Calls -> Call]
  BY <1>0, <1>1, <1>2 DEF Call, Phase
<1>4. AcceptedCalls' = AcceptedCalls \cup {c}
  BY <1>3 DEF AcceptedCalls
<1>5. Ordered'
  BY <1>0, <1>1, <1>3, WorkOrders DEF Working
<1>6. ASSUME NEW t \in Sessions, t # s
      PROVE  Sound(t)'
  <2>1. (\A d \in Calls : call'[d].phase \in Phase) /\ barrier[t] \in 0 .. MaxCalls
    BY <1>2, <1>3 DEF Call
  <2>2. AcceptedCalls \subseteq AcceptedCalls'
    BY <1>4
  <2> QED
    BY <1>0, <1>1, <1>3, <1>6, <2>1, <2>2, OtherSessions
<1>7. Sound(s)'
  <2>1. /\ order[s] # 0
        /\ content[s] = {c} \cup IF call[c].creates THEN file[s] ELSE call[c].before
        /\ call[c].creates => barrier[s] = c /\ call[c].entry = "open"
        /\ ~call[c].creates => file[s] \subseteq call[c].before /\ call[c].before \subseteq AcceptedCalls
        /\ file[s] \subseteq AcceptedCalls
        /\ barrier[s] # 0 => call[barrier[s]].session = s /\ call[barrier[s]].phase \in Working
                             /\ call[barrier[s]].creates
        /\ \A d \in Calls : call[d].session = s /\ call[d].found => barrier[s] = 0
    BY SMTT(30), <1>0, <1>1 DEF Sound, Working
  <2>2. \A d \in Calls : d # c /\ call[d].session = s => call[d].phase \in {"none", "queued", "done"}
    BY <1>0, <1>1, OthersIdle DEF Working
  <2>3. barrier[s] # 0 => barrier[s] = c /\ call[c].creates
    <3>1. barrier[s] \in 0 .. MaxCalls
      BY <1>2
    <3> QED
      BY <2>1, <2>2, <3>1 DEF Working
  <2>4. /\ call'[c].phase \in Working /\ call'[c].phase \in Working \cup {"done"}
        /\ call'[c].phase # "done" /\ call'[c].phase # "loading" /\ call'[c].phase # "operating"
    BY <1>3 DEF Working
  <2>5. file'[s] \subseteq content'[s] /\ content'[s] \subseteq AcceptedCalls'
    BY <1>1, <1>4, <2>1
  <2>6. /\ order'[s] # 0 /\ barrier'[s] = barrier[s]
        /\ file'[s] \subseteq AcceptedCalls'
        /\ call'[c].found => barrier'[s] = 0
        /\ (\E d \in Calls : d # c /\ call[d].session = s /\ call[d].found) => barrier'[s] = 0
    BY <1>0, <1>1, <1>3, <1>4, <2>1
  <2>7. /\ Sound(s) /\ call[c].session = s /\ call'[c].session = s
        /\ \A d \in Calls : d # c => call'[d] = call[d]
        /\ file'[s] \subseteq AcceptedCalls' /\ call'[c].phase \in Working \cup {"done"}
        /\ order'[s] = 0 => content'[s] = {}
        /\ barrier'[s] # 0 => barrier'[s] = c /\ call'[c].creates /\ call'[c].phase \in Working
        /\ call'[c].creates => barrier'[s] = c /\ call'[c].entry = "open"
    BY <1>0, <1>1, <1>3, <2>1, <2>3, <2>4, <2>6
  <2>8. /\ call'[c].phase = "done" => ~call'[c].creates /\ ~call'[c].found
        /\ call'[c].found => barrier'[s] = 0 /\ order'[s] # 0
        /\ call'[c].phase \in Working => order'[s] # 0
        /\ (\E d \in Calls : d # c /\ call[d].session = s /\ call[d].found)
             => barrier'[s] = 0 /\ order'[s] # 0
        /\ (order'[s] # 0 /\ call'[c].phase \notin Working) =>
             file'[s] \subseteq content'[s] /\ content'[s] \subseteq AcceptedCalls'
    BY <2>4, <2>5, <2>6
  <2>9. /\ (call'[c].phase \in {"loading", "operating"} /\ ~call'[c].creates) =>
             file'[s] \subseteq call'[c].before /\ call'[c].before \subseteq AcceptedCalls'
        /\ (call'[c].phase \in {"loading", "operating"} /\ call'[c].creates) => call'[c].before = {}
        /\ call'[c].phase = "loading" => content'[s] = call'[c].before /\ call'[c].entry = "open"
        /\ call'[c].phase = "operating" /\ call'[c].entry = "live" => call'[c].accepted
        /\ call'[c].phase = "operating" =>
             content'[s] = {c} \cup IF call'[c].creates THEN file'[s] ELSE call'[c].before
        /\ call'[c].phase = "saving" => file'[s] \subseteq content'[s] /\ content'[s] \subseteq AcceptedCalls'
    BY <1>3, <2>4, <2>5
  <2> QED
    BY <2>2, <2>7, <2>8, <2>9, OwnSession
<1>8. TypeOK'
  BY <1>1, <1>2, <1>5 DEF TypeOK, Ordered
<1> QED
  BY <1>5, <1>6, <1>7, <1>8 DEF Sane

LEMMA FlushIsSane ==
  ASSUME Sane, NEW c \in Calls, Flush(c)
  PROVE  Sane'
<1>0. PICK s \in Sessions : s = call[c].session
  BY PhasesOfCall DEF Sane
<1>1. /\ TypeOK /\ Ordered /\ Sound(s) /\ \A t \in Sessions : Sound(t)
      /\ call[c] \in Call /\ call[c].phase = "saving" /\ call[c].phase \in Working
      /\ barrier' = IF call[c].creates THEN [barrier EXCEPT ![s] = 0] ELSE barrier
      /\ Leave(c, order, content)
  BY <1>0, PhasesOfCall DEF Sane, Flush, Finished, Lifted, Working
<1>2. /\ call \in [Calls -> Call] /\ order \in [Sessions -> Nat]
      /\ content \in [Sessions -> SUBSET Calls] /\ barrier \in [Sessions -> 0 .. MaxCalls]
      /\ file \in [Sessions -> SUBSET Calls]
  BY <1>1 DEF TypeOK
<1>3. /\ file' \in [Sessions -> SUBSET Calls] /\ file'[s] \in {file[s], content[s]}
      /\ \A t \in Sessions : t # s => file'[t] = file[t]
  BY <1>0, <1>2 DEF Flush
<1>4. /\ order[s] # 0
      /\ file[s] \subseteq content[s] /\ content[s] \subseteq AcceptedCalls
      /\ call[c].creates => barrier[s] = c
      /\ barrier[s] # 0 => call[barrier[s]].session = s /\ call[barrier[s]].phase \in Working
                           /\ call[barrier[s]].creates
  BY <1>0, <1>1 DEF Sound, Working
<1>5. \A d \in Calls : d # c /\ call[d].session = s => call[d].phase \notin Working
  BY <1>0, <1>1, OthersIdle DEF Working
<1>6. barrier[s] \in 0 .. MaxCalls /\ (~call[c].creates => barrier[s] = 0)
  BY <1>2, <1>4, <1>5
<1>7. /\ barrier' \in [Sessions -> 0 .. MaxCalls] /\ barrier'[s] = 0
      /\ \A t \in Sessions : t # s => barrier'[t] = barrier[t]
  BY <1>1, <1>2, <1>6
<1>8. /\ \A t \in Sessions : t # s =>
           /\ barrier'[t] = barrier[t] /\ file'[t] = file[t]
           /\ (order[t] # 0 <=> order[t] # 0) /\ content[t] = content[t]
      /\ file'[s] \subseteq AcceptedCalls
      /\ order[s] = 0 => content[s] = {}
      /\ (\E d \in Calls : d # c /\ call[d].session = s /\ call[d].found) => order[s] # 0
      /\ order[s] # 0 => file'[s] \subseteq content[s] /\ content[s] \subseteq AcceptedCalls
  BY <1>3, <1>4, <1>7
<1>9. /\ Ordered' /\ order' \in [Sessions -> Nat] /\ content' \in [Sessions -> SUBSET Calls]
      /\ \A t \in Sessions : Sound(t)'
  BY ZenonT(40), <1>0, <1>1, <1>2, <1>7, <1>8, LeaveIsSound
<1>10. TypeOK'
  BY <1>2, <1>3, <1>7, <1>9 DEF TypeOK, Ordered
<1> QED
  BY <1>9, <1>10 DEF Sane

-----------------------------------------------------------------------------
(* The theorems.                                                           *)

LEMMA SaneIsIInv == Sane <=> IInv
BY SoundAll DEF Sane, IInv, Ordered, TypeOK

LEMMA InitIsSane == Init => Sane
<1> SUFFICES ASSUME Init PROVE Sane
  OBVIOUS
<1>1. \A c \in Calls : /\ call[c] = NoCall /\ call[c] \in Call /\ call[c].phase = "none"
                       /\ ~call[c].creates /\ ~call[c].found
  BY NoCallTyped DEF Init, NoCall
<1>2. \A s \in Sessions : /\ tail[s] = 0 /\ order[s] = 0 /\ barrier[s] = 0
                          /\ content[s] = {} /\ file[s] = {}
  BY DEF Init
<1>3. TypeOK
  BY <1>1, <1>2 DEF Init, TypeOK
<1>4. Ordered
  BY <1>1, <1>2, <1>3 DEF Ordered, TypeOK, Chained, InOrder
<1>5. ASSUME NEW s \in Sessions
      PROVE  Sound(s)
  BY <1>1, <1>2 DEF Sound, Working
<1> QED
  BY <1>3, <1>4, <1>5 DEF Sane

LEMMA NextIsSane == Sane /\ [Next]_vars => Sane'
<1> SUFFICES ASSUME Sane, [Next]_vars PROVE Sane'
  OBVIOUS
<1>1. CASE \E s \in Sessions, entry \in Entry : Reserve(s, entry)
  BY <1>1, ReserveIsSane
<1>2. ASSUME NEW c \in Calls, StartOpen(c)
      PROVE  Sane'
  BY <1>2, StartOpenIsSane
<1>3. ASSUME NEW c \in Calls, StartMutate(c)
      PROVE  Sane'
  BY <1>3, StartMutateIsSane
<1>4. ASSUME NEW c \in Calls, Load(c)
      PROVE  Sane'
  BY <1>4, LoadIsSane
<1>5. ASSUME NEW c \in Calls, Abandon(c)
      PROVE  Sane'
  BY <1>5, UndoIsSane DEF Abandon
<1>6. ASSUME NEW c \in Calls, Reject(c)
      PROVE  Sane'
  BY <1>6, UndoIsSane DEF Reject
<1>10. ASSUME NEW c \in Calls, Break(c)
       PROVE  Sane'
  BY <1>10, BreakIsSane
<1>7. ASSUME NEW c \in Calls, Accept(c)
      PROVE  Sane'
  BY <1>7, AcceptIsSane
<1>8. ASSUME NEW c \in Calls, Flush(c)
      PROVE  Sane'
  BY <1>8, FlushIsSane
<1>9. CASE UNCHANGED vars
  <2>1. TypeOK /\ Ordered /\ \A s \in Sessions : Sound(s)
    BY DEF Sane
  <2>2. UNCHANGED <<call, tail, order, content, barrier, file>>
    BY <1>9 DEF vars
  <2>3. TypeOK'
    BY <2>1, <2>2 DEF TypeOK
  <2>4. Ordered'
    BY <2>1, <2>2 DEF Ordered, Chained, InOrder
  <2>5. \A s \in Sessions : Sound(s)'
    BY <2>1, <2>2 DEF Sound, AcceptedCalls
  <2> QED
    BY <2>3, <2>4, <2>5 DEF Sane
<1> QED
  BY <1>1, <1>2, <1>3, <1>4, <1>5, <1>6, <1>7, <1>8, <1>9, <1>10 DEF Next, Step

\* The registry's invariant holds whatever calls are made, and however they end
\* (lib/state/state.ts, SessionStateRegistry).
THEOREM RegistryInductive == Safety => []IInv
<1>1. Init => IInv
  BY InitIsSane, SaneIsIInv
<1>2. Sane /\ [Next]_vars => Sane'
  BY NextIsSane
<1>3. Sane => IInv
  BY SaneIsIInv
<1> QED
  BY <1>2, <1>3, InitIsSane, PTL DEF Safety

\* No two calls ever work on one session, and none overtakes another: the chain of
\* mutationTails loses no link when calls leave it.
THEOREM OneAtATime == Safety => []InOrder
<1>1. IInv => InOrder
  BY DEF IInv
<1> QED
  BY <1>1, RegistryInductive, PTL

\* No barrier outlives the call that opened the session.
THEOREM NoStrandedBarrier == Safety => []BarrierIsHeld
<1>1. IInv => BarrierIsHeld
  BY DEF IInv
<1> QED
  BY <1>1, RegistryInductive, PTL

\* enforceSoftCap leaves alone whatever a call works on or was promised.
THEOREM NoEvictionUnderWork == Safety => []GuardedIsRegistered
<1>1. IInv => GuardedIsRegistered
  BY DEF IInv
<1> QED
  BY <1>1, RegistryInductive, PTL

\* An operation that was not accepted leaves no trace in what get shows, nor in
\* the file, and memory is never behind the file.
THEOREM OnlyAcceptedWork == Safety => []CommittedIsShown
<1>1. IInv => CommittedIsShown
  BY DEF IInv, Staged, CommittedIsShown, Visible
<1> QED
  BY <1>1, RegistryInductive, PTL

-----------------------------------------------------------------------------
(* The soft cap.                                                           *)

\* One session of any that are kept stands before all the others.
LEMMA OldestSession ==
  ASSUME NEW places \in [Sessions -> Nat], NEW K \in SUBSET Sessions, K # {}
  PROVE  \E s \in K : \A t \in K : places[s] <= places[t]
<1> DEFINE R == {ss \in Nat \X Nat : ss[1] < ss[2]}
           Places == {places[s] : s \in K}
<1>1. OpToRel(<, Nat) = R
  BY DEF OpToRel
<1>2. IsWellFoundedOn(R, Nat)
  BY <1>1, NatLessThanWellFounded, Zenon
<1>3. Places \subseteq Nat /\ Places # {}
  OBVIOUS
<1> HIDE DEF R, Places
<1>4. PICK n \in Places : \A m \in Places : ~ (<<m, n>> \in R)
  BY <1>2, <1>3, WFMin, Zenon
<1>5. PICK s \in K : n = places[s]
  BY <1>4 DEF Places
<1>6. ASSUME NEW t \in K
      PROVE  places[s] <= places[t]
  <2>1. places[t] \in Places /\ places[s] \in Nat /\ places[t] \in Nat
    BY <1>6 DEF Places
  <2>2. /\ <<places[t], n>> \in Nat \X Nat
        /\ <<places[t], n>>[1] = places[t] /\ <<places[t], n>>[2] = n
    BY <1>5, <2>1
  <2>3. ~ (places[t] < n)
    BY <1>4, <2>1, <2>2, Zenon DEF R
  <2> QED
    BY <1>5, <2>1, <2>3
<1> QED
  BY <1>5, <1>6

\* When nobody is at work, enforceSoftCap leaves no more than the cap: the oldest
\* session it keeps has few enough others behind it.
LEMMA EnforcedFits ==
  ASSUME SoftCap \in Nat,
         NEW places \in [Sessions -> Nat], NEW contents \in [Sessions -> SUBSET Calls],
         Enforced(places, contents), \A s \in Sessions : Idle(call', barrier', s)
  PROVE  Cardinality(InMemory') <= SoftCap
<1> DEFINE present == {s \in Sessions : places[s] # 0}
           older(s) == {t \in present : places[t] < places[s]}
           gone == {s \in present : Cardinality(older(s)) + SoftCap < Cardinality(present)}
           kept == present \ gone
<1>1. Evicted(places, call', barrier') = gone
  <2>1. {s \in present : Idle(call', barrier', s)} = present
    OBVIOUS
  <2> QED
    BY <2>1 DEF Evicted
<1>2. order' = Keep(places, kept)
  BY <1>1 DEF Enforced
<1>3. InMemory' = kept
  <2>1. kept \in SUBSET Sessions
    BY DEF kept
  <2> HIDE DEF kept
  <2>2. \A s \in Sessions : order'[s] # 0 <=> s \in kept
    BY <1>2, <2>1, KeepsExactly
  <2> QED
    BY <2>1, <2>2 DEF InMemory
<1>4. CASE kept = {}
  <2>1. InMemory' = {}
    BY <1>3, <1>4
  <2>2. Cardinality({}) = 0
    BY FS_EmptySet
  <2> QED
    BY <2>1, <2>2
<1>5. CASE kept # {}
  <2>1. kept \in SUBSET Sessions
    OBVIOUS
  <2>2. PICK s \in kept : \A t \in kept : places[s] <= places[t]
    <3> HIDE DEF kept
    <3> QED
      BY <1>5, <2>1, OldestSession
  <2>3. /\ IsFiniteSet(present) /\ IsFiniteSet(kept) /\ IsFiniteSet(older(s))
        /\ Cardinality(present) \in Nat /\ Cardinality(kept) \in Nat
        /\ Cardinality(older(s)) \in Nat
    <3>1. present \in SUBSET Sessions /\ older(s) \in SUBSET Sessions
      OBVIOUS
    <3> HIDE DEF present, kept
    <3> QED
      BY <2>1, <3>1, FS_Subset, FS_CardinalityType
  <2>4. Cardinality(older(s)) + SoftCap >= Cardinality(present)
    BY <2>2, <2>3
  <2>5. kept \cap older(s) = {} /\ kept \cup older(s) \in SUBSET present
    BY <2>2
  <2>6. Cardinality(kept) + Cardinality(older(s)) <= Cardinality(present)
    <3> DEFINE newer == older(s)
    <3> HIDE DEF kept, newer, present
    <3>1. Cardinality(kept \cup newer) = Cardinality(kept) + Cardinality(newer) - Cardinality(kept \cap newer)
      BY <2>3, FS_Union DEF newer
    <3>2. Cardinality(kept \cap newer) = 0
      BY <2>5, FS_EmptySet DEF newer
    <3>3. Cardinality(kept \cup newer) <= Cardinality(present)
      BY <2>3, <2>5, FS_Subset DEF newer
    <3> QED
      BY <2>3, <3>1, <3>2, <3>3 DEF newer
  <2> QED
    BY <1>3, <2>3, <2>4, <2>6
<1> QED
  BY <1>4, <1>5

\* A call that is not over keeps its session guarded.
LEMMA StillGuarded ==
  ASSUME NEW c \in Calls, call'[c].session \in Sessions,
         call'[c].phase \in Working \cup {"queued"}
  PROVE  CapHolds'
BY DEF CapHolds, Guarded, Working

\* With nobody at work no barrier is up either.
LEMMA UnguardedIsIdle ==
  ASSUME Sane', \A s \in Sessions : ~Guarded(call', s)
  PROVE  \A s \in Sessions : Idle(call', barrier', s)
<1>1. ASSUME NEW s \in Sessions, barrier'[s] # 0
      PROVE  Guarded(call', s)
  <2>1. barrier'[s] \in Calls
    BY <1>1 DEF Sane, TypeOK
  <2>2. call'[barrier'[s]].session = s /\ call'[barrier'[s]].phase \in Working
    BY <1>1 DEF Sane, Sound
  <2> QED
    BY <2>1, <2>2 DEF Guarded, Working
<1> QED
  BY <1>1 DEF Idle

\* Whoever enforces the cap last leaves no more than that.
LEMMA EnforcedCaps ==
  ASSUME Sane', NEW places \in [Sessions -> Nat], NEW contents \in [Sessions -> SUBSET Calls],
         Enforced(places, contents)
  PROVE  CapHolds'
<1>1. (\A s \in Sessions : ~Guarded(call', s)) => \A s \in Sessions : Idle(call', barrier', s)
  BY UnguardedIsIdle
<1>2. SoftCap \in Nat
  BY RegistryAssumption
<1> QED
  BY <1>1, <1>2, EnforcedFits DEF CapHolds

\* The places a session is opened or discarded at are places again.
LEMMA PlacesTyped ==
  ASSUME TypeOK, NEW s \in Sessions
  PROVE  /\ order \in [Sessions -> Nat] /\ Insert(s) \in [Sessions -> Nat]
         /\ Remove(s) \in [Sessions -> Nat]
         /\ content \in [Sessions -> SUBSET Calls]
BY InsertsExactly, RemovesExactly DEF TypeOK

LEMMA NextCaps == Sane /\ CapHolds /\ [Next]_vars => CapHolds'
<1> SUFFICES ASSUME Sane, CapHolds, [Next]_vars PROVE CapHolds'
  OBVIOUS
<1>1. TypeOK /\ Sane'
  BY NextIsSane DEF Sane
<1>2. call' \in [Calls -> Call]
  BY <1>1 DEF Sane, TypeOK
<1>3. \A d \in Calls : call'[d].session \in Sessions
  BY <1>2 DEF Call
<1>4. \A d \in Calls : call[d] \in Call /\ call[d].session \in Sessions
  BY <1>1 DEF TypeOK, Call
<1>5. ASSUME NEW s \in Sessions, NEW entry \in Entry, Reserve(s, entry)
      PROVE  CapHolds'
  <2>1. PICK c \in Calls : call'[c].phase = "queued"
    <3>1. PICK c \in Calls :
            call' = [call EXCEPT ![c].session = s, ![c].entry = entry,
                                 ![c].phase = "queued", ![c].after = tail[s],
                                 ![c].found = s \in InMemory /\ barrier[s] = 0]
      BY ZenonT(30), <1>5 DEF Reserve
    <3> QED
      BY <1>1, <1>4, <3>1 DEF TypeOK, Call
  <2> QED
    BY <1>3, <2>1, StillGuarded
<1>6. ASSUME NEW c \in Calls, StartOpen(c) \/ Load(c) \/ Accept(c)
      PROVE  CapHolds'
  <2>1. call'[c].phase \in Working
    BY <1>1, <1>4, <1>6 DEF StartOpen, Load, Accept, Working, TypeOK, Call
  <2> QED
    BY <1>3, <2>1, StillGuarded
<1>7. ASSUME NEW c \in Calls, StartMutate(c)
      PROVE  CapHolds'
  <2>1. CASE call[c].session \in InMemory
    <3>1. call'[c].phase \in Working
      BY <1>1, <1>4, <1>7, <2>1 DEF StartMutate, Working, TypeOK, Call
    <3> QED
      BY <1>3, <3>1, StillGuarded
  <2>2. CASE call[c].session \notin InMemory
    <3>1. Enforced(order, content)
      BY <1>7, <2>2 DEF StartMutate, Leave
    <3> QED
      BY <1>1, <1>4, <3>1, PlacesTyped, EnforcedCaps
  <2> QED
    BY <2>1, <2>2
<1>8. ASSUME NEW c \in Calls, Abandon(c) \/ Reject(c)
      PROVE  CapHolds'
  <2> DEFINE places == IF call[c].creates THEN Remove(call[c].session) ELSE order
  <2>1. Enforced(places, Restored(c))
    BY <1>8 DEF Abandon, Reject, Undo, Leave
  <2>2. places \in [Sessions -> Nat] /\ Restored(c) \in [Sessions -> SUBSET Calls]
    BY <1>1, <1>4, PlacesTyped DEF Restored, Call
  <2> QED
    BY <1>1, <2>1, <2>2, EnforcedCaps
<1>9. ASSUME NEW c \in Calls, Break(c)
      PROVE  CapHolds'
  <2>1. PICK contents \in {content, Restored(c)} : Enforced(order, contents)
    BY <1>9 DEF Break, Leave
  <2>2. order \in [Sessions -> Nat] /\ contents \in [Sessions -> SUBSET Calls]
    BY <1>1, <1>4, PlacesTyped DEF Restored, Call
  <2> QED
    BY <1>1, <2>1, <2>2, EnforcedCaps
<1>10. ASSUME NEW c \in Calls, Flush(c)
       PROVE  CapHolds'
  <2>1. Enforced(order, content)
    BY <1>10 DEF Flush, Leave
  <2> QED
    BY <1>1, <1>4, <2>1, PlacesTyped, EnforcedCaps
<1>11. CASE UNCHANGED vars
  BY <1>11 DEF vars, CapHolds, Guarded, InMemory
<1> QED
  BY <1>5, <1>6, <1>7, <1>8, <1>9, <1>10, <1>11 DEF Next, Step

\* The registry comes back to its soft cap whenever nobody is at work, however the
\* last calls ended: every way out of a call enforces it (lib/state/state.ts,
\* enforceSoftCap), and what it leaves is few enough.
THEOREM RegistryFits == Safety => []CapHolds
<1>1. Init => CapHolds
  <2> SUFFICES ASSUME Init PROVE Cardinality(InMemory) <= SoftCap
    BY DEF CapHolds
  <2>1. InMemory = {} /\ Cardinality({}) = 0
    BY FS_EmptySet DEF Init, InMemory
  <2> QED
    BY <2>1, RegistryAssumption
<1>2. Sane /\ CapHolds /\ [Next]_vars => CapHolds'
  BY NextCaps
<1>3. Sane /\ [Next]_vars => Sane'
  BY NextIsSane
<1> QED
  BY <1>1, <1>2, <1>3, InitIsSane, PTL DEF Safety
=============================================================================
