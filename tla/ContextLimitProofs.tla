------------------------- MODULE ContextLimitProofs -------------------------
(***************************************************************************)
(* What keeps a request inside the window of its model, for any window,    *)
(* any sizes of messages and outputs and any length of the history.        *)
(*                                                                         *)
(* ContextBudget: the estimate covers what the backend counts, and the     *)
(* guard's account of what it saved is true; both stand on what a report   *)
(* says of the request it answers, the inductive invariant BudgetIInv.     *)
(*                                                                         *)
(* NudgeGate: nudges are spaced; what a nudge measures growth from, in     *)
(* memory and in the file, is never below the least size measured since    *)
(* the last one.                                                           *)
(***************************************************************************)
EXTENDS NudgeGate, ContextBudget, FiniteSetTheorems, FunctionTheorems, WellFoundedInduction, TLAPS

-----------------------------------------------------------------------------
(* Recursion and orders.                                                   *)

\* A set of naturals has a least element.
LEMMA NatMin ==
  ASSUME NEW S, S \subseteq Nat, S # {}
  PROVE  \E x \in S : \A y \in S : x <= y
<1> DEFINE R == {ss \in Nat \X Nat : ss[1] < ss[2]}
<1>1. OpToRel(<, Nat) = R
  BY DEF OpToRel
<1>2. IsWellFoundedOn(R, Nat)
  BY <1>1, NatLessThanWellFounded, Zenon
<1> HIDE DEF R
<1>3. PICK x \in S : \A y \in S : ~ (<<y, x>> \in R)
  BY <1>2, WFMin, Zenon
<1>4. ASSUME NEW y \in S
      PROVE  x <= y
  <2>1. x \in Nat /\ y \in Nat
    OBVIOUS
  <2>2. <<y, x>> \in Nat \X Nat /\ <<y, x>>[1] = y /\ <<y, x>>[2] = x
    BY <2>1
  <2>3. ~ (y < x)
    BY <1>3, <2>2 DEF R
  <2> QED
    BY <2>1, <2>3
<1> QED
  BY <1>4

\* A set of numbers up to n that holds 0, and each number behind one it holds, has all.
LEMMA NatSteps ==
  ASSUME NEW n \in Nat, NEW P, 0 \in P, \A k \in 1 .. n : k - 1 \in P => k \in P
  PROVE  \A k \in 0 .. n : k \in P
<1> DEFINE Left == {k \in 0 .. n : k \notin P}
<1>1. ASSUME Left # {}
      PROVE  FALSE
  <2>1. Left \subseteq Nat
    OBVIOUS
  <2>2. PICK k \in Left : \A j \in Left : k <= j
    <3> HIDE DEF Left
    <3> QED
      BY <1>1, <2>1, NatMin
  <2>3. k \in 1 .. n /\ k \notin P
    OBVIOUS
  <2>4. k - 1 \in 0 .. n /\ ~(k <= k - 1)
    BY <2>3
  <2>5. k - 1 \in P
    BY <2>2, <2>4
  <2> QED
    BY <2>3, <2>5
<1> QED
  BY <1>1

\* f is the recursive function from start that takes step n from n - 1 to n.
Runs(f, n, A, start, step) ==
  f \in [0 .. n -> A] /\ f[0] = start /\ \A k \in 1 .. n : f[k] = step[k][f[k - 1]]

\* A recursive function over 0 .. n whose steps stay in a set exists, and stays there.
LEMMA Recursion ==
  ASSUME NEW n \in Nat, NEW A, NEW start \in A, NEW step \in [1 .. n -> [A -> A]]
  PROVE  \E f : Runs(f, n, A, start, step)
<1> DEFINE Found == {m \in 0 .. n : \E f : Runs(f, m, A, start, step)}
<1>1. 0 \in Found
  <2> DEFINE g == [i \in 0 .. 0 |-> start]
  <2>1. g \in [0 .. 0 -> A] /\ g[0] = start /\ 1 .. 0 = {}
    OBVIOUS
  <2>2. Runs(g, 0, A, start, step)
    <3> HIDE DEF g
    <3> QED
      BY <2>1, Zenon DEF Runs
  <2>3. 0 \in 0 .. n
    OBVIOUS
  <2> HIDE DEF g
  <2> QED
    BY <2>2, <2>3
<1>2. ASSUME NEW m \in 1 .. n, m - 1 \in Found
      PROVE  m \in Found
  <2>1. PICK f : Runs(f, m - 1, A, start, step)
    BY <1>2
  <2>0. /\ f \in [0 .. m - 1 -> A] /\ f[0] = start
        /\ \A k \in 1 .. m - 1 : f[k] = step[k][f[k - 1]]
    BY <2>1 DEF Runs
  <2> DEFINE g == [i \in 0 .. m |-> IF i = m THEN step[m][f[m - 1]] ELSE f[i]]
  <2>2. f[m - 1] \in A /\ step[m] \in [A -> A]
    BY <2>0
  <2>3. \A i \in 0 .. m : i # m => i \in 0 .. m - 1 /\ f[i] \in A
    BY <2>0
  <2>4. g \in [0 .. m -> A] /\ g[0] = start
    BY <2>0, <2>2, <2>3
  <2>5. ASSUME NEW k \in 1 .. m
        PROVE  g[k] = step[k][g[k - 1]]
    <3>1. k - 1 \in 0 .. m /\ k - 1 # m /\ g[k - 1] = f[k - 1]
      OBVIOUS
    <3>2. CASE k = m
      BY <3>1, <3>2
    <3>3. CASE k # m
      <4>1. k \in 1 .. m - 1 /\ g[k] = f[k]
        BY <3>3
      <4> QED
        BY <2>0, <3>1, <4>1
    <3> QED
      BY <3>2, <3>3
  <2>6. Runs(g, m, A, start, step)
    <3>1. \A k \in 1 .. m : g[k] = step[k][g[k - 1]]
      <4> HIDE DEF g
      <4> QED
        BY <2>5, Zenon
    <3> HIDE DEF g
    <3> QED
      BY <2>4, <3>1, Zenon DEF Runs
  <2>7. m \in 0 .. n
    OBVIOUS
  <2> HIDE DEF g
  <2> QED
    BY <2>6, <2>7
<1>3. n \in Found
  <2> HIDE DEF Found
  <2>1. \A k \in 0 .. n : k \in Found
    BY <1>1, <1>2, NatSteps
  <2> QED
    BY <2>1
<1> QED
  BY <1>3

\* An order visits nothing but a set, and all of it.
Visits(order, S) ==
  order \in Seq(S) /\ \A i \in S : \E n \in 1 .. Len(order) : order[n] = i

\* In a ranking every place of the set has its turn, and nothing else.
LEMMA RankedCovers ==
  ASSUME NEW S, IsFiniteSet(S), NEW earlier \in [S -> SUBSET S],
         \A i \in S : i \notin earlier[i],
         \A i, k \in S : i # k => i \in earlier[k] \/ k \in earlier[i],
         \A i \in S : \A k \in earlier[i] : earlier[k] \subseteq earlier[i]
  PROVE  Visits(Ranked(S, earlier), S)
<1> DEFINE c == Cardinality(S)
           rank == [i \in S |-> Cardinality(earlier[i]) + 1]
<1>1. c \in Nat
  BY FS_CardinalityType
<1>2. ASSUME NEW i \in S
      PROVE  /\ IsFiniteSet(earlier[i]) /\ Cardinality(earlier[i]) \in Nat
             /\ Cardinality(earlier[i]) < c
  <2>1. earlier[i] \subseteq S /\ earlier[i] # S
    OBVIOUS
  <2> QED
    BY <2>1, FS_Subset, FS_CardinalityType
<1>3. rank \in [S -> 1 .. c]
  BY <1>1, <1>2
<1>4. ASSUME NEW i \in S, NEW k \in S, i \in earlier[k]
      PROVE  rank[i] < rank[k]
  <2>1. earlier[i] \subseteq earlier[k] /\ earlier[i] # earlier[k]
    BY <1>4
  <2>2. Cardinality(earlier[i]) < Cardinality(earlier[k])
    BY <1>2, <2>1, FS_Subset
  <2> QED
    BY <1>2, <2>2
<1>5. rank \in Injection(S, 1 .. c)
  <2>1. ASSUME NEW i \in S, NEW k \in S, i # k
        PROVE  rank[i] # rank[k]
    <3>1. rank[i] \in Int /\ rank[k] \in Int
      BY <1>3
    <3> QED
      BY <1>4, <2>1, <3>1
  <2> HIDE DEF rank, c
  <2> QED
    BY <1>3, <2>1, Fun_IsInj
<1>6. rank \in Surjection(S, 1 .. c)
  <2>1. IsFiniteSet(1 .. c) /\ Cardinality(1 .. c) = c
    BY <1>1, FS_Interval
  <2> HIDE DEF rank
  <2> QED
    BY <1>5, <2>1, FS_Surjection, FS_Injection
<1>7. ASSUME NEW n \in 1 .. c
      PROVE  Ranked(S, earlier)[n] \in S /\ rank[Ranked(S, earlier)[n]] = n
  <2>1. PICK i \in S : rank[i] = n
    <3> HIDE DEF rank, c
    <3>1. \A t \in 1 .. c : \E i \in S : rank[i] = t
      BY <1>6 DEF Surjection
    <3> QED
      BY <3>1
  <2>2. Cardinality(earlier[i]) = n - 1
    BY <1>2, <2>1
  <2> DEFINE j == CHOOSE j \in S : Cardinality(earlier[j]) = n - 1
  <2>3. j \in S /\ Cardinality(earlier[j]) = n - 1
    BY <2>2, Zenon
  <2>4. Ranked(S, earlier)[n] = j
    BY DEF Ranked
  <2> QED
    BY <2>3, <2>4
<1>8. Ranked(S, earlier) \in Seq(S) /\ Len(Ranked(S, earlier)) = c
  <2> DEFINE r == Ranked(S, earlier)
  <2>1. r = [n \in 1 .. c |-> r[n]]
    BY DEF Ranked
  <2> HIDE DEF r, rank, c
  <2>2. r \in [1 .. c -> S]
    BY <1>7, <2>1 DEF r
  <2> QED
    BY <1>1, <2>2 DEF r
<1>9. ASSUME NEW i \in S
      PROVE  \E n \in 1 .. c : Ranked(S, earlier)[n] = i
  <2>1. rank[i] \in 1 .. c
    BY <1>3
  <2>2. Ranked(S, earlier)[rank[i]] \in S /\ rank[Ranked(S, earlier)[rank[i]]] = rank[i]
    BY <1>7, <2>1
  <2>3. Ranked(S, earlier)[rank[i]] = i
    <3> HIDE DEF rank
    <3> QED
      BY <1>5, <2>2, Fun_InjectionProperties
  <2> QED
    BY <2>1, <2>3
<1> QED
  BY <1>8, <1>9 DEF Visits

-----------------------------------------------------------------------------
(* Sums.                                                                   *)

\* A message of a view: a message of the history, or one that was shortened.
Seen ==
  [role : {"user", "assistant"}, text : {0, 1}, tool : Tools, out : Nat, whole : BOOLEAN,
   usage : Nat, old : BOOLEAN, cut : Int]

LEMMA SeenType ==
  ASSUME NEW v \in Seq(Seen)
  PROVE  /\ Len(v) \in Nat /\ Places(v) = 1 .. Len(v)
         /\ \A i \in Places(v) : /\ v[i] \in Seen /\ Tokens(v[i]) \in Nat
                                /\ Tokens(v[i]) = v[i].text + v[i].out
                                /\ v[i].text \in Nat /\ v[i].out \in Nat
<1>1. Len(v) \in Nat /\ Places(v) = 1 .. Len(v)
  BY DEF Places
<1>2. \A i \in Places(v) : v[i] \in Seen
  BY DEF Places
<1>3. \A m \in Seen : m.text \in Nat /\ m.out \in Nat
  BY DEF Seen
<1> QED
  BY <1>1, <1>2, <1>3 DEF Tokens

\* The sums of the first messages.
SumSteps(v, S, f) ==
  /\ f \in [0 .. Len(v) -> Nat] /\ f[0] = 0
  /\ \A k \in 1 .. Len(v) : f[k] = f[k - 1] + IF k \in S THEN Tokens(v[k]) ELSE 0
  /\ Sum(v, S) = f[Len(v)]

\* They exist, and Sum is the last.
LEMMA SumUnfolds ==
  ASSUME NEW v \in Seq(Seen), NEW S
  PROVE  \E f : SumSteps(v, S, f)
<1> DEFINE n == Len(v)
           term(k) == IF k \in S THEN Tokens(v[k]) ELSE 0
           step == [k \in 1 .. n |-> [a \in Nat |-> a + term(k)]]
           sum == CHOOSE f : f = [k \in 0 .. n |-> IF k = 0 THEN 0 ELSE f[k - 1] + term(k)]
<1>1. n \in Nat /\ \A k \in 1 .. n : term(k) \in Nat
  BY SeenType
<1>2. step \in [1 .. n -> [Nat -> Nat]]
  <2> HIDE DEF term
  <2> QED
    BY <1>1
<1>3. PICK g : Runs(g, n, Nat, 0, step)
  <2>1. 0 \in Nat
    OBVIOUS
  <2> HIDE DEF step, n
  <2> QED
    BY <1>1, <1>2, <2>1, Recursion
<1>31. g \in [0 .. n -> Nat] /\ g[0] = 0 /\ \A k \in 1 .. n : g[k] = step[k][g[k - 1]]
  <2> HIDE DEF step, n
  <2> QED
    BY <1>3 DEF Runs
<1>4. \A k \in 1 .. n : g[k] = g[k - 1] + term(k)
  <2> HIDE DEF term, n
  <2>1. ASSUME NEW k \in 1 .. n
        PROVE  g[k] = g[k - 1] + term(k)
    <3>1. g[k - 1] \in Nat
      BY <1>1, <1>31
    <3>2. step[k] = [a \in Nat |-> a + term(k)]
      OBVIOUS
    <3>3. g[k] = step[k][g[k - 1]]
      BY <1>31
    <3> QED
      BY <3>1, <3>2, <3>3
  <2> QED
    BY <2>1
<1>5. g = [k \in 0 .. n |-> IF k = 0 THEN 0 ELSE g[k - 1] + term(k)]
  <2> HIDE DEF term, n
  <2>1. \A k \in 0 .. n : g[k] = IF k = 0 THEN 0 ELSE g[k - 1] + term(k)
    BY <1>1, <1>31, <1>4
  <2> QED
    BY <1>31, <2>1
<1>6. sum = [k \in 0 .. n |-> IF k = 0 THEN 0 ELSE sum[k - 1] + term(k)]
  <2> HIDE DEF term, n
  <2> QED
    BY <1>5, Zenon
<1> HIDE DEF sum
<1>7. sum[0] = 0 /\ \A k \in 1 .. n : sum[k] = sum[k - 1] + term(k)
  <2> HIDE DEF term, n
  <2> QED
    BY <1>1, <1>6
<1>8. \A k \in 0 .. n : sum[k] \in Nat
  <2> DEFINE P == {k \in 0 .. n : sum[k] \in Nat}
  <2>1. 0 \in P /\ \A k \in 1 .. n : k - 1 \in P => k \in P
    <3> HIDE DEF term, n
    <3>1. 0 \in 0 .. n /\ \A k \in 1 .. n : k \in 0 .. n
      BY <1>1
    <3>2. \A k \in 1 .. n : sum[k - 1] \in Nat => sum[k] \in Nat
      BY <1>1, <1>7
    <3> QED
      BY <1>7, <3>1, <3>2
  <2> HIDE DEF P
  <2>2. \A k \in 0 .. n : k \in P
    BY <1>1, <2>1, NatSteps
  <2> QED
    BY <2>2 DEF P
<1>9. sum \in [0 .. n -> Nat]
  <2> HIDE DEF term, n
  <2> QED
    BY <1>6, <1>8
<1>10. Sum(v, S) = sum[n]
  BY DEF Sum, sum
<1>11. SumSteps(v, S, sum)
  BY <1>7, <1>9, <1>10 DEF SumSteps
<1> QED
  BY <1>11

\* A sum over more messages of no fewer tokens is no smaller.
LEMMA SumCompares ==
  ASSUME NEW v \in Seq(Seen), NEW w \in Seq(Seen), NEW S, NEW T,
         \A i \in Places(v) : i \in S => i \in T /\ i \in Places(w) /\ Tokens(v[i]) <= Tokens(w[i])
  PROVE  Sum(v, S) \in Nat /\ Sum(w, T) \in Nat /\ Sum(v, S) <= Sum(w, T)
<1> DEFINE m == Len(v)
           n == Len(w)
           most == IF m <= n THEN n ELSE m
<1>1. /\ m \in Nat /\ n \in Nat /\ Places(v) = 1 .. m /\ Places(w) = 1 .. n
      /\ \A i \in 1 .. m : Tokens(v[i]) \in Nat
      /\ \A i \in 1 .. n : Tokens(w[i]) \in Nat
  BY SeenType
<1>20. PICK e : SumSteps(v, S, e)
  BY SumUnfolds
<1>2. /\ e \in [0 .. m -> Nat] /\ e[0] = 0
      /\ \A k \in 1 .. m : e[k] = e[k - 1] + IF k \in S THEN Tokens(v[k]) ELSE 0
      /\ Sum(v, S) = e[m]
  BY <1>20 DEF SumSteps
<1>30. PICK f : SumSteps(w, T, f)
  BY SumUnfolds
<1>3. /\ f \in [0 .. n -> Nat] /\ f[0] = 0
      /\ \A k \in 1 .. n : f[k] = f[k - 1] + IF k \in T THEN Tokens(w[k]) ELSE 0
      /\ Sum(w, T) = f[n]
  BY <1>30 DEF SumSteps
<1> DEFINE b(k) == IF k <= m THEN k ELSE m
           c(k) == IF k <= n THEN k ELSE n
           P == {k \in 0 .. most : e[b(k)] <= f[c(k)]}
<1> HIDE DEF m, n
<1>4. 0 \in P
  BY <1>1, <1>2, <1>3
<1>5. ASSUME NEW k \in 1 .. most, k - 1 \in P
      PROVE  k \in P
  <2>1. e[b(k - 1)] <= f[c(k - 1)] /\ e[b(k - 1)] \in Nat /\ f[c(k - 1)] \in Nat
    <3>1. b(k - 1) \in 0 .. m /\ c(k - 1) \in 0 .. n
      BY <1>1
    <3> QED
      BY <1>2, <1>3, <1>5, <3>1
  <2>2. CASE k <= m /\ k \in S
    <3>1. k \in T /\ k \in 1 .. n /\ Tokens(v[k]) <= Tokens(w[k])
      <4>1. k \in Places(v) /\ k \in S
        BY <1>1, <2>2
      <4> QED
        BY <1>1, <4>1
    <3>2. b(k) = k /\ b(k - 1) = k - 1 /\ c(k) = k /\ c(k - 1) = k - 1
      BY <1>1, <2>2, <3>1
    <3>3. e[k] = e[k - 1] + Tokens(v[k]) /\ f[k] = f[k - 1] + Tokens(w[k])
      BY <1>1, <1>2, <1>3, <2>2, <3>1
    <3>4. Tokens(v[k]) \in Nat /\ Tokens(w[k]) \in Nat
      BY <1>1, <2>2, <3>1
    <3>5. e[k] <= f[k]
      <4>1. e[k - 1] <= f[k - 1] /\ e[k - 1] \in Nat /\ f[k - 1] \in Nat
        BY <2>1, <3>2
      <4> HIDE DEF P
      <4> QED
        BY <3>1, <3>3, <3>4, <4>1
    <3> QED
      BY <3>2, <3>5
  <2>3. CASE ~(k <= m /\ k \in S)
    <3>1. e[b(k)] = e[b(k - 1)]
      <4>1. CASE k <= m
        <5>0. e[k] = e[k - 1] + IF k \in S THEN Tokens(v[k]) ELSE 0
          BY <1>2, <4>1
        <5>1. e[k] = e[k - 1] + 0 /\ e[k - 1] \in Nat
          BY <1>1, <1>2, <2>3, <4>1, <5>0
        <5>2. k \in Int /\ k - 1 <= m /\ k <= m
          BY <1>1, <4>1
        <5> HIDE DEF P
        <5>3. b(k) = k /\ b(k - 1) = k - 1
          BY <1>1, <5>2
        <5>4. e[k] = e[k - 1]
          BY <5>1
        <5> HIDE DEF b
        <5> QED
          BY <5>3, <5>4
      <4>2. CASE k > m
        <5>1. b(k) = m /\ b(k - 1) = m
          BY <1>1, <4>2
        <5> HIDE DEF b
        <5> QED
          BY <5>1
      <4> QED
        BY <1>1, <4>1, <4>2
    <3>2. f[c(k - 1)] <= f[c(k)]
      <4>1. CASE k <= n
        <5>1. f[k - 1] \in Nat /\ f[k] \in Nat /\ f[k] >= f[k - 1]
          <6>1. f[k] = f[k - 1] + IF k \in T THEN Tokens(w[k]) ELSE 0
            BY <1>1, <1>3, <4>1
          <6>2. Tokens(w[k]) \in Nat /\ f[k - 1] \in Nat
            BY <1>1, <1>3, <4>1
          <6> QED
            BY <6>1, <6>2
        <5> QED
          BY <1>1, <4>1, <5>1
      <4>2. CASE k > n
        <5>1. c(k) = n /\ c(k - 1) = n
          BY <1>1, <4>2
        <5> QED
          <6>1. f[n] \in Nat
            BY <1>1, <1>3
          <6> QED
            BY <5>1, <6>1
      <4> QED
        BY <1>1, <4>1, <4>2
    <3>3. f[c(k)] \in Nat
      <4>1. c(k) \in 0 .. n
        BY <1>1
      <4> QED
        BY <1>3, <4>1
    <3>4. e[b(k)] <= f[c(k)]
      BY <2>1, <3>1, <3>2, <3>3
    <3> QED
      BY <3>4
  <2> QED
    BY <2>2, <2>3
<1>6. most \in P
  <2>1. most \in Nat
    BY <1>1
  <2> HIDE DEF P, most
  <2>2. \A k \in 0 .. most : k \in P
    BY <1>4, <1>5, <2>1, NatSteps
  <2> QED
    BY <2>1, <2>2
<1>7. b(most) = m /\ c(most) = n
  BY <1>1
<1> QED
  BY <1>1, <1>2, <1>3, <1>6, <1>7

\* A sum over two sets apart is the two sums.
LEMMA SumSplits ==
  ASSUME NEW v \in Seq(Seen), NEW S, NEW T, S \cap T = {}
  PROVE  Sum(v, S \cup T) = Sum(v, S) + Sum(v, T)
<1> DEFINE n == Len(v)
           t(k) == Tokens(v[k])
<1>1. n \in Nat /\ \A i \in 1 .. n : t(i) \in Nat
  BY SeenType
<1>20. PICK d : SumSteps(v, S \cup T, d)
  BY SumUnfolds
<1>2. /\ d \in [0 .. n -> Nat] /\ d[0] = 0
      /\ \A k \in 1 .. n : d[k] = d[k - 1] + IF k \in S \cup T THEN t(k) ELSE 0
      /\ Sum(v, S \cup T) = d[n]
  BY <1>20 DEF SumSteps
<1>30. PICK e : SumSteps(v, S, e)
  BY SumUnfolds
<1>3. /\ e \in [0 .. n -> Nat] /\ e[0] = 0
      /\ \A k \in 1 .. n : e[k] = e[k - 1] + IF k \in S THEN t(k) ELSE 0
      /\ Sum(v, S) = e[n]
  BY <1>30 DEF SumSteps
<1>40. PICK f : SumSteps(v, T, f)
  BY SumUnfolds
<1>4. /\ f \in [0 .. n -> Nat] /\ f[0] = 0
      /\ \A k \in 1 .. n : f[k] = f[k - 1] + IF k \in T THEN t(k) ELSE 0
      /\ Sum(v, T) = f[n]
  BY <1>40 DEF SumSteps
<1> DEFINE P == {k \in 0 .. n : d[k] = e[k] + f[k]}
<1>5. 0 \in P
  BY <1>1, <1>2, <1>3, <1>4
<1> HIDE DEF n, t
<1>6. ASSUME NEW k \in 1 .. n, k - 1 \in P
      PROVE  k \in P
  <2>1. /\ d[k] = d[k - 1] + IF k \in S \cup T THEN t(k) ELSE 0
        /\ e[k] = e[k - 1] + IF k \in S THEN t(k) ELSE 0
        /\ f[k] = f[k - 1] + IF k \in T THEN t(k) ELSE 0
    BY <1>2, <1>3, <1>4
  <2>2. t(k) \in Nat /\ d[k - 1] \in Nat /\ e[k - 1] \in Nat /\ f[k - 1] \in Nat
    BY <1>1, <1>2, <1>3, <1>4
  <2>3. d[k] = e[k] + f[k]
    BY <1>6, <2>1, <2>2
  <2> QED
    BY <2>3
<1>7. n \in P
  <2> HIDE DEF P
  <2>1. \A k \in 0 .. n : k \in P
    BY <1>1, <1>5, <1>6, NatSteps
  <2> QED
    BY <1>1, <2>1
<1> QED
  BY <1>2, <1>3, <1>4, <1>7

LEMMA SumOfNone ==
  ASSUME NEW v \in Seq(Seen), NEW S, \A i \in Places(v) : i \notin S
  PROVE  Sum(v, S) = 0
<1>1. Sum(v, S) = Sum(v, S) + Sum(v, {})
  <2>1. S \cup {} = S
    OBVIOUS
  <2> QED
    BY <2>1, SumSplits
<1>2. Sum(v, S) \in Nat /\ Sum(v, {}) \in Nat /\ Sum(v, S) <= Sum(v, {})
  BY SumCompares
<1> QED
  BY <1>1, <1>2

LEMMA SumOfOne ==
  ASSUME NEW v \in Seq(Seen), NEW i \in Places(v)
  PROVE  Sum(v, {i}) = Tokens(v[i])
<1> DEFINE n == Len(v)
<1>1. n \in Nat /\ i \in 1 .. n /\ Tokens(v[i]) \in Nat
  BY SeenType
<1>20. PICK f : SumSteps(v, {i}, f)
  BY SumUnfolds
<1>2. /\ f \in [0 .. n -> Nat] /\ f[0] = 0
      /\ \A k \in 1 .. n : f[k] = f[k - 1] + IF k \in {i} THEN Tokens(v[k]) ELSE 0
      /\ Sum(v, {i}) = f[n]
  BY <1>20 DEF SumSteps
<1> DEFINE P == {k \in 0 .. n : f[k] = IF k < i THEN 0 ELSE Tokens(v[i])}
<1> HIDE DEF n
<1>3. 0 \in P
  BY <1>1, <1>2
<1>4. ASSUME NEW k \in 1 .. n, k - 1 \in P
      PROVE  k \in P
  <2>1. f[k] = f[k - 1] + IF k = i THEN Tokens(v[i]) ELSE 0
    BY <1>2
  <2>2. f[k - 1] = IF k - 1 < i THEN 0 ELSE Tokens(v[i])
    BY <1>4
  <2>3. f[k] = IF k < i THEN 0 ELSE Tokens(v[i])
    <3> HIDE DEF P
    <3> QED
      BY <1>1, <2>1, <2>2
  <2> QED
    BY <2>3
<1>5. n \in P
  <2> HIDE DEF P
  <2>1. \A k \in 0 .. n : k \in P
    BY <1>1, <1>3, <1>4, NatSteps
  <2> QED
    BY <1>1, <2>1
<1> QED
  BY <1>1, <1>2, <1>5

-----------------------------------------------------------------------------
(* Passes.                                                                 *)

\* Two views of the same messages differ in their outputs only.
Alike(v, w) ==
  /\ Len(v) = Len(w)
  /\ \A i \in Places(v) :
       /\ v[i].role = w[i].role /\ v[i].text = w[i].text /\ v[i].tool = w[i].tool
       /\ v[i].usage = w[i].usage /\ v[i].old = w[i].old /\ v[i].cut = w[i].cut

Accounts(v) == [view : {w \in Seq(Seen) : Alike(w, v)}, need : Int]

Shrunk(acc, i, short) ==
  [view |-> [acc.view EXCEPT ![i].out = short, ![i].whole = FALSE],
   need |-> acc.need - (acc.view[i].out - short)]

\* What one step of a pass takes off the view, it takes off the account.
LEMMA ShrunkKeeps ==
  ASSUME NEW v \in Seq(Seen), NEW acc \in Accounts(v), NEW i \in Places(v), NEW n \in Nat
  PROVE  LET r == Shrunk(acc, i, n)
         IN /\ r \in Accounts(v)
            /\ r.need - Wire(r.view) = acc.need - Wire(acc.view)
            /\ r.view[i].out = n
            /\ \A k \in Places(v) : k # i => r.view[k].out = acc.view[k].out
<1> DEFINE w == acc.view
           u == [w EXCEPT ![i].out = n, ![i].whole = FALSE]
<1>1. w \in Seq(Seen) /\ Alike(w, v) /\ acc.need \in Int
  BY DEF Accounts
<1>2. /\ Len(v) \in Nat /\ Places(v) = 1 .. Len(v) /\ Len(w) = Len(v) /\ Places(w) = Places(v)
      /\ w[i] \in Seen /\ Tokens(w[i]) = w[i].text + w[i].out
      /\ w[i].text \in Nat /\ w[i].out \in Nat
  <2>1. Len(v) \in Nat /\ Places(v) = 1 .. Len(v)
    BY SeenType
  <2>2. Len(w) = Len(v) /\ Places(w) = 1 .. Len(w)
    BY <1>1, SeenType DEF Alike
  <2> QED
    BY <1>1, <2>1, <2>2, SeenType
<1>3. /\ u \in Seq(Seen) /\ Len(u) = Len(w) /\ Places(u) = Places(v)
      /\ u[i] = [w[i] EXCEPT !.out = n, !.whole = FALSE]
      /\ \A k \in Places(v) : k # i => u[k] = w[k]
  <2>1. [w[i] EXCEPT !.out = n, !.whole = FALSE] \in Seen
    BY <1>2 DEF Seen
  <2>2. u = [w EXCEPT ![i] = [w[i] EXCEPT !.out = n, !.whole = FALSE]]
    OBVIOUS
  <2> HIDE DEF u, w
  <2> DEFINE x == [w[i] EXCEPT !.out = n, !.whole = FALSE]
  <2>3. x \in Seen /\ u = [w EXCEPT ![i] = x]
    BY <2>1, <2>2
  <2> HIDE DEF x
  <2>4. u \in Seq(Seen) /\ Len(u) = Len(w)
    BY <1>1, <1>2, <2>3
  <2>5. DOMAIN u = DOMAIN w /\ i \in DOMAIN w
    BY <1>2, <2>3 DEF Places
  <2>6. Places(u) = Places(v) /\ u[i] = x /\ \A k \in Places(v) : k # i => u[k] = w[k]
    BY <1>1, <1>2, <2>3, <2>5 DEF Places
  <2> QED
    BY <2>4, <2>6 DEF x
<1>4. /\ u[i].out = n /\ u[i].text = w[i].text /\ u[i].role = w[i].role /\ u[i].tool = w[i].tool
      /\ u[i].usage = w[i].usage /\ u[i].old = w[i].old /\ u[i].cut = w[i].cut
  <2> HIDE DEF u, w
  <2> QED
    BY <1>2, <1>3 DEF Seen
<1> HIDE DEF u, w
<1>5. Alike(u, v)
  <2>1. ASSUME NEW k \in Places(v)
        PROVE  /\ u[k].role = v[k].role /\ u[k].text = v[k].text /\ u[k].tool = v[k].tool
               /\ u[k].usage = v[k].usage /\ u[k].old = v[k].old /\ u[k].cut = v[k].cut
    <3>1. /\ w[k].role = v[k].role /\ w[k].text = v[k].text /\ w[k].tool = v[k].tool
          /\ w[k].usage = v[k].usage /\ w[k].old = v[k].old /\ w[k].cut = v[k].cut
      BY <1>1, <1>2 DEF Alike
    <3>2. CASE k = i
      BY <1>4, <3>1, <3>2
    <3>3. CASE k # i
      BY <1>3, <3>1, <3>3
    <3> QED
      BY <3>2, <3>3
  <2> QED
    BY <1>2, <1>3, <2>1 DEF Alike
<1>6. Sum(u, Places(u)) = Sum(w, Places(w)) - (w[i].out - n)
  <2> DEFINE rest == Places(v) \ {i}
  <2>1. Places(u) = {i} \cup rest /\ Places(w) = {i} \cup rest /\ {i} \cap rest = {}
    BY <1>2, <1>3
  <2>2. \A k \in Places(v) : k \in rest => u[k] = w[k] /\ Tokens(u[k]) = Tokens(w[k]) /\ Tokens(u[k]) \in Nat
    BY <1>3, SeenType
  <2>3. \A k \in Places(v) : k \in rest => Tokens(u[k]) <= Tokens(w[k]) /\ Tokens(w[k]) <= Tokens(u[k])
    BY <2>2
  <2> HIDE DEF rest
  <2>4. Sum(u, rest) \in Nat /\ Sum(w, rest) \in Nat /\ Sum(u, rest) <= Sum(w, rest)
    BY <1>1, <1>2, <1>3, <2>3, SumCompares
  <2>5. Sum(w, rest) <= Sum(u, rest)
    BY <1>1, <1>2, <1>3, <2>3, SumCompares
  <2>6. Sum(u, {i} \cup rest) = Sum(u, {i}) + Sum(u, rest)
    BY <1>3, <2>1, SumSplits
  <2>7. Sum(w, {i} \cup rest) = Sum(w, {i}) + Sum(w, rest)
    BY <1>1, <2>1, SumSplits
  <2>8. Sum(u, {i}) = Tokens(u[i]) /\ Sum(w, {i}) = Tokens(w[i])
    BY <1>1, <1>2, <1>3, SumOfOne
  <2>9. Tokens(u[i]) = w[i].text + n
    BY <1>4 DEF Tokens
  <2>10. Sum(u, Places(u)) = w[i].text + n + Sum(u, rest)
    BY <2>1, <2>6, <2>8, <2>9
  <2>11. Sum(w, Places(w)) = w[i].text + w[i].out + Sum(w, rest)
    BY <1>2, <2>1, <2>7, <2>8
  <2>12. w[i].text \in Nat /\ w[i].out \in Nat
    BY <1>2
  <2> QED
    BY <2>4, <2>5, <2>10, <2>11, <2>12
<1>7. Sum(w, Places(w)) \in Nat
  BY <1>1, SumCompares
<1>8. SystemTokens \in Nat
  BY BudgetAssumption
<1>9. /\ Shrunk(acc, i, n).view = u
      /\ Shrunk(acc, i, n).need = acc.need - (w[i].out - n)
      /\ Shrunk(acc, i, n) = [view |-> u, need |-> acc.need - (w[i].out - n)]
  BY DEF Shrunk, u, w
<1>10. Shrunk(acc, i, n) \in Accounts(v)
  BY <1>1, <1>2, <1>3, <1>5, <1>9 DEF Accounts
<1>11. acc.need - (w[i].out - n) - Wire(u) = acc.need - Wire(w)
  <2> DEFINE a == Sum(w, Places(w))
             b == Sum(u, Places(u))
             p == acc.need
             q == w[i].out
  <2>1. Wire(w) = SystemTokens + a /\ Wire(u) = SystemTokens + b
    BY Zenon DEF Wire
  <2>2. b = a - (q - n) /\ a \in Nat /\ p \in Int /\ q \in Int
    BY <1>1, <1>2, <1>6, <1>7
  <2> HIDE DEF a, b, p, q
  <2>3. p - (q - n) - Wire(u) = p - Wire(w)
    BY <1>8, <2>1, <2>2
  <2> QED
    BY <2>3 DEF p, q
<1>12. \A k \in Places(v) : k # i => u[k].out = w[k].out
  BY <1>3
<1> QED
  BY <1>4, <1>9, <1>10, <1>11, <1>12 DEF w

\* A whole pass: the account stays true, an output is what it was or the size
\* given, and the need is met or nothing visited is left above the floor.
Passed(v, start, order, limit, to, floor, r) ==
  /\ r \in Accounts(v)
  /\ r.need - Wire(r.view) = start.need - Wire(start.view)
  /\ \A i \in Places(v) :
       \/ r.view[i].out = start.view[i].out
       \/ r.view[i].out = to /\ start.view[i].out > floor
  /\ \/ r.need <= limit
     \/ \A n \in 1 .. Len(order) :
          r.view[order[n]].out <= floor \/ r.view[order[n]].out = to

LEMMA PassKeeps ==
  ASSUME NEW v \in Seq(Seen), NEW start \in Accounts(v), NEW order \in Seq(Places(v)),
         NEW limit \in Int, NEW to \in Nat, NEW floor \in Nat
  PROVE  Passed(v, start, order, limit, to, floor, Pass(start, order, limit, to, floor))
<1> DEFINE c == Len(order)
           turn(acc, i) == IF acc.need <= limit \/ acc.view[i].out <= floor THEN acc
                           ELSE Shrunk(acc, i, to)
           step == [n \in 1 .. c |-> [acc \in Accounts(v) |-> turn(acc, order[n])]]
           after == CHOOSE f : f = [n \in 0 .. c |->
                                     IF n = 0 THEN start ELSE turn(f[n - 1], order[n])]
<1>1. c \in Nat /\ \A n \in 1 .. c : order[n] \in Places(v)
  OBVIOUS
<1>2. \A acc \in Accounts(v), i \in Places(v) : turn(acc, i) \in Accounts(v)
  BY ShrunkKeeps
<1>3. step \in [1 .. c -> [Accounts(v) -> Accounts(v)]]
  <2> HIDE DEF turn, c
  <2> QED
    BY <1>1, <1>2
<1>4. PICK g : Runs(g, c, Accounts(v), start, step)
  <2> HIDE DEF step, c
  <2> QED
    BY <1>1, <1>3, Recursion
<1>5. \A n \in 0 .. c : g[n] = IF n = 0 THEN start ELSE turn(g[n - 1], order[n])
  <2>1. /\ g \in [0 .. c -> Accounts(v)] /\ g[0] = start
        /\ \A n \in 1 .. c : g[n] = step[n][g[n - 1]]
    <3> HIDE DEF step, c
    <3> QED
      BY <1>4 DEF Runs
  <2> HIDE DEF turn, c
  <2>2. ASSUME NEW n \in 1 .. c
        PROVE  g[n] = turn(g[n - 1], order[n])
    <3>1. g[n - 1] \in Accounts(v)
      BY <1>1, <2>1
    <3>2. step[n] = [acc \in Accounts(v) |-> turn(acc, order[n])]
      OBVIOUS
    <3>3. g[n] = step[n][g[n - 1]]
      BY <2>1
    <3> QED
      BY <3>1, <3>2, <3>3
  <2> QED
    BY <1>1, <2>1, <2>2
<1>6. g = [n \in 0 .. c |-> IF n = 0 THEN start ELSE turn(g[n - 1], order[n])]
  <2>1. g \in [0 .. c -> Accounts(v)]
    <3> HIDE DEF step, c
    <3> QED
      BY <1>4 DEF Runs
  <2> HIDE DEF turn, c
  <2> QED
    BY <1>5, <2>1
<1>7. after = [n \in 0 .. c |-> IF n = 0 THEN start ELSE turn(after[n - 1], order[n])]
  <2> HIDE DEF turn, c
  <2> QED
    BY <1>6, Zenon
<1>8. Pass(start, order, limit, to, floor) = after[c]
  BY Zenon DEF Pass, Shrunk, after, turn, c
<1> HIDE DEF after
<1>9. after[0] = start /\ \A n \in 1 .. c : after[n] = turn(after[n - 1], order[n])
  <2> HIDE DEF turn, c
  <2> QED
    BY <1>1, <1>7
<1> DEFINE Kept(r, n) ==
             /\ r \in Accounts(v)
             /\ r.need - Wire(r.view) = start.need - Wire(start.view)
             /\ \A i \in Places(v) :
                 \/ r.view[i].out = start.view[i].out
                 \/ r.view[i].out = to /\ start.view[i].out > floor
             /\ \/ r.need <= limit
                \/ \A k \in 1 .. n : r.view[order[k]].out <= floor \/ r.view[order[k]].out = to
           P == {n \in 0 .. c : Kept(after[n], n)}
<1>10. 0 \in P
  <2>1. Kept(start, 0)
    OBVIOUS
  <2> HIDE DEF Kept, c
  <2> QED
    BY <1>1, <1>9, <2>1
<1>11. ASSUME NEW n \in 1 .. c, n - 1 \in P
       PROVE  n \in P
  <2> DEFINE acc == after[n - 1]
             i == order[n]
  <2>1. Kept(acc, n - 1)
    BY <1>11
  <2>2. i \in Places(v) /\ after[n] = turn(acc, i)
    BY <1>1, <1>9
  <2> HIDE DEF acc, P, c
  <2>3. \A k \in 1 .. n : k = n \/ k \in 1 .. n - 1
    BY <1>1
  <2>4. CASE acc.need <= limit
    <3>1. after[n] = acc
      BY <2>2, <2>4
    <3> QED
      BY <2>1, <2>4, <3>1 DEF P
  <2>5. CASE ~(acc.need <= limit) /\ acc.view[i].out <= floor
    <3>1. after[n] = acc
      BY <2>2, <2>5
    <3>2. Kept(acc, n)
      BY <2>1, <2>3, <2>5
    <3> QED
      BY <3>1, <3>2 DEF P
  <2>6. CASE ~(acc.need <= limit) /\ ~(acc.view[i].out <= floor)
    <3> DEFINE r == Shrunk(acc, i, to)
    <3>1. after[n] = r
      BY <2>2, <2>6
    <3>2. /\ r \in Accounts(v)
          /\ r.need - Wire(r.view) = acc.need - Wire(acc.view)
          /\ r.view[i].out = to
          /\ \A k \in Places(v) : k # i => r.view[k].out = acc.view[k].out
      <4> HIDE DEF i
      <4> QED
        BY <2>1, <2>2, ShrunkKeeps
    <3> HIDE DEF r, i
    <3>3. \A k \in Places(v) :
            \/ r.view[k].out = start.view[k].out
            \/ r.view[k].out = to /\ start.view[k].out > floor
      <4>1. \A k \in Places(v) :
              \/ acc.view[k].out = start.view[k].out
              \/ acc.view[k].out = to /\ start.view[k].out > floor
        BY <2>1
      <4>2. acc.view[i].out \in Int
        <5>1. acc.view \in Seq(Seen) /\ Places(acc.view) = Places(v)
          BY <2>1, SeenType DEF Accounts, Alike
        <5> QED
          BY <2>2, <5>1, SeenType
      <4>3. start.view[i].out > floor
        BY <2>2, <2>6, <4>1, <4>2
      <4> QED
        BY <3>2, <4>1, <4>3
    <3>4. \A k \in 1 .. n : r.view[order[k]].out <= floor \/ r.view[order[k]].out = to
      <4>1. ASSUME NEW k \in 1 .. n
            PROVE  r.view[order[k]].out <= floor \/ r.view[order[k]].out = to
        <5>1. CASE order[k] = i
          BY <3>2, <5>1
        <5>2. CASE order[k] # i
          <6>1. k \in 1 .. n - 1 /\ k \in 1 .. c
            BY <1>1, <2>3, <5>2 DEF i
          <6>2. r.view[order[k]].out = acc.view[order[k]].out
            BY <1>1, <3>2, <5>2, <6>1
          <6> QED
            BY <2>1, <2>6, <6>1, <6>2
        <5> QED
          BY <5>1, <5>2
      <4> QED
        BY <4>1
    <3>5. Kept(r, n)
      BY <2>1, <3>2, <3>3, <3>4
    <3> QED
      BY <3>1, <3>5 DEF P
  <2> QED
    BY <2>4, <2>5, <2>6
<1>12. Kept(after[c], c)
  <2> HIDE DEF P, c
  <2>1. \A n \in 0 .. c : n \in P
    BY <1>1, <1>10, <1>11, NatSteps
  <2> HIDE DEF Kept
  <2> QED
    BY <1>1, <2>1 DEF P
<1> QED
  BY <1>8, <1>12 DEF Passed

-----------------------------------------------------------------------------
(* Measures.                                                               *)

LEMMA Constants ==
  /\ {Fallback, CompletionReserve, OutputReserve, SystemTokens} \subseteq Nat
  /\ {LongOutput, ShortTokens, MinOutput, MinClear, Recent} \subseteq Nat
  /\ Windows \subseteq Nat
BY BudgetAssumption

LEMMA AlikeTransitive ==
  ASSUME NEW u \in Seq(Seen), NEW v \in Seq(Seen), NEW w \in Seq(Seen), Alike(u, v), Alike(v, w)
  PROVE  Alike(u, w)
<1>1. Places(u) = Places(v) /\ Places(v) = Places(w) /\ Len(u) = Len(w)
  BY SeenType DEF Alike
<1> QED
  BY <1>1 DEF Alike

\* The last report is a report, and none is behind it.
LEMMA LastReportIsLast ==
  ASSUME NEW v \in Seq(Seen)
  PROVE  /\ LastReport(v) \in 0 .. Len(v)
         /\ LastReport(v) # 0 => LastReport(v) \in Places(v) /\ v[LastReport(v)].usage > 0
         /\ LastReport(v) = 0 => \A i \in Places(v) : ~(v[i].usage > 0)
<1> DEFINE R == {i \in Places(v) : v[i].usage > 0}
<1>1. Len(v) \in Nat /\ Places(v) = 1 .. Len(v)
  BY SeenType
<1>2. CASE R = {}
  BY <1>1, <1>2 DEF LastReport, Newest
<1>3. CASE R # {}
  <2> DEFINE N == {Len(v) - i : i \in R}
  <2>1. \A i \in R : Len(v) - i \in Nat
    BY <1>1
  <2>2. N \subseteq Nat /\ N # {}
    BY <1>3, <2>1
  <2>3. PICK t \in N : \A r \in N : t <= r
    <3> HIDE DEF N
    <3> QED
      BY <2>2, NatMin
  <2>4. PICK i \in R : t = Len(v) - i
    OBVIOUS
  <2>5. \A k \in R : Len(v) - i <= Len(v) - k
    BY <2>3, <2>4
  <2>6. \A k \in R : k <= i
    BY <1>1, <2>5
  <2> DEFINE last == CHOOSE j \in R : \A k \in R : k <= j
  <2>7. last \in R
    BY <2>6, Zenon
  <2>8. LastReport(v) = last
    BY <1>3 DEF LastReport, Newest
  <2> HIDE DEF last
  <2> QED
    BY <1>1, <2>7, <2>8
<1> QED
  BY <1>2, <1>3

CachedFrom(v, rs, us) ==
  LET r == CHOOSE i \in rs : \A k \in rs : i <= k
      u == CHOOSE i \in us : \A k \in us : i <= k
      text == IF us = {} THEN 0 ELSE v[u].text
      prompt == v[r].usage - v[r].text
  IN IF system > 0 \/ rs = {} THEN system
     ELSE IF prompt > text THEN prompt - text ELSE 0

LEMMA CachedIsFrom ==
  ASSUME NEW v
  PROVE  Cached(v) = CachedFrom(v, {i \in Places(v) : v[i].usage > 0},
                                   {i \in Places(v) : v[i].role = "user"})
BY DEF Cached, CachedFrom

LEMMA MeasuresAgree ==
  ASSUME NEW v \in Seq(Seen), NEW w \in Seq(Seen), Alike(v, w)
  PROVE  LastReport(v) = LastReport(w) /\ Cached(v) = Cached(w)
<1>1. Places(v) = Places(w)
  BY SeenType DEF Alike
<1>2. /\ {i \in Places(v) : v[i].usage > 0} = {i \in Places(w) : w[i].usage > 0}
      /\ {i \in Places(v) : v[i].role = "user"} = {i \in Places(w) : w[i].role = "user"}
  BY <1>1 DEF Alike
<1>3. LastReport(v) = LastReport(w)
  BY <1>2 DEF LastReport
<1> DEFINE rs == {i \in Places(w) : w[i].usage > 0}
           us == {i \in Places(w) : w[i].role = "user"}
           r == CHOOSE i \in rs : \A k \in rs : i <= k
           u == CHOOSE i \in us : \A k \in us : i <= k
<1>4. ASSUME rs # {}
      PROVE  v[r].usage = w[r].usage /\ v[r].text = w[r].text
  <2>1. rs \subseteq Nat
    BY SeenType
  <2> HIDE DEF rs
  <2>2. \E i \in rs : \A k \in rs : i <= k
    BY <1>4, <2>1, NatMin
  <2>3. r \in rs
    BY <2>2, Zenon
  <2> HIDE DEF r
  <2> QED
    BY <1>1, <2>3 DEF rs, Alike
<1>5. ASSUME us # {}
      PROVE  v[u].text = w[u].text
  <2>1. us \subseteq Nat
    BY SeenType
  <2> HIDE DEF us
  <2>2. \E i \in us : \A k \in us : i <= k
    BY <1>5, <2>1, NatMin
  <2>3. u \in us
    BY <2>2, Zenon
  <2> HIDE DEF u
  <2> QED
    BY <1>1, <2>3 DEF us, Alike
<1> DEFINE text(x) == IF us = {} THEN 0 ELSE x[u].text
           prompt(x) == x[r].usage - x[r].text
           cached(x) == IF system > 0 \/ rs = {} THEN system
                        ELSE IF prompt(x) > text(x) THEN prompt(x) - text(x) ELSE 0
<1>6. Cached(v) = cached(v) /\ Cached(w) = cached(w)
  <2> HIDE DEF rs, us
  <2>1. Cached(v) = CachedFrom(v, rs, us) /\ Cached(w) = CachedFrom(w, rs, us)
    BY <1>2, CachedIsFrom DEF rs, us
  <2> QED
    BY <2>1, Zenon DEF CachedFrom
<1>7. text(v) = text(w) /\ (rs # {} => prompt(v) = prompt(w))
  <2> HIDE DEF rs, us, r, u
  <2> QED
    BY <1>4, <1>5
<1> HIDE DEF rs, us, text, prompt
<1>8. cached(v) = cached(w)
  BY <1>7
<1> QED
  BY <1>3, <1>6, <1>8

LEMMA MeasureTypes ==
  ASSUME NEW v \in Seq(Seen), system \in Nat
  PROVE  /\ Cached(v) \in Nat /\ CurrentTokens(v) \in Nat /\ Estimate(v) \in Nat
         /\ Wire(v) \in Nat /\ \A S : Sum(v, S) \in Nat
<1>1. \A S : Sum(v, S) \in Nat
  <2>1. ASSUME NEW S
        PROVE  Sum(v, S) \in Nat
    <3>1. \A i \in Places(v) : Tokens(v[i]) <= Tokens(v[i])
      BY SeenType
    <3> QED
      BY <3>1, SumCompares
  <2> QED
    BY <2>1
<1>2. Wire(v) \in Nat
  BY <1>1, Constants DEF Wire
<1>3. \A i \in Places(v) : v[i].usage \in Nat /\ v[i].text \in Nat
  BY SeenType DEF Seen
<1>4. CurrentTokens(v) \in Nat
  BY <1>1, <1>3, LastReportIsLast DEF CurrentTokens
<1>5. Cached(v) \in Nat
  <2> DEFINE rs == {i \in Places(v) : v[i].usage > 0}
             us == {i \in Places(v) : v[i].role = "user"}
             r == CHOOSE i \in rs : \A k \in rs : i <= k
             u == CHOOSE i \in us : \A k \in us : i <= k
             text == IF us = {} THEN 0 ELSE v[u].text
             prompt == v[r].usage - v[r].text
  <2>1. rs \subseteq Nat /\ us \subseteq Nat /\ rs \subseteq Places(v) /\ us \subseteq Places(v)
    BY SeenType
  <2>2. Cached(v) = IF system > 0 \/ rs = {} THEN system
                    ELSE IF prompt > text THEN prompt - text ELSE 0
    BY DEF Cached
  <2> HIDE DEF rs, us
  <2>3. rs # {} => r \in rs
    <3>1. rs # {} => \E i \in rs : \A k \in rs : i <= k
      BY <2>1, NatMin
    <3> QED
      BY <3>1, Zenon
  <2>4. us # {} => u \in us
    <3>1. us # {} => \E i \in us : \A k \in us : i <= k
      BY <2>1, NatMin
    <3> QED
      BY <3>1, Zenon
  <2> HIDE DEF r, u
  <2>5. text \in Nat /\ (rs # {} => prompt \in Int)
    <3>1. rs # {} => v[r].usage \in Nat /\ v[r].text \in Nat
      BY <1>3, <2>1, <2>3
    <3>2. us # {} => v[u].text \in Nat
      BY <1>3, <2>1, <2>4
    <3> QED
      BY <3>1, <3>2
  <2> HIDE DEF text, prompt
  <2> QED
    BY <2>2, <2>5
<1>6. Estimate(v) \in Nat
  BY <1>1, <1>4, <1>5 DEF Estimate
<1> QED
  BY <1>1, <1>2, <1>4, <1>5, <1>6

-----------------------------------------------------------------------------
(* What is sent.                                                           *)

\* The orders of the passes visit the places they are given, each of them.
LEMMA Orders ==
  ASSUME NEW v \in Seq(Seen), NEW S \in SUBSET Places(v)
  PROVE  /\ LargestFirst(v, S) \in Seq(Places(v))
         /\ OldestFirst(S) \in Seq(Places(v))
         /\ \A i \in S : \E n \in 1 .. Len(OldestFirst(S)) : OldestFirst(S)[n] = i
<1> DEFINE larger == [i \in S |-> {k \in S : \/ v[k].out > v[i].out
                                             \/ v[k].out = v[i].out /\ k < i}]
           older == [i \in S |-> {k \in S : k < i}]
<1>1. /\ IsFiniteSet(S) /\ S \subseteq Int
      /\ \A i \in S : v[i].out \in Int
  <2>1. Len(v) \in Nat /\ S \subseteq 1 .. Len(v)
    BY SeenType
  <2>2. IsFiniteSet(1 .. Len(v))
    BY <2>1, FS_Interval
  <2> QED
    BY <2>1, <2>2, FS_Subset, SeenType
<1>2. /\ Ranked(S, larger) \in Seq(S)
  <2>1. larger \in [S -> SUBSET S]
    OBVIOUS
  <2>2. \A i \in S : i \notin larger[i]
    BY <1>1
  <2>3. ASSUME NEW i \in S, NEW k \in S, i # k
        PROVE  i \in larger[k] \/ k \in larger[i]
    <3>1. v[i].out \in Int /\ v[k].out \in Int /\ i \in Int /\ k \in Int
      BY <1>1
    <3>2. \/ v[i].out > v[k].out \/ v[k].out > v[i].out
          \/ v[i].out = v[k].out /\ (i < k \/ k < i)
      BY <2>3, <3>1
    <3> QED
      BY <3>2
  <2>4. ASSUME NEW i \in S, NEW k \in larger[i], NEW j \in larger[k]
        PROVE  j \in larger[i]
    <3>1. k \in S /\ j \in S
      OBVIOUS
    <3> QED
      BY <1>1, <2>4, <3>1
  <2> HIDE DEF larger
  <2>5. \A i \in S : \A k \in larger[i] : larger[k] \subseteq larger[i]
    BY <2>4
  <2>6. Visits(Ranked(S, larger), S)
    BY <1>1, <2>1, <2>2, <2>3, <2>5, RankedCovers
  <2> QED
    BY <2>6 DEF Visits
<1>3. /\ Ranked(S, older) \in Seq(S)
      /\ \A i \in S : \E n \in 1 .. Len(Ranked(S, older)) : Ranked(S, older)[n] = i
  <2>1. older \in [S -> SUBSET S]
    OBVIOUS
  <2>2. \A i \in S : i \notin older[i]
    BY <1>1
  <2>3. \A i, k \in S : i # k => i \in older[k] \/ k \in older[i]
    BY <1>1
  <2>4. ASSUME NEW i \in S, NEW k \in older[i], NEW j \in older[k]
        PROVE  j \in older[i]
    <3>1. k \in S /\ j \in S
      OBVIOUS
    <3> QED
      BY <1>1, <2>4, <3>1
  <2> HIDE DEF older
  <2>5. \A i \in S : \A k \in older[i] : older[k] \subseteq older[i]
    BY <2>4
  <2>6. Visits(Ranked(S, older), S)
    BY <1>1, <2>1, <2>2, <2>3, <2>5, RankedCovers
  <2> QED
    BY <2>6 DEF Visits
<1>4. Seq(S) \subseteq Seq(Places(v))
  OBVIOUS
<1> QED
  BY <1>2, <1>3, <1>4 DEF LargestFirst, OldestFirst

\* Truncation leaves the same messages.
LEMMA TruncatedKeeps ==
  ASSUME NEW v \in Seq(Seen), system \in Nat, window \in Nat
  PROVE  Truncated(v) \in Seq(Seen) /\ Alike(Truncated(v), v)
<1> DEFINE limit == IF window > 0 THEN window ELSE Fallback
           threshold == Smaller(limit, limit - Cached(v) - OutputReserve)
           current == CurrentTokens(v)
           large == {i \in Outputs(v) : v[i].out >= MinOutput}
           target == (9 * threshold) \div 10
           start == [view |-> v, need |-> current]
           passed == Pass(start, LargestFirst(v, large), target, ShortTokens, LongOutput)
<1>1. Truncated(v) = v \/ Truncated(v) = passed.view
  BY Zenon DEF Truncated
<1>2. Alike(v, v)
  BY DEF Alike
<1>3. passed \in Accounts(v)
  <2>1. threshold \in Int
    <3>1. limit \in Int /\ Cached(v) \in Int /\ OutputReserve \in Int
      BY MeasureTypes, Constants
    <3> HIDE DEF limit
    <3> QED
      BY <3>1 DEF Smaller
  <2>2. target \in Int
    <3> HIDE DEF threshold
    <3> QED
      BY <2>1
  <2>3. start \in Accounts(v)
    BY <1>2, MeasureTypes DEF Accounts
  <2>4. large \in SUBSET Places(v)
    BY DEF Outputs
  <2> HIDE DEF target, start, large
  <2>5. LargestFirst(v, large) \in Seq(Places(v))
    BY <2>4, Orders
  <2> QED
    BY <2>2, <2>3, <2>5, PassKeeps, Constants DEF Passed
<1> HIDE DEF passed
<1> QED
  BY <1>1, <1>2, <1>3 DEF Accounts

\* GuardDelivers, of any history.
LEMMA EnforcedDelivers ==
  ASSUME NEW v \in Seq(Seen), system \in Nat, window \in Nat, window > 0, Budget > 0
  PROVE  LET sent == Enforced(v)
         IN \/ Estimate(v) - (Wire(v) - Wire(sent)) <= Budget
            \/ \A i \in Candidates(sent) : sent[i].out <= MinClear
<1>1. /\ Estimate(v) \in Nat /\ Wire(v) \in Nat /\ Budget \in Int
      /\ ShortTokens \in Nat /\ LongOutput \in Nat /\ MinClear \in Nat
  BY MeasureTypes, Constants DEF Budget
<1>2. CASE Estimate(v) <= Budget
  <2>1. Enforced(v) = v
    BY <1>2 DEF Enforced
  <2> QED
    BY <1>1, <1>2, <2>1
<1>3. CASE ~(Estimate(v) <= Budget)
  <2> DEFINE s == Shortened(v, Estimate(v))
             r == Cleared(v, s)
             first == [view |-> v, need |-> Estimate(v)]
             order == LargestFirst(v, {i \in Candidates(v) : v[i].whole})
             more == IF LongOutput > ShortTokens THEN LongOutput ELSE ShortTokens
             oldest == OldestFirst(Candidates(v))
  <2>1. Enforced(v) = r.view
    BY <1>1, <1>3 DEF Enforced
  <2>2. Candidates(v) \subseteq Places(v)
    BY DEF Candidates, Outputs
  <2>3. first \in Accounts(v)
    BY <1>1 DEF Accounts, Alike
  <2>4. order \in Seq(Places(v)) /\ oldest \in Seq(Places(v))
    BY <2>2, Orders
  <2>5. s = Pass(first, order, Budget, ShortTokens, more)
    BY DEF Shortened
  <2>6. r = Pass(s, oldest, Budget, 0, MinClear)
    BY DEF Cleared
  <2>7. \A i \in Candidates(v) : \E n \in 1 .. Len(oldest) : oldest[n] = i
    BY <2>2, Orders
  <2>8. more \in Nat /\ 0 \in Nat
    BY <1>1
  <2> HIDE DEF order, more, oldest, s, r
  <2>9. /\ s \in Accounts(v) /\ s.need - Wire(s.view) = Estimate(v) - Wire(v)
        /\ \A i \in Places(v) : \/ s.view[i].out = v[i].out
                                \/ s.view[i].out = ShortTokens /\ v[i].out > more
    <3>1. first.view = v /\ first.need = Estimate(v)
      OBVIOUS
    <3> HIDE DEF first
    <3>2. Passed(v, first, order, Budget, ShortTokens, more, s)
      BY <1>1, <2>3, <2>4, <2>5, <2>8, PassKeeps
    <3> QED
      BY <3>1, <3>2 DEF Passed
  <2>10. /\ r \in Accounts(v) /\ r.need - Wire(r.view) = s.need - Wire(s.view)
         /\ \A i \in Places(v) : \/ r.view[i].out = s.view[i].out
                                 \/ r.view[i].out = 0 /\ s.view[i].out > MinClear
         /\ \/ r.need <= Budget
            \/ \A n \in 1 .. Len(oldest) :
                 r.view[oldest[n]].out <= MinClear \/ r.view[oldest[n]].out = 0
    <3>1. Passed(v, s, oldest, Budget, 0, MinClear, r)
      BY <1>1, <2>4, <2>6, <2>8, <2>9, PassKeeps
    <3> QED
      BY <3>1 DEF Passed
  <2>11. /\ r.view \in Seq(Seen) /\ s.view \in Seq(Seen) /\ r.need \in Int /\ s.need \in Int
         /\ Places(r.view) = Places(v) /\ Len(r.view) = Len(v)
         /\ \A i \in Places(v) : r.view[i].tool = v[i].tool
    BY <2>9, <2>10, SeenType DEF Accounts, Alike
  <2>12. Wire(r.view) \in Nat /\ Wire(s.view) \in Nat
    BY <2>11, MeasureTypes
  <2>13. CASE r.need <= Budget
    <3>1. r.need = Estimate(v) - (Wire(v) - Wire(r.view))
      <4>1. r.need - Wire(r.view) = Estimate(v) - Wire(v)
        BY <2>9, <2>10
      <4>2. r.need \in Int
        BY <2>11
      <4>3. Estimate(v) \in Int /\ Wire(v) \in Int /\ Wire(r.view) \in Int
        BY <1>1, <2>12
      <4> DEFINE a == r.need
                 b == Wire(r.view)
                 c == Estimate(v)
                 d == Wire(v)
      <4> HIDE DEF a, b, c, d
      <4>5. a - b = c - d /\ a \in Int /\ b \in Int /\ c \in Int /\ d \in Int
        BY <4>1, <4>2, <4>3 DEF a, b, c, d
      <4>6. a = c - (d - b)
        BY <4>5
      <4> QED
        BY <4>6 DEF a, b, c, d
    <3> QED
      BY <2>1, <2>13, <3>1
  <2>14. CASE \A n \in 1 .. Len(oldest) :
                r.view[oldest[n]].out <= MinClear \/ r.view[oldest[n]].out = 0
    <3>1. ASSUME NEW i \in Candidates(r.view)
          PROVE  r.view[i].out <= MinClear
      <4>1. /\ i \in Places(v) /\ r.view[i].out > 0 /\ i <= Len(v) - Recent
            /\ v[i].tool = "any"
        BY <2>11 DEF Candidates, Outputs
      <4>2. v[i].out \in Nat /\ s.view[i].out \in Nat
        <5>1. Places(s.view) = Places(v)
          BY <2>9, <2>11, SeenType DEF Accounts, Alike
        <5> QED
          BY <2>11, <4>1, <5>1, SeenType
      <4>3. v[i].out > 0
        BY <1>1, <2>8, <2>9, <2>10, <4>1, <4>2
      <4>4. i \in Candidates(v)
        BY <4>1, <4>3 DEF Candidates, Outputs
      <4>5. PICK n \in 1 .. Len(oldest) : oldest[n] = i
        BY <2>7, <4>4
      <4> QED
        BY <1>1, <2>14, <4>1, <4>5
    <3> QED
      BY <2>1, <3>1
  <2> QED
    BY <2>10, <2>13, <2>14
<1> QED
  BY <1>2, <1>3

\* The guard leaves the same messages.
LEMMA EnforcedKeeps ==
  ASSUME NEW v \in Seq(Seen), system \in Nat, window \in Nat
  PROVE  Enforced(v) \in Seq(Seen) /\ Alike(Enforced(v), v)
<1> DEFINE s == Shortened(v, Estimate(v))
           r == Cleared(v, s)
           first == [view |-> v, need |-> Estimate(v)]
           order == LargestFirst(v, {i \in Candidates(v) : v[i].whole})
           more == IF LongOutput > ShortTokens THEN LongOutput ELSE ShortTokens
           oldest == OldestFirst(Candidates(v))
<1>1. /\ Estimate(v) \in Nat /\ Budget \in Int /\ more \in Nat /\ 0 \in Nat
      /\ ShortTokens \in Nat /\ MinClear \in Nat
  BY MeasureTypes, Constants DEF Budget
<1>2. Candidates(v) \subseteq Places(v)
  BY DEF Candidates, Outputs
<1>3. first \in Accounts(v)
  BY <1>1 DEF Accounts, Alike
<1>4. order \in Seq(Places(v)) /\ oldest \in Seq(Places(v))
  BY <1>2, Orders
<1>5. s = Pass(first, order, Budget, ShortTokens, more)
  BY DEF Shortened
<1>6. r = Pass(s, oldest, Budget, 0, MinClear)
  BY DEF Cleared
<1>7. Enforced(v) \in {v, r.view}
  BY DEF Enforced
<1> HIDE DEF order, more, oldest, s, r, first
<1>8. s \in Accounts(v)
  BY <1>1, <1>3, <1>4, <1>5, PassKeeps DEF Passed
<1>9. r \in Accounts(v)
  BY <1>1, <1>4, <1>6, <1>8, PassKeeps DEF Passed
<1> QED
  BY <1>7, <1>9 DEF Accounts, Alike

-----------------------------------------------------------------------------
(* The invariant.                                                          *)

LEMMA HistoryIsSeen ==
  ASSUME NEW h \in Seq(Message)
  PROVE  h \in Seq(Seen)
<1>1. Message \subseteq Seen
  BY DEF Message, Seen
<1> QED
  BY <1>1

LEMMA StateTypes ==
  ASSUME BudgetIInv
  PROVE  history \in Seq(Seen) /\ system \in Nat /\ window \in Nat
BY HistoryIsSeen, Constants DEF BudgetIInv

\* What is known of the system prompt covers it.
LEMMA CachedCovers ==
  ASSUME BudgetIInv
  PROVE  Cached(history) = 0 \/ (Cached(history) \in Nat /\ Cached(history) >= SystemTokens)
<1> DEFINE rs == {i \in Places(history) : history[i].usage > 0}
           us == {i \in Places(history) : history[i].role = "user"}
           r == CHOOSE i \in rs : \A k \in rs : i <= k
           u == CHOOSE i \in us : \A k \in us : i <= k
           text == IF us = {} THEN 0 ELSE history[u].text
           prompt == history[r].usage - history[r].text
<1>1. Cached(history) = IF system > 0 \/ rs = {} THEN system
                        ELSE IF prompt > text THEN prompt - text ELSE 0
  BY DEF Cached
<1>2. SystemTokens \in Nat /\ history \in Seq(Seen)
  BY Constants, StateTypes
<1>3. system = 0 \/ (system \in Nat /\ system >= SystemTokens)
  BY DEF BudgetIInv
<1>4. CASE system > 0 \/ rs = {}
  <2> HIDE DEF rs, prompt, text
  <2> QED
    BY <1>1, <1>3, <1>4
<1>5. CASE ~(system > 0 \/ rs = {})
  <2>1. rs \subseteq Nat /\ us \subseteq Nat /\ rs \subseteq Places(history)
        /\ Places(history) = 1 .. Len(history) /\ Len(history) \in Nat
    BY <1>2, SeenType
  <2>2. r \in rs
    <3> HIDE DEF rs
    <3>1. \E i \in rs : \A k \in rs : i <= k
      BY <1>5, <2>1, NatMin
    <3> QED
      BY <3>1, Zenon
  <2> HIDE DEF r
  <2>3. /\ history[r].usage \in Nat /\ history[r].usage >= SystemTokens + 2
        /\ history[r].text = 1
    <3>1. history[r].usage \in Nat
      BY <1>2, <2>2, SeenType DEF Seen
    <3> QED
      BY <2>2, <3>1 DEF BudgetIInv, Reports
  <2>4. 1 \in us /\ history[1].text = 1
    <3>1. history # <<>>
      BY <2>1, <2>2
    <3> QED
      BY <2>1, <2>2, <3>1 DEF BudgetIInv
  <2>5. u \in us /\ u <= 1
    <3> HIDE DEF us
    <3>1. \E i \in us : \A k \in us : i <= k
      BY <2>1, <2>4, NatMin
    <3>2. u \in us /\ \A k \in us : u <= k
      BY <3>1, Zenon
    <3> QED
      BY <2>4, <3>2
  <2>6. u = 1
    <3> HIDE DEF u
    <3> QED
      BY <2>1, <2>5
  <2> HIDE DEF u
  <2>7. text = 1
    BY <2>4, <2>6
  <2>8. prompt \in Int /\ prompt >= SystemTokens + 1
    BY <1>2, <2>3
  <2> HIDE DEF text, prompt, rs
  <2> QED
    BY <1>1, <1>2, <1>5, <2>7, <2>8
<1> QED
  BY <1>4, <1>5

LEMMA BudgetInitHolds == BudgetInit => BudgetIInv
<1> SUFFICES ASSUME BudgetInit PROVE BudgetIInv
  OBVIOUS
<1>1. history = <<>> /\ window \in Windows /\ system = 0
  BY DEF BudgetInit
<1>2. Reports(<<>>)
  BY DEF Reports, Places
<1> QED
  BY <1>1, <1>2 DEF BudgetIInv

\* A message goes behind a history, with no report or one that counts it.
LEMMA ReportsGrow ==
  ASSUME NEW h \in Seq(Message), Reports(h), NEW m \in Message,
         m.usage > 0 =>
           /\ m.role = "assistant" /\ m.text = 1 /\ m.usage >= SystemTokens + 2
           /\ ~m.old => m.usage = SystemTokens + Sum(h, Places(h)) + 1 - m.cut
  PROVE  Append(h, m) \in Seq(Message) /\ Reports(Append(h, m))
<1> DEFINE g == Append(h, m)
           n == Len(h)
<1>1. /\ g \in Seq(Message) /\ n \in Nat /\ Places(h) = 1 .. n /\ Places(g) = 1 .. n + 1
      /\ g[n + 1] = m /\ \A k \in 1 .. n : g[k] = h[k]
  BY DEF Places
<1>2. h \in Seq(Seen) /\ g \in Seq(Seen)
  <2> HIDE DEF g
  <2> QED
    BY <1>1, HistoryIsSeen
<1> HIDE DEF g, n
<1>3. ASSUME NEW k \in 1 .. n + 1
      PROVE  Sum(g, 1 .. k - 1) = Sum(h, 1 .. k - 1)
  <2>1. \A i \in 1 .. k - 1 : i \in 1 .. n /\ g[i] = h[i] /\ Tokens(h[i]) \in Nat
    BY <1>1, <1>2, SeenType
  <2>2. \A i \in 1 .. k - 1 : /\ i \in Places(h) /\ i \in Places(g)
                              /\ Tokens(g[i]) <= Tokens(h[i]) /\ Tokens(h[i]) <= Tokens(g[i])
    BY <1>1, <2>1
  <2>3. Sum(g, 1 .. k - 1) \in Nat /\ Sum(g, 1 .. k - 1) <= Sum(h, 1 .. k - 1)
    BY <1>2, <2>2, SumCompares
  <2>4. Sum(h, 1 .. k - 1) \in Nat /\ Sum(h, 1 .. k - 1) <= Sum(g, 1 .. k - 1)
    BY <1>2, <2>2, SumCompares
  <2> QED
    BY <2>3, <2>4
<1>4. ASSUME NEW k \in Places(g), g[k].usage > 0
      PROVE  /\ g[k].role = "assistant" /\ g[k].text = 1
             /\ g[k].usage >= SystemTokens + 2
             /\ ~g[k].old => g[k].usage = SystemTokens + Sum(g, 1 .. k - 1) + 1 - g[k].cut
  <2>1. CASE k = n + 1
    <3>1. g[k] = m /\ Sum(g, 1 .. k - 1) = Sum(h, Places(h))
      <4>1. k - 1 = n
        BY <1>1, <2>1
      <4> QED
        BY <1>1, <1>3, <2>1, <4>1
    <3> QED
      BY <1>4, <3>1
  <2>2. CASE k # n + 1
    <3>1. k \in Places(h) /\ g[k] = h[k] /\ Sum(g, 1 .. k - 1) = Sum(h, 1 .. k - 1)
      BY <1>1, <1>3, <2>2
    <3> QED
      BY <1>4, <3>1 DEF Reports
  <2> QED
    BY <2>1, <2>2
<1>5. Reports(g)
  BY <1>4 DEF Reports
<1> QED
  BY <1>1, <1>5 DEF g

\* What is sent of a history that began counts the user's first message.
LEMMA WireCounts ==
  ASSUME BudgetIInv, history # <<>>, NEW v \in Seq(Seen), Alike(v, history)
  PROVE  Wire(v) \in Nat /\ Wire(v) >= SystemTokens + 1
<1>1. /\ history \in Seq(Seen) /\ system \in Nat /\ SystemTokens \in Nat
      /\ history[1].text = 1
  BY StateTypes, Constants DEF BudgetIInv
<1>2. Len(history) \in Nat /\ Len(history) # 0
  BY <1>1
<1>3. 1 \in Places(v) /\ v[1].text = 1
  <2>1. Places(v) = 1 .. Len(history)
    BY SeenType DEF Alike
  <2>2. 1 \in Places(v)
    BY <1>2, <2>1
  <2> QED
    BY <1>1, <2>2 DEF Alike
<1>4. Tokens(v[1]) \in Nat /\ Tokens(v[1]) >= 1
  BY <1>3, SeenType
<1>5. Sum(v, {1}) = Tokens(v[1])
  BY <1>3, SumOfOne
<1>6. \A i \in Places(v) : Tokens(v[i]) <= Tokens(v[i])
  BY SeenType
<1>7. Sum(v, Places(v)) \in Nat /\ Sum(v, {1}) <= Sum(v, Places(v))
  <2>1. \A i \in Places(v) : i \in {1} => i \in Places(v) /\ Tokens(v[i]) <= Tokens(v[i])
    BY <1>6
  <2> QED
    BY <2>1, SumCompares
<1> QED
  BY <1>1, <1>4, <1>5, <1>7 DEF Wire

LEMMA SaidIsMessage ==
  ASSUME NEW role \in {"user", "assistant"}, NEW text \in {0, 1}
  PROVE  /\ Said(role, text) \in Message /\ Said(role, text).usage = 0
         /\ Said(role, text).role = role /\ Said(role, text).text = text
BY DEF Said, Message, Tools

LEMMA SayKeeps ==
  ASSUME BudgetIInv, Say
  PROVE  BudgetIInv'
<1> DEFINE m == Said("user", 1)
<1>1. history' = Append(history, m) /\ window' = window /\ system' = system
  BY DEF Say
<1>2. m \in Message /\ m.usage = 0 /\ m.role = "user" /\ m.text = 1
  BY SaidIsMessage
<1> HIDE DEF m
<1>3. history \in Seq(Message) /\ Reports(history)
  BY DEF BudgetIInv
<1>4. Append(history, m) \in Seq(Message) /\ Reports(Append(history, m))
  BY <1>2, <1>3, ReportsGrow
<1>5. history'[1].role = "user" /\ history'[1].text = 1
  <2>1. CASE history = <<>>
    BY <1>1, <1>2, <2>1
  <2>2. CASE history # <<>>
    BY <1>1, <1>3, <2>2 DEF BudgetIInv
  <2> QED
    BY <2>1, <2>2
<1> QED
  BY <1>1, <1>4, <1>5 DEF BudgetIInv

LEMMA SendKeeps ==
  ASSUME BudgetIInv, Send
  PROVE  BudgetIInv'
<1> DEFINE v == View(history)
<1>1. /\ history # <<>> /\ system' = Cached(history) /\ window' = window
  BY DEF Send
<1>2. PICK m \in Replies(v) : history' = Append(history, m)
  BY DEF Send
<1>3. /\ history \in Seq(Message) /\ history \in Seq(Seen) /\ Reports(history)
      /\ system \in Nat /\ window \in Nat /\ SystemTokens \in Nat
  BY StateTypes, Constants DEF BudgetIInv
<1>4. v \in Seq(Seen) /\ Alike(v, history)
  <2>1. Truncated(history) \in Seq(Seen) /\ Alike(Truncated(history), history)
    BY <1>3, TruncatedKeeps
  <2>2. v \in Seq(Seen) /\ Alike(v, Truncated(history))
    BY <1>3, <2>1, EnforcedKeeps DEF View
  <2> HIDE DEF v
  <2> QED
    BY <1>3, <2>1, <2>2, AlikeTransitive
<1> HIDE DEF v
<1>5. Wire(v) \in Nat /\ Wire(v) >= SystemTokens + 1
  BY <1>1, <1>4, WireCounts
<1> DEFINE cut == Wire(history) - Wire(v)
           w == Wire(v) + 1
           plain == [role |-> "assistant", text |-> 1, tool |-> "any", out |-> 0, whole |-> TRUE,
                     usage |-> w, old |-> FALSE, cut |-> cut]
<1>6. Report(v) = plain
  <2>1. Report(v) = [Said("assistant", 1) EXCEPT !.usage = w, !.cut = cut]
    BY Zenon DEF Report, w, cut
  <2> HIDE DEF w, cut
  <2> QED
    BY <2>1 DEF Said
<1>7. w \in Nat /\ w >= SystemTokens + 2 /\ cut \in Int
      /\ w = SystemTokens + Sum(history, Places(history)) + 1 - cut
  <2>1. Wire(history) = SystemTokens + Sum(history, Places(history))
    BY DEF Wire
  <2>2. Sum(history, Places(history)) \in Nat
    BY <1>3, MeasureTypes
  <2> QED
    BY <1>3, <1>5, <2>1, <2>2
<1> HIDE DEF w, cut
<1>8. /\ m \in Message
      /\ m.usage > 0 =>
           /\ m.role = "assistant" /\ m.text = 1 /\ m.usage >= SystemTokens + 2
           /\ ~m.old => m.usage = SystemTokens + Sum(history, Places(history)) + 1 - m.cut
  <2>1. CASE m \in {Said("assistant", 1), Said("assistant", 0)}
    <3>1. m \in Message /\ m.usage = 0
      BY <2>1, SaidIsMessage
    <3> QED
      BY <3>1
  <2>2. CASE \E t \in Tools, n \in Nat : m = [plain EXCEPT !.tool = t, !.out = n]
    <3>1. PICK t \in Tools, n \in Nat : m = [plain EXCEPT !.tool = t, !.out = n]
      BY <2>2
    <3>2. m = [role |-> "assistant", text |-> 1, tool |-> t, out |-> n, whole |-> TRUE,
               usage |-> w, old |-> FALSE, cut |-> cut]
      BY <3>1
    <3>3. m \in Message
      BY <1>7, <3>2 DEF Message
    <3>4. m.role = "assistant" /\ m.text = 1 /\ m.usage = w /\ m.cut = cut
      BY <3>2
    <3> QED
      BY <1>7, <3>3, <3>4
  <2>3. CASE m = Report(v)
    <3>1. m = plain
      BY <1>6, <2>3
    <3>2. m \in Message
      BY <1>7, <3>1 DEF Message, Tools
    <3>3. m.role = "assistant" /\ m.text = 1 /\ m.usage = w /\ m.cut = cut
      BY <3>1
    <3> QED
      BY <1>7, <3>2, <3>3
  <2>4. CASE \E t \in Tools, n \in OutputSizes : m = Called(v, t, n)
    <3>1. OutputSizes \subseteq Nat
      BY BudgetAssumption
    <3> HIDE DEF plain
    <3>2. PICK t \in Tools, n \in OutputSizes : m = Called(v, t, n)
      BY <2>4
    <3>3. m = [plain EXCEPT !.tool = t, !.out = n]
      BY <1>6, <3>2 DEF Called
    <3> QED
      BY <2>2, <3>1, <3>2, <3>3
  <2> HIDE DEF plain
  <2>5. \/ m = Report(v) \/ m \in {Said("assistant", 1), Said("assistant", 0)}
        \/ \E t \in Tools, n \in OutputSizes : m = Called(v, t, n)
    <3>1. CASE Accepted(v)
      <4>1. Replies(v) = {Report(v), Said("assistant", 1)}
                         \cup {Called(v, t, n) : t \in Tools, n \in OutputSizes}
        BY <3>1 DEF Replies
      <4>2. \/ m = Report(v) \/ m \in {Said("assistant", 1), Said("assistant", 0)}
            \/ \E t \in Tools, n \in OutputSizes : m = Called(v, t, n)
        BY <1>2, <4>1, SMT
      <4> QED
        BY <4>2, Zenon
    <3>2. CASE ~Accepted(v)
      <4>1. Replies(v) = {Said("assistant", 0)}
        BY <3>2 DEF Replies
      <4> QED
        BY <1>2, <4>1
    <3> QED
      BY <3>1, <3>2
  <2> QED
    BY <2>1, <2>3, <2>4, <2>5, Zenon
<1>9. Append(history, m) \in Seq(Message) /\ Reports(Append(history, m))
  BY <1>3, <1>8, ReportsGrow
<1>10. history'[1].role = "user" /\ history'[1].text = 1
  BY <1>1, <1>2, <1>3 DEF BudgetIInv
<1> QED
  BY <1>1, <1>2, <1>9, <1>10, CachedCovers DEF BudgetIInv

LEMMA CompactKeeps ==
  ASSUME BudgetIInv, Compact
  PROVE  BudgetIInv'
<1> DEFINE a == Said("user", 1)
           b == [Said("assistant", 1) EXCEPT !.usage = Wire(history) + 1, !.old = TRUE]
<1>1. history' = <<a, b>> /\ window' = window /\ system' = system /\ LastReport(history) > 0
  BY DEF Compact
<1>2. history \in Seq(Seen) /\ SystemTokens \in Nat
  BY StateTypes, Constants
<1>3. history # <<>>
  BY <1>1, <1>2, LastReportIsLast
<1>4. Wire(history) \in Nat /\ Wire(history) >= SystemTokens + 1
  BY <1>2, <1>3, WireCounts DEF Alike
<1>5. a \in Message /\ a.usage = 0 /\ a.role = "user" /\ a.text = 1
  BY SaidIsMessage
<1>6. /\ b \in Message /\ b.usage = Wire(history) + 1 /\ b.role = "assistant" /\ b.text = 1
      /\ b.old
  <2> DEFINE w == Wire(history) + 1
  <2>1. w \in Nat
    BY <1>4
  <2>2. b = [Said("assistant", 1) EXCEPT !.usage = w, !.old = TRUE]
    OBVIOUS
  <2> HIDE DEF w, b
  <2>3. b = [role |-> "assistant", text |-> 1, tool |-> "any", out |-> 0, whole |-> TRUE,
             usage |-> w, old |-> TRUE, cut |-> 0]
    BY <2>2 DEF Said
  <2> QED
    BY <2>1, <2>3 DEF Message, Tools, w
<1> HIDE DEF a, b
<1>7. history' \in Seq(Message) /\ Places(history') = 1 .. 2 /\ history'[1] = a /\ history'[2] = b
  BY <1>1, <1>5, <1>6 DEF Places
<1>8. Reports(history')
  BY <1>2, <1>4, <1>5, <1>6, <1>7 DEF Reports
<1> QED
  BY <1>1, <1>5, <1>7, <1>8 DEF BudgetIInv

LEMMA BudgetNextKeeps ==
  ASSUME BudgetIInv, [BudgetNext]_budgetVars
  PROVE  BudgetIInv'
<1>1. CASE Say
  BY <1>1, SayKeeps
<1>2. CASE Send
  BY <1>2, SendKeeps
<1>3. CASE SwitchModel
  BY <1>3 DEF SwitchModel, BudgetIInv
<1>4. CASE Compact
  BY <1>4, CompactKeeps
<1>5. CASE UNCHANGED budgetVars
  BY <1>5 DEF budgetVars, BudgetIInv
<1> QED
  BY <1>1, <1>2, <1>3, <1>4, <1>5 DEF BudgetNext

\* The history, the reports in it and what is known of the system prompt are
\* what the estimate takes them for.
THEOREM BudgetInvariant == BudgetSpec => []BudgetIInv
<1>1. BudgetInit => BudgetIInv
  BY BudgetInitHolds
<1>2. BudgetIInv /\ [BudgetNext]_budgetVars => BudgetIInv'
  BY BudgetNextKeeps
<1> QED
  BY <1>1, <1>2, PTL DEF BudgetSpec

-----------------------------------------------------------------------------
(* The estimate and the guard.                                             *)

LEMMA EstimateHolds ==
  ASSUME BudgetIInv
  PROVE  EstimateCoversRequest
<1> DEFINE v == Truncated(history)
           k == LastReport(v)
           before == 1 .. k - 1
           after == {i \in Places(v) : i > k}
<1>1. /\ history \in Seq(Seen) /\ system \in Nat /\ window \in Nat
      /\ SystemTokens \in Nat
  BY StateTypes, Constants
<1>2. v \in Seq(Seen) /\ Alike(v, history)
  BY <1>1, TruncatedKeeps
<1> HIDE DEF v
<1>3. k = LastReport(history) /\ Cached(v) = Cached(history)
  BY <1>1, <1>2, MeasuresAgree
<1>4. /\ \A S : Sum(v, S) \in Nat
      /\ \A S : Sum(history, S) \in Nat
      /\ CurrentTokens(v) \in Nat /\ Cached(v) \in Nat
  BY <1>1, <1>2, MeasureTypes
<1>5. Wire(v) = SystemTokens + Sum(v, Places(v))
  BY DEF Wire
<1> DEFINE more == IF Cached(v) > 0 THEN 0 ELSE SystemTokens
           hidden == v[k].out + v[k].cut + Sum(v, before) - Sum(history, before)
<1>60. Unseen(v) = IF k = 0 \/ v[k].old THEN more ELSE hidden
  BY DEF Unseen
<1>6. ASSUME k = 0 \/ v[k].old
      PROVE  Estimate(v) + Unseen(v) >= Wire(v)
  <2>1. k > 0 => CurrentTokens(v) = 0
    BY <1>6 DEF CurrentTokens
  <2>2. Estimate(v) = Sum(v, Places(v)) + Cached(v)
    BY <2>1 DEF Estimate
  <2>3. Cached(v) = 0 \/ Cached(v) >= SystemTokens
    BY <1>3, CachedCovers
  <2>4. Cached(v) + more >= SystemTokens
    BY <1>1, <1>4, <2>3
  <2>5. Unseen(v) = more /\ more \in Nat
    BY <1>1, <1>6, <1>60
  <2> HIDE DEF more
  <2> QED
    BY <1>1, <1>4, <1>5, <2>2, <2>4, <2>5
<1>7. ASSUME k # 0, ~v[k].old
      PROVE  Estimate(v) + Unseen(v) >= Wire(v)
  <2>1. /\ Len(v) \in Nat /\ Places(v) = 1 .. Len(v) /\ Places(history) = Places(v)
        /\ k \in Places(v) /\ v[k].usage > 0
    BY <1>1, <1>2, <1>7, SeenType, LastReportIsLast DEF Alike
  <2>2. /\ v[k].usage = history[k].usage /\ v[k].text = history[k].text
        /\ v[k].old = history[k].old /\ v[k].cut = history[k].cut
    BY <1>2, <2>1 DEF Alike
  <2>3. v[k].usage = SystemTokens + Sum(history, before) + 1 - v[k].cut /\ v[k].text = 1
    BY <1>7, <2>1, <2>2 DEF BudgetIInv, Reports
  <2>4. v[k].out \in Nat /\ v[k].cut \in Int /\ Tokens(v[k]) = 1 + v[k].out
    <3>1. v[k] \in Seen
      BY <1>2, <2>1, SeenType
    <3> QED
      BY <2>3, <3>1 DEF Tokens, Seen
  <2>5. CurrentTokens(v) = v[k].usage /\ CurrentTokens(v) > 0
    BY <1>7, <2>1 DEF CurrentTokens
  <2>50. Unseen(v) = hidden
    BY <1>7, <1>60
  <2> HIDE DEF k
  <2>6. Estimate(v) = v[k].usage + Sum(v, after)
    BY <1>7, <2>1, <2>5 DEF Estimate, CountedFrom, k
  <2>8. Sum(v, Places(v)) = Sum(v, before) + (Tokens(v[k]) + Sum(v, after))
    <3>1. Places(v) = before \cup ({k} \cup after)
      BY <2>1
    <3>2. before \cap ({k} \cup after) = {} /\ {k} \cap after = {}
      BY <2>1
    <3> HIDE DEF before, after
    <3>3. Sum(v, before \cup ({k} \cup after)) = Sum(v, before) + Sum(v, {k} \cup after)
      BY <1>2, <3>2, SumSplits
    <3>4. Sum(v, {k} \cup after) = Sum(v, {k}) + Sum(v, after)
      BY <1>2, <3>2, SumSplits
    <3>5. Sum(v, {k}) = Tokens(v[k])
      BY <1>2, <2>1, SumOfOne
    <3> QED
      BY <3>1, <3>3, <3>4, <3>5
  <2> HIDE DEF before, after
  <2>9. Sum(v, before) \in Nat /\ Sum(history, before) \in Nat /\ Sum(v, after) \in Nat
    BY <1>4
  <2>10. hidden = v[k].out + v[k].cut + Sum(v, before) - Sum(history, before)
    OBVIOUS
  <2> HIDE DEF hidden
  <2>11. Wire(v) = SystemTokens + Sum(v, before) + 1 + v[k].out + Sum(v, after)
    BY <1>1, <1>5, <2>4, <2>8, <2>9
  <2>12. Estimate(v) = SystemTokens + Sum(history, before) + 1 - v[k].cut + Sum(v, after)
    BY <1>1, <2>3, <2>4, <2>6, <2>9
  <2>13. /\ SystemTokens \in Int /\ v[k].out \in Int /\ v[k].cut \in Int
         /\ Sum(v, before) \in Int /\ Sum(history, before) \in Int /\ Sum(v, after) \in Int
    BY <1>1, <2>4, <2>9
  <2>14. Estimate(v) + Unseen(v) >= Wire(v)
    <3>1. ASSUME NEW a \in Int, NEW b \in Int, NEW c \in Int, NEW d \in Int, NEW e \in Int,
                 NEW s \in Int
          PROVE  (s + b + 1 - d + e) + (c + d + a - b) >= s + a + 1 + c + e
      OBVIOUS
    <3> QED
      BY <2>10, <2>11, <2>12, <2>13, <2>50, <3>1
  <2> QED
    BY <2>14
<1> QED
  BY <1>6, <1>7 DEF EstimateCoversRequest, v

\* On every history the estimate covers what the backend counts but for what it
\* cannot see, for any window and sizes.
THEOREM EstimateCovers == BudgetSpec => []EstimateCoversRequest
<1>1. BudgetIInv => EstimateCoversRequest
  BY EstimateHolds
<1> QED
  BY <1>1, BudgetInvariant, PTL

Delivered(v, sent) ==
  \/ Estimate(v) - (Wire(v) - Wire(sent)) <= Budget
  \/ \A i \in Candidates(sent) : sent[i].out <= MinClear

LEMMA EnforcedDelivered ==
  ASSUME NEW v \in Seq(Seen), system \in Nat, window \in Nat, window > 0, Budget > 0
  PROVE  Delivered(v, Enforced(v))
<1>1. LET sent == Enforced(v)
      IN \/ Estimate(v) - (Wire(v) - Wire(sent)) <= Budget
         \/ \A i \in Candidates(sent) : sent[i].out <= MinClear
  BY EnforcedDelivers
<1> QED
  BY <1>1, Zenon DEF Delivered

\* The guard's account of what it saved is true, and it stops short of the
\* budget only when nothing it may touch is left.
THEOREM GuardHolds == BudgetSpec => []GuardDelivers
<1>1. ASSUME BudgetIInv PROVE GuardDelivers
  <2>1. history \in Seq(Seen) /\ system \in Nat /\ window \in Nat
    BY <1>1, StateTypes
  <2>2. Truncated(history) \in Seq(Seen)
    BY <2>1, TruncatedKeeps
  <2>3. window > 0 /\ Budget > 0 => Delivered(Truncated(history), Enforced(Truncated(history)))
    BY <2>1, <2>2, EnforcedDelivered
  <2> QED
    BY <2>3, Zenon DEF GuardDelivers, Delivered
<1> QED
  BY <1>1, BudgetInvariant, PTL

-----------------------------------------------------------------------------
(* NudgeGate.                                                              *)

USE SizesAssumption DEF Unset, NotYet, NoAnchor

-----------------------------------------------------------------------------
(* The operators.                                                          *)

\* Rounding a multiple gives it back.
LEMMA RoundedMultiple ==
  ASSUME NEW k \in Int, NEW d \in Nat, d > 0
  PROVE  Rounded(k * d, d) = k
<1> DEFINE e == 2 * d
           q == (2 * (k * d) + d) \div e
<1>1. /\ e \in Nat /\ e > 0 /\ k * d \in Int
      /\ 2 * (k * d) + d \in Int
  OBVIOUS
<1>2. q \in Int /\ e * q <= 2 * (k * d) + d /\ 2 * (k * d) + d < e * q + e
  <2> HIDE DEF e
  <2>1. \A m \in Int : (m \div e) \in Int /\ e * (m \div e) <= m /\ m < e * (m \div e) + e
    BY <1>1
  <2> QED
    BY <1>1, <2>1
<1>3. 2 * (k * d) = e * k
  OBVIOUS
<1>4. e * (q - k) <= d /\ e * (k - q) < e
  <2> HIDE DEF q, e
  <2>1. e * (q - k) = e * q - e * k /\ e * (k - q) = e * k - e * q
    BY <1>1, <1>2
  <2>2. e * q \in Int /\ e * k \in Int
    BY <1>1, <1>2
  <2> QED
    BY <1>1, <1>2, <1>3, <2>1, <2>2
<1>5. q - k < 1
  <2> HIDE DEF q
  <2>1. SUFFICES ASSUME q - k >= 1 PROVE FALSE
    BY <1>2
  <2>2. e * (q - k) >= e
    <3> HIDE DEF e
    <3> QED BY <1>1, <1>2, <2>1
  <2> QED
    BY <1>1, <1>2, <1>4, <2>2
<1>6. k - q < 1
  <2> HIDE DEF q, e
  <2>1. SUFFICES ASSUME k - q >= 1 PROVE FALSE
    BY <1>2
  <2>2. e * (k - q) >= e
    BY <1>1, <1>2, <2>1
  <2> QED
    BY <1>1, <1>2, <1>4, <2>2
<1>7. q = k
  BY <1>2, <1>5, <1>6
<1> QED
  BY <1>7 DEF Rounded

\* Rounding a size gives a size.
LEMMA RoundedIsSize ==
  ASSUME NEW n \in Nat, NEW d \in Nat, d > 0
  PROVE  Rounded(n, d) \in Nat
<1> DEFINE m == 2 * n + d
           e == 2 * d
<1>1. m \in Nat /\ e \in Nat /\ e > 0
  OBVIOUS
<1>2. (m \div e) \in Nat
  <2> HIDE DEF m, e
  <2> QED BY <1>1
<1> QED
  BY <1>2 DEF Rounded

\* What a request measures is a size.
LEMMA Measured ==
  ASSUME NudgeTypeOK
  PROVE  Current \in Nat /\ BeforePrune \in Nat
BY DEF NudgeTypeOK, Current, BeforePrune, Reported

\* The baseline after a compression is a size, also when more is removed than
\* was grown and the baseline moves down.
LEMMA NewBaselineIsSize ==
  ASSUME NudgeTypeOK
  PROVE  NewBaseline \in Nat
<1> DEFINE base == nudges.base
           growth == BeforePrune - base
           removed == BeforePrune - Current
<1>1. Current \in Nat /\ BeforePrune \in Nat /\ base \in Nat \cup {Unset}
  BY Measured DEF NudgeTypeOK, NudgeStates, SizesOrUnset
<1>2. CASE ~(base # Unset /\ removed > 0 /\ growth > 0)
  BY <1>1, <1>2 DEF NewBaseline
<1>3. CASE base # Unset /\ removed > 0 /\ growth > 0
  <2>1. /\ base \in Nat /\ growth \in Nat /\ growth > 0 /\ removed \in Nat
        /\ Current - base = growth - removed
    BY <1>1, <1>3
  <2>2. NewBaseline = base + Rounded((Current - base) * Least(growth, 2 * removed), growth)
    BY <1>3 DEF NewBaseline
  <2>3. CASE Current - base >= 0
    <3> HIDE DEF growth, removed
    <3>1. Least(growth, 2 * removed) \in Nat
      BY <2>1 DEF Least
    <3>2. Current - base \in Nat
      BY <1>1, <2>1, <2>3
    <3>3. (Current - base) * Least(growth, 2 * removed) \in Nat
      BY <3>1, <3>2
    <3>4. Rounded((Current - base) * Least(growth, 2 * removed), growth) \in Nat
      BY <2>1, <3>3, RoundedIsSize
    <3> QED
      BY <2>1, <2>2, <3>4
  <2>4. CASE Current - base < 0
    \* more is removed than was grown
    <3>1. Least(growth, 2 * removed) = growth
      <4> HIDE DEF growth, removed
      <4> QED BY <1>1, <2>1, <2>4 DEF Least
    <3>2. Rounded((Current - base) * growth, growth) = Current - base
      <4>1. Current - base \in Int
        BY <1>1, <2>1
      <4> HIDE DEF base, growth
      <4> QED BY <2>1, <4>1, RoundedMultiple
    <3> QED
      BY <1>1, <2>1, <2>2, <3>1, <3>2
  <2> QED
    BY <1>1, <2>1, <2>3, <2>4
<1> QED
  BY <1>2, <1>3

-----------------------------------------------------------------------------
(* The invariant.                                                          *)

\* What is measured may be noted as a size.
LEMMA SizesAreNoted ==
  ASSUME NEW n \in Nat
  PROVE  n \in SizesOrUnset
BY DEF SizesOrUnset

LEMMA NudgeInit ==
  ASSUME Init
  PROVE  NudgeIInv
<1>1. EmptyNudges \in NudgeStates
  BY DEF EmptyNudges, NoAnchors, NudgeStates, SizesOrUnset, Ages
<1>2. NudgeTypeOK
  BY <1>1 DEF Init, NudgeTypeOK, NoAttempt, SizesOrUnset
<1> QED
  BY <1>2 DEF Init, NudgeIInv, Measures

\* The nudge state keeps its type.
LEMMA AfterCompressTyped ==
  ASSUME NudgeTypeOK
  PROVE  AfterCompress \in NudgeStates
<1>1. Current \in SizesOrUnset /\ NewBaseline \in SizesOrUnset
  BY Measured, NewBaselineIsSize DEF SizesOrUnset
<1>2. nudges \in NudgeStates /\ attempt.ok \in BOOLEAN
  BY DEF NudgeTypeOK
<1>3. NoAnchors \in [limit : Ages, iteration : Ages, turn : BOOLEAN]
  BY DEF NoAnchors, Ages
<1> QED
  BY <1>1, <1>2, <1>3 DEF AfterCompress, NudgeStates, SizesOrUnset

LEMMA AnchorsNowTyped ==
  ASSUME NudgeTypeOK
  PROVE  AnchorsNow \in [limit : Ages, iteration : Ages, turn : BOOLEAN]
<1> DEFINE a == nudges.anchors
<1>1. a.limit \in Ages /\ a.iteration \in Ages /\ a.turn \in BOOLEAN
  BY DEF NudgeTypeOK, NudgeStates
<1>2. NoAnchor \in Ages
  BY DEF Ages
<1>3. Added(a.limit) \in Ages /\ Added(a.iteration) \in Ages
  BY <1>1 DEF Added, Ages
<1>4. OverMin \in BOOLEAN
  BY DEF OverMin
<1>5. AnchorsNow.limit \in Ages /\ AnchorsNow.iteration \in Ages /\ AnchorsNow.turn \in BOOLEAN
      /\ AnchorsNow = [limit |-> AnchorsNow.limit, iteration |-> AnchorsNow.iteration,
                       turn |-> AnchorsNow.turn]
  <2>1. CASE OverMax
    BY <1>1, <1>2, <1>3, <1>4, <2>1 DEF AnchorsNow
  <2>2. CASE ~OverMax /\ OverMin
    BY <1>1, <1>2, <1>3, <1>4, <2>2 DEF AnchorsNow
  <2>3. CASE ~OverMax /\ ~OverMin
    BY <1>2, <2>3 DEF AnchorsNow, NoAnchors
  <2> QED
    BY <2>1, <2>2, <2>3
<1> QED
  BY <1>5

LEMMA EvaluatedTyped ==
  ASSUME NudgeTypeOK, NEW carried, NEW ready
  PROVE  Evaluated(carried, ready) \in NudgeStates
<1>1. Current \in SizesOrUnset
  BY Measured, SizesAreNoted
<1>2. nudges \in NudgeStates
  BY DEF NudgeTypeOK
<1>3. Base \in SizesOrUnset /\ Shown \in SizesOrUnset
  BY <1>1, <1>2 DEF Base, Shown, NudgeStates, SizesOrUnset
<1>4. [nudges.tier EXCEPT ![Min(Due(ready))] = Current] \in [Tiers -> SizesOrUnset]
  BY <1>1, <1>2 DEF NudgeStates
<1> QED
  BY <1>1, <1>2, <1>3, <1>4, AnchorsNowTyped DEF Evaluated, NudgeStates

\* A message ages the anchors, and nothing else.
LEMMA AgedKeeps ==
  ASSUME NEW ns \in NudgeStates
  PROVE  Aged(ns) \in NudgeStates /\ Aged(ns).base = ns.base /\ Aged(ns).shown = ns.shown
<1> DEFINE a == ns.anchors
<1>1. a \in [limit : Ages, iteration : Ages, turn : BOOLEAN]
  BY DEF NudgeStates
<1>2. \A n \in Ages : n # NoAnchor => Older(n, Interval) \in Ages
  BY DEF Ages, Older, Least
<1>3. AgedAnchors(a) \in [limit : Ages, iteration : Ages, turn : BOOLEAN]
  BY <1>1, <1>2 DEF AgedAnchors
<1>4. Aged(ns) = [ns EXCEPT !.anchors = AgedAnchors(a)]
  BY DEF Aged
<1> QED
  BY <1>3, <1>4 DEF NudgeStates

-----------------------------------------------------------------------------
(* The steps.                                                              *)

\* A nudge is asked for by growth from what Measures bounds, or in an emergency.
LEMMA NudgeIsAllowed ==
  ASSUME NudgeTypeOK, NEW targets \in BOOLEAN, NEW ready, Carried(targets, ready) = "nudge"
  PROVE  Allowed
BY DEF Carried

LEMMA GrownFromReference ==
  ASSUME NudgeIInv, Allowed, ~InEmergency, low # Unset
  PROVE  Current - low >= Floor
<1>1. Current \in Nat /\ low \in SizesOrUnset /\ Floor \in Nat /\ Growth \in Nat /\ Growth > 0
  BY Measured DEF NudgeIInv, NudgeTypeOK
<1>2. /\ nudges.base \in Nat \cup {Unset} /\ nudges.shown \in Nat \cup {Unset}
      /\ low \in Nat
  BY <1>1 DEF NudgeIInv, NudgeTypeOK, NudgeStates, SizesOrUnset
<1>3. Grown(Threshold) /\ Grown(Floor)
  BY DEF Allowed
<1>4. Reference # Unset /\ Current - Reference >= Threshold /\ Current - Reference >= Floor
  BY <1>3 DEF Grown
<1>5. ~Corrected
  \* a corrected baseline is the size itself, over which nothing has grown
  <2>1. SUFFICES ASSUME Corrected PROVE FALSE
    OBVIOUS
  <2>2. Reference = Current /\ Threshold = Growth
    BY <2>1 DEF Reference, Shown, Threshold
  <2> QED
    BY <1>1, <1>4, <2>2
<1>6. Reference = IF nudges.shown # Unset THEN nudges.shown ELSE nudges.base
  BY <1>5 DEF Reference, Shown
<1>7. low <= Reference
  BY <1>4, <1>6 DEF NudgeIInv, Measures
<1> QED
  BY <1>1, <1>2, <1>4, <1>6, <1>7

LEMMA SettleKeeps ==
  ASSUME NudgeIInv, Settle
  PROVE  NudgeIInv'
<1>1. AfterCompress \in NudgeStates
  BY AfterCompressTyped DEF NudgeIInv
<1>2. [attempt EXCEPT !.processed = TRUE]
        \in [made : BOOLEAN, ok : BOOLEAN, capture : BOOLEAN, processed : BOOLEAN]
  BY DEF NudgeIInv, NudgeTypeOK
<1>3. NudgeTypeOK'
  BY <1>1, <1>2 DEF NudgeIInv, NudgeTypeOK, Settle, SizesOrUnset
<1> QED
  BY <1>3 DEF NudgeIInv, Measures, Settle

LEMMA RequestKeeps ==
  ASSUME NudgeIInv, Request
  PROVE  NudgeIInv'
<1>1. PICK targets \in BOOLEAN, ready \in SUBSET Tiers :
        /\ outcome' = Carried(targets, ready)
        /\ nudges' = Evaluated(outcome', ready)
        /\ low' = IF outcome' = "nudge" THEN Current
                  ELSE IF low = Unset THEN Unset ELSE Least(low, Current)
  BY DEF Request
<1>2. /\ NudgeTypeOK /\ Current \in Nat /\ low \in Nat \cup {Unset}
      /\ nudges.base \in Nat \cup {Unset} /\ nudges.shown \in Nat \cup {Unset}
      /\ saved.base \in Nat \cup {Unset} /\ saved.shown \in Nat \cup {Unset}
  BY Measured DEF NudgeIInv, NudgeTypeOK, NudgeStates, SizesOrUnset
<1>3. nudges' \in NudgeStates /\ saved' \in NudgeStates /\ low' \in SizesOrUnset
  <2>1. nudges' \in NudgeStates
    BY <1>1, <1>2, EvaluatedTyped
  <2>2. saved' \in NudgeStates
    BY <1>2, <2>1 DEF Request, NudgeTypeOK
  <2>3. low' \in SizesOrUnset
    BY <1>1, <1>2 DEF Least, SizesOrUnset
  <2> QED
    BY <2>1, <2>2, <2>3
<1>4. outcome' \in {"none", "nothing", "nudge", "notice", "tier", "compress"}
  BY <1>1 DEF Carried
<1>5. NudgeTypeOK'
  BY <1>2, <1>3, <1>4 DEF Request, NudgeTypeOK
<1>6. /\ nudges'.base = Base
      /\ nudges'.shown = IF outcome' \in {"nudge", "notice", "tier"} THEN Current ELSE Shown
  BY <1>1 DEF Evaluated
<1>7. Measures(nudges)'
  <2>1. CASE nudges'.shown = Current
    \* neither a new low nor an older one is above what is measured
    <3>1. low' <= Current
      BY <1>1, <1>2 DEF Least
    <3> QED
      BY <1>2, <2>1, <3>1 DEF Measures
  <2>2. CASE outcome' \notin {"nudge", "notice", "tier"} /\ Corrected
    \* what was measured since the nudge counts the measure that corrects it
    <3>1. nudges'.shown = Unset /\ nudges'.base = Current
      BY <1>6, <2>2 DEF Shown, Base
    <3>2. low' <= Current
      BY <1>1, <1>2 DEF Least
    <3> QED
      BY <1>2, <3>1, <3>2 DEF Measures
  <2>3. CASE outcome' \notin {"nudge", "notice", "tier"} /\ ~Corrected
    <3>1. /\ low' <= low /\ low' <= Current /\ (low' # Unset => low # Unset)
      BY <1>1, <1>2, <2>3 DEF Least
    <3>2. /\ nudges'.shown = nudges.shown
          /\ nudges'.base = IF nudges.base = Unset THEN Current ELSE nudges.base
      BY <1>6, <2>3 DEF Shown, Base
    <3>3. Measures(nudges)
      BY DEF NudgeIInv
    <3> QED
      BY <1>2, <1>3, <3>1, <3>2, <3>3 DEF Measures, SizesOrUnset
  <2> QED
    BY <1>6, <2>1, <2>2, <2>3
<1>8. Measures(saved)'
  <2>1. CASE Persists
    BY <1>7, <2>1 DEF Request, Measures
  <2>2. CASE ~Persists
    \* then nothing was shown that must be kept, for a nudge is saved
    <3>1. saved' = saved /\ ~Allowed /\ ~Corrected
      BY <2>2 DEF Request, Persists
    <3>2. outcome' # "nudge"
      BY <1>1, <1>2, <3>1, NudgeIsAllowed
    <3>3. low' <= low /\ (low' # Unset => low # Unset)
      BY <1>1, <1>2, <3>1, <3>2 DEF Least
    <3>4. Measures(saved)
      BY DEF NudgeIInv
    <3> QED
      BY <1>2, <1>3, <3>1, <3>3, <3>4 DEF Measures, SizesOrUnset
  <2> QED
    BY <2>1, <2>2
<1> QED
  BY <1>5, <1>7, <1>8 DEF NudgeIInv

\* What a reply leaves of the types.
LEMMA RepliedTyped ==
  ASSUME NudgeTypeOK, NEW n \in Nat, Replied(n)
  PROVE  phase' = "ready" /\ reports' \in BOOLEAN /\ raw' \in Nat /\ reported' \in Nat
<1>1. Window \in Nat /\ size \in Nat /\ raw \in Nat /\ reports \in BOOLEAN
  BY DEF NudgeTypeOK
<1> QED
  BY <1>1 DEF Replied, Least

LEMMA OlderTyped ==
  ASSUME NEW n \in Nat, NEW most \in Nat
  PROVE  Older(n, most) \in Nat
BY DEF Older, Least

LEMMA SinceTyped ==
  ASSUME NudgeTypeOK
  PROVE  since.user \in Nat /\ since.compress \in Nat /\ Older(since.user, Iteration) \in Nat
         /\ Older(since.compress, 3) \in Nat
<1>1. since.user \in Nat /\ since.compress \in Nat /\ Iteration \in Nat
  BY DEF NudgeTypeOK
<1> QED
  BY <1>1, OlderTyped

LEMMA WorkKeeps ==
  ASSUME NudgeIInv, Work
  PROVE  NudgeIInv'
<1>1. PICK n \in {1, 2} :
        /\ Replied(n)
        /\ size' = Least(size + n, Window)
        /\ since' = [user |-> Older(since.user, Iteration), compress |-> Older(since.compress, 3)]
  BY DEF Work
<1>2. NudgeTypeOK /\ nudges \in NudgeStates /\ saved \in NudgeStates /\ size \in Nat
  BY DEF NudgeIInv, NudgeTypeOK
<1>3. phase' = "ready" /\ reports' \in BOOLEAN /\ raw' \in Nat /\ reported' \in Nat
  BY <1>1, <1>2, RepliedTyped
<1>4. size' \in Nat /\ since' \in [user : Nat, compress : Nat]
  BY <1>1, <1>2, SinceTyped DEF Least
<1>5. nudges' = Aged(nudges) /\ saved' = Aged(saved) /\ UNCHANGED <<attempt, outcome, low>>
  BY DEF Work
<1>6. NudgeTypeOK'
  BY <1>2, <1>3, <1>4, <1>5, AgedKeeps DEF NudgeTypeOK
<1>7. Measures(nudges)' /\ Measures(saved)'
  BY <1>2, <1>5, AgedKeeps DEF NudgeIInv, Measures
<1> QED
  BY <1>6, <1>7 DEF NudgeIInv

LEMMA CompressKeeps ==
  ASSUME NudgeIInv, Compress
  PROVE  NudgeIInv'
<1>1. PICK ok \in BOOLEAN, capture \in BOOLEAN, by \in Shrinks :
        /\ Replied(1)
        /\ by < size
        /\ size' = IF ok THEN Least(size + 1 - by, Window) ELSE Least(size + 1, Window)
        /\ since' = [user |-> Older(since.user, Iteration), compress |-> 0]
        /\ attempt' = [made |-> TRUE, ok |-> ok \/ attempt.ok, capture |-> capture,
                       processed |-> FALSE]
        /\ nudges' = Aged(nudges) /\ saved' = IF ok THEN Aged(nudges) ELSE Aged(saved)
        /\ outcome' = "compress" /\ low' = Unset
  BY DEF Compress
<1>2. /\ NudgeTypeOK /\ nudges \in NudgeStates /\ saved \in NudgeStates /\ size \in Nat
      /\ attempt.ok \in BOOLEAN
  BY DEF NudgeIInv, NudgeTypeOK
<1>3. phase' = "ready" /\ reports' \in BOOLEAN /\ raw' \in Nat /\ reported' \in Nat
  BY <1>1, <1>2, RepliedTyped
<1>4. size' \in Nat /\ since' \in [user : Nat, compress : Nat]
  <2>1. by \in Nat /\ Window \in Nat
    OBVIOUS
  <2>2. size' \in Nat
    BY <1>1, <1>2, <2>1 DEF Least
  <2> QED
    BY <1>1, <1>2, <2>2, SinceTyped
<1>5. nudges' \in NudgeStates /\ saved' \in NudgeStates
  BY <1>1, <1>2, AgedKeeps
<1>6. attempt' \in [made : BOOLEAN, ok : BOOLEAN, capture : BOOLEAN, processed : BOOLEAN]
  BY <1>1, <1>2
<1>7. NudgeTypeOK'
  BY <1>1, <1>3, <1>4, <1>5, <1>6 DEF NudgeTypeOK, SizesOrUnset
<1> QED
  BY <1>1, <1>7 DEF NudgeIInv, Measures

LEMMA UserMessageKeeps ==
  ASSUME NudgeIInv, UserMessage
  PROVE  NudgeIInv'
<1>1. NudgeTypeOK /\ nudges \in NudgeStates /\ saved \in NudgeStates
  BY DEF NudgeIInv, NudgeTypeOK
<1>2. nudges' = Aged(nudges) /\ saved' = Aged(saved) /\ low' = low
  BY DEF UserMessage
<1>3. since' \in [user : Nat, compress : Nat]
  BY <1>1, SinceTyped DEF UserMessage
<1>4. NudgeTypeOK'
  BY <1>1, <1>2, <1>3, AgedKeeps DEF UserMessage, NudgeTypeOK, NoAttempt
<1>5. Measures(nudges)' /\ Measures(saved)'
  BY <1>1, <1>2, AgedKeeps DEF NudgeIInv, Measures
<1> QED
  BY <1>4, <1>5 DEF NudgeIInv

\* What is read back is bounded as what was in memory.
LEMMA RestartKeeps ==
  ASSUME NudgeIInv, Restart
  PROVE  NudgeIInv'
<1>1. [attempt EXCEPT !.processed = FALSE]
        \in [made : BOOLEAN, ok : BOOLEAN, capture : BOOLEAN, processed : BOOLEAN]
  BY DEF NudgeIInv, NudgeTypeOK
<1>2. NudgeTypeOK'
  BY <1>1 DEF NudgeIInv, NudgeTypeOK, Restart
<1> QED
  BY <1>2 DEF NudgeIInv, Measures, Restart

LEMMA CompactionKeeps ==
  ASSUME NudgeIInv, Compaction
  PROVE  NudgeIInv'
<1>1. EmptyNudges \in NudgeStates
  BY DEF EmptyNudges, NoAnchors, NudgeStates, SizesOrUnset, Ages
<1>2. NudgeTypeOK'
  BY <1>1 DEF NudgeIInv, NudgeTypeOK, NoAttempt, Compaction
<1> QED
  BY <1>2 DEF NudgeIInv, Measures, Compaction, EmptyNudges

-----------------------------------------------------------------------------
(* The theorems.                                                           *)

\* The nudge state is typed, and what a nudge measures growth from, in memory
\* and in the file, is at least what was measured since the last nudge.
THEOREM NudgeInductive == Spec => []NudgeIInv
<1>1. Init => NudgeIInv
  BY NudgeInit
<1>2. NudgeIInv /\ [Next]_vars => NudgeIInv'
  <2>1. SUFFICES ASSUME NudgeIInv, [Next]_vars PROVE NudgeIInv'
    OBVIOUS
  <2>2. CASE Settle
    BY <2>1, <2>2, SettleKeeps
  <2>3. CASE Request
    BY <2>1, <2>3, RequestKeeps
  <2>4. CASE Work
    BY <2>1, <2>4, WorkKeeps
  <2>5. CASE Compress
    BY <2>1, <2>5, CompressKeeps
  <2>6. CASE UserMessage
    BY <2>1, <2>6, UserMessageKeeps
  <2>7. CASE Restart
    BY <2>1, <2>7, RestartKeeps
  <2>8. CASE Compaction
    BY <2>1, <2>8, CompactionKeeps
  <2>9. CASE UNCHANGED vars
    BY <2>1, <2>9 DEF vars, NudgeIInv, NudgeTypeOK, Measures
  <2> QED
    BY <2>1, <2>2, <2>3, <2>4, <2>5, <2>6, <2>7, <2>8, <2>9 DEF Next
<1> QED
  BY <1>1, <1>2, PTL DEF Spec

\* Below the emergency threshold the context grows by the floor between two
\* nudges with no compress call made or settled between them, for any
\* thresholds, corrected baselines, compactions, tiers and restarts
\* (inject.ts:386-400, 862-870).
THEOREM NudgesAreSpaced == Spec => NudgesSpaced
<1>1. ASSUME NudgeIInv, [Next]_vars, Requested, outcome' = "nudge", ~InEmergency, low # Unset
      PROVE  Current - low >= Floor
  <2>1. Settle \/ Request
    BY <1>1 DEF Next, Requested, vars, Work, Replied, Compress, UserMessage, Restart, Compaction
  <2>2. Request
    BY <1>1, <2>1 DEF Settle
  <2>3. PICK targets \in BOOLEAN, ready \in SUBSET Tiers : outcome' = Carried(targets, ready)
    BY <2>2 DEF Request
  <2>4. Allowed
    BY <1>1, <2>3, NudgeIsAllowed DEF NudgeIInv
  <2> QED
    BY <1>1, <2>4, GrownFromReference
<1>2. NudgeIInv /\ [Next]_vars
        => [Requested /\ outcome' = "nudge" /\ ~InEmergency /\ low # Unset
              => Current - low >= Floor]_vars
  BY <1>1
<1> QED
  BY <1>2, NudgeInductive, PTL DEF Spec, NudgesSpaced
=============================================================================
