---------------------------- MODULE RangesProofs ----------------------------
(***************************************************************************)
(* What a nudge offers is what the compress tool takes, for any sizes,     *)
(* messages and settings: a longer history spares and protects no more of  *)
(* what was listed, so the tool takes each candidate whole, and of each    *)
(* listed range enough.  The quality gate lets one poor summary through    *)
(* for each rejection.                                                     *)
(***************************************************************************)
EXTENDS Ranges, FiniteSetTheorems, WellFoundedInduction, TLAPS

-----------------------------------------------------------------------------
(* Least elements and sums.                                                *)

\* A set of naturals has a least element.
LEMMA NatMin ==
  ASSUME NEW S, S \subseteq Nat, S # {}
  PROVE  \E x \in S : \A y \in S : x <= y
<1> DEFINE R == {ss \in Nat \X Nat : ss[1] < ss[2]}
<1>1. OpToRel(<, Nat) = R
  BY DEF OpToRel
<1>2. IsWellFoundedOn(R, Nat)
  BY <1>1, NatLessThanWellFounded, Zenon
<1> HIDE DEF R
<1>3. PICK x \in S : \A y \in S : ~ (<<y, x>> \in R)
  BY <1>2, WFMin, Zenon
<1>4. ASSUME NEW y \in S
      PROVE  x <= y
  <2>1. x \in Nat /\ y \in Nat
    OBVIOUS
  <2>2. <<y, x>> \in Nat \X Nat /\ <<y, x>>[1] = y /\ <<y, x>>[2] = x
    BY <2>1
  <2>3. ~ (y < x)
    BY <1>3, <2>2 DEF R
  <2> QED
    BY <2>1, <2>3
<1> QED
  BY <1>4

\* A set of numbers up to n that holds 0, and each number behind one it holds, has all.
LEMMA NatSteps ==
  ASSUME NEW n \in Nat, NEW P, 0 \in P, \A k \in 1 .. n : k - 1 \in P => k \in P
  PROVE  \A k \in 0 .. n : k \in P
<1> DEFINE Left == {k \in 0 .. n : k \notin P}
<1>1. ASSUME Left # {}
      PROVE  FALSE
  <2>1. Left \subseteq Nat
    OBVIOUS
  <2>2. PICK k \in Left : \A j \in Left : k <= j
    <3> HIDE DEF Left
    <3> QED
      BY <1>1, <2>1, NatMin
  <2>3. k \in 1 .. n /\ k \notin P
    OBVIOUS
  <2>4. k - 1 \in 0 .. n /\ ~(k <= k - 1)
    BY <2>3
  <2>5. k - 1 \in P
    BY <2>2, <2>4
  <2> QED
    BY <2>3, <2>5
<1> QED
  BY <1>1

\* Min and Max of numbers up to n are the ends.
LEMMA EndsOfSome ==
  ASSUME NEW n \in Nat, NEW S, S \subseteq 1 .. n, S # {}
  PROVE  /\ Min(S) \in S /\ \A x \in S : Min(S) <= x
         /\ Max(S) \in S /\ \A x \in S : x <= Max(S)
<1>1. \E x \in S : \A y \in S : x <= y
  <2>1. S \subseteq Nat
    OBVIOUS
  <2> QED
    BY <2>1, NatMin
<1>2. \E x \in S : \A y \in S : x >= y
  <2> DEFINE R == {n - x : x \in S}
  <2>1. PICK t \in R : \A r \in R : t <= r
    <3>1. \A x \in S : n - x \in Nat
      OBVIOUS
    <3>2. R \subseteq Nat /\ R # {}
      BY <3>1
    <3> HIDE DEF R
    <3> QED
      BY <3>2, NatMin
  <2>2. PICK x \in S : t = n - x
    OBVIOUS
  <2>3. \A y \in S : n - x <= n - y
    BY <2>1, <2>2
  <2>4. \A y \in S : x >= y
    BY <2>3
  <2> QED
    BY <2>4
<1>3. Min(S) \in S /\ \A y \in S : Min(S) <= y
  BY <1>1, Zenon DEF Min
<1>4. Max(S) \in S /\ \A y \in S : Max(S) >= y
  BY <1>2, Zenon DEF Max
<1>5. S \subseteq Int
  OBVIOUS
<1> QED
  BY <1>3, <1>4, <1>5

\* The sums of the first messages.
Sums(weight, n, S, f) ==
    f = [k \in 0 .. n |-> IF k = 0 THEN 0 ELSE f[k - 1] + IF k \in S THEN weight[k] ELSE 0]

\* They exist, and Total is the last of them.
LEMMA TotalIsTheLastSum ==
  ASSUME NEW weight, NEW N \in Nat, NEW S
  PROVE  \E f : Sums(weight, N, S, f) /\ Total(weight, N, S) = f[N]
<1> DEFINE add(i) == IF i \in S THEN weight[i] ELSE 0
           Found == {n \in 0 .. N : \E f : Sums(weight, n, S, f)}
<1>1. 0 \in Found
  <2> DEFINE f == [i \in 0 .. 0 |-> 0]
  <2>1. Sums(weight, 0, S, f)
    BY DEF Sums
  <2> QED
    BY <2>1
<1>2. ASSUME NEW n \in 1 .. N, n - 1 \in Found
      PROVE  n \in Found
  <2>1. PICK f : Sums(weight, n - 1, S, f)
    BY <1>2
  <2> DEFINE g == [i \in 0 .. n |-> IF i = n THEN f[n - 1] + add(n) ELSE f[i]]
  <2>2. Sums(weight, n, S, g)
    <3>1. \A i \in 0 .. n : i # 0 => i - 1 \in 0 .. n /\ i - 1 # n
      OBVIOUS
    <3>2. \A i \in 0 .. n : i # n => f[i] = IF i = 0 THEN 0 ELSE f[i - 1] + add(i)
      <4>1. \A i \in 0 .. n : i # n => i \in 0 .. (n - 1)
        OBVIOUS
      <4>2. f = [i \in 0 .. (n - 1) |-> IF i = 0 THEN 0 ELSE f[i - 1] + add(i)]
        BY <2>1 DEF Sums
      <4> HIDE DEF add
      <4> QED
        BY <4>1, <4>2
    <3>3. \A i \in 0 .. n : i # 0 => g[i - 1] = f[i - 1]
      BY <3>1
    <3>4. \A i \in 0 .. n : g[i] = IF i = 0 THEN 0 ELSE g[i - 1] + add(i)
      <4> HIDE DEF add
      <4>1. n # 0
        OBVIOUS
      <4> QED
        BY <3>2, <3>3, <4>1
    <3>5. g = [i \in 0 .. n |-> g[i]]
      OBVIOUS
    <3> HIDE DEF g
    <3> QED
      BY <3>4, <3>5, Zenon DEF Sums
  <2> QED
    BY <2>2
<1>3. N \in Found
  <2> HIDE DEF Found
  <2>1. \A k \in 0 .. N : k \in Found
    BY <1>1, <1>2, NatSteps
  <2> QED
    BY <2>1
<1> DEFINE f == CHOOSE f : Sums(weight, N, S, f)
<1>4. Sums(weight, N, S, f)
  BY <1>3, Zenon
<1>5. Total(weight, N, S) = f[N]
  BY DEF Total, Sums
<1> QED
  BY <1>4, <1>5

\* A sum over more messages, each of which weighs no less, or four times as much, is no
\* smaller, or four times as large.
LEMMA TotalScales ==
  ASSUME NEW c \in {1, 4}, NEW n \in Nat, NEW m \in Nat, n <= m, NEW v, NEW w, NEW S, NEW T,
         \A i \in 1 .. m : w[i] \in Nat,
         \A i \in 1 .. n : v[i] \in Nat /\ (i \in S => v[i] = 0 \/ (i \in T /\ c * v[i] <= w[i]))
  PROVE  Total(v, n, S) \in Nat /\ Total(w, m, T) \in Nat /\ c * Total(v, n, S) <= Total(w, m, T)
<1>1. PICK e : Sums(v, n, S, e) /\ Total(v, n, S) = e[n]
  BY TotalIsTheLastSum
<1>2. PICK f : Sums(w, m, T, f) /\ Total(w, m, T) = f[m]
  BY TotalIsTheLastSum
<1> DEFINE b(k) == IF k <= n THEN k ELSE n
           Good(k) == e[b(k)] \in Nat /\ f[k] \in Nat /\ c * e[b(k)] <= f[k]
           P == {k \in 0 .. m : Good(k)}
<1>3. \A k \in 0 .. n : e[k] = IF k = 0 THEN 0 ELSE e[k - 1] + IF k \in S THEN v[k] ELSE 0
  BY <1>1 DEF Sums
<1>4. \A k \in 0 .. m : f[k] = IF k = 0 THEN 0 ELSE f[k - 1] + IF k \in T THEN w[k] ELSE 0
  BY <1>2 DEF Sums
<1>5. Good(0)
  <2>1. 0 \in 0 .. n /\ 0 \in 0 .. m
    OBVIOUS
  <2>2. e[0] = 0 /\ f[0] = 0 /\ b(0) = 0
    BY <1>3, <1>4, <2>1
  <2> QED
    BY <2>2
<1>6. ASSUME NEW k \in 1 .. m, Good(k - 1)
      PROVE  Good(k)
  <2>1. f[k] = f[k - 1] + IF k \in T THEN w[k] ELSE 0
    BY <1>4
  <2>2. w[k] \in Nat
    OBVIOUS
  <2>3. CASE k <= n
    <3>1. e[k] = e[k - 1] + IF k \in S THEN v[k] ELSE 0
      BY <1>3, <2>3
    <3>2. v[k] \in Nat /\ (k \in S => v[k] = 0 \/ (k \in T /\ c * v[k] <= w[k]))
      BY <2>3
    <3>3. b(k) = k /\ b(k - 1) = k - 1
      BY <2>3
    <3>4. CASE c = 1
      BY <1>6, <2>1, <2>2, <3>1, <3>2, <3>3, <3>4
    <3>5. CASE c = 4
      BY <1>6, <2>1, <2>2, <3>1, <3>2, <3>3, <3>5
    <3> QED
      BY <3>4, <3>5
  <2>4. CASE k > n
    <3>1. b(k) = n /\ b(k - 1) = n
      BY <2>4
    <3>2. f[k] \in Nat /\ f[k - 1] <= f[k]
      BY <1>6, <2>1, <2>2
    <3>3. e[n] \in Nat /\ f[k - 1] \in Nat /\ c * e[n] <= f[k - 1]
      BY <1>6, <3>1
    <3>4. c * e[n] \in Nat
      BY <3>3
    <3> QED
      BY <3>1, <3>2, <3>3, <3>4
  <2> QED
    BY <2>3, <2>4
<1>7. Good(m)
  <2> HIDE DEF Good
  <2>1. 0 \in P /\ \A k \in 1 .. m : k - 1 \in P => k \in P
    BY <1>5, <1>6
  <2> HIDE DEF P
  <2>2. \A k \in 0 .. m : k \in P
    BY <2>1, NatSteps
  <2> QED
    BY <2>2 DEF P
<1>8. b(m) = n
  OBVIOUS
<1> QED
  BY <1>1, <1>2, <1>7, <1>8

\* The case of no less.
LEMMA TotalGrows ==
  ASSUME NEW n \in Nat, NEW m \in Nat, n <= m, NEW v, NEW w, NEW S, NEW T,
         \A i \in 1 .. m : w[i] \in Nat,
         \A i \in 1 .. n : v[i] \in Nat /\ (i \in S => i \in T /\ v[i] <= w[i])
  PROVE  Total(v, n, S) \in Nat /\ Total(w, m, T) \in Nat /\ Total(v, n, S) <= Total(w, m, T)
<1>1. \A i \in 1 .. n : v[i] \in Nat /\ (i \in S => v[i] = 0 \/ (i \in T /\ 1 * v[i] <= w[i]))
  OBVIOUS
<1>2. /\ Total(v, n, S) \in Nat /\ Total(w, m, T) \in Nat
      /\ 1 * Total(v, n, S) <= Total(w, m, T)
  BY <1>1, TotalScales
<1> QED
  BY <1>2

\* A sum that is not zero is of something.
LEMMA TotalIsOfSome ==
  ASSUME NEW n \in Nat, NEW v, NEW S, \A i \in 1 .. n : v[i] \in Nat, Total(v, n, S) > 0
  PROVE  \E i \in 1 .. n : i \in S /\ v[i] > 0
<1> SUFFICES ASSUME \A i \in 1 .. n : i \in S => v[i] = 0
             PROVE  FALSE
  OBVIOUS
<1>1. PICK e : Sums(v, n, S, e) /\ Total(v, n, S) = e[n]
  BY TotalIsTheLastSum
<1> DEFINE P == {k \in 0 .. n : e[k] = 0}
<1>2. \A k \in 0 .. n : e[k] = IF k = 0 THEN 0 ELSE e[k - 1] + IF k \in S THEN v[k] ELSE 0
  BY <1>1 DEF Sums
<1>3. 0 \in P /\ \A k \in 1 .. n : k - 1 \in P => k \in P
  BY <1>2
<1>4. e[n] = 0
  <2> HIDE DEF P
  <2>1. \A k \in 0 .. n : k \in P
    BY <1>3, NatSteps
  <2> QED
    BY <2>1 DEF P
<1> QED
  BY <1>1, <1>4

-----------------------------------------------------------------------------
(* A longer history.                                                       *)

\* h is g and further messages.
Extends(g, h) ==
    /\ g \in Seq(Messages) /\ h \in Seq(Messages) /\ Len(g) <= Len(h)
    /\ \A i \in 1 .. Len(g) : h[i] = g[i]

\* None of these holds a call.
CallFree(g, h) == \A i \in 1 .. Len(h) : i > Len(g) => h[i].call = NoCall

\* What a message weighs is a natural number.
LEMMA WeightsAreNat ==
  ASSUME NEW m \in Messages
  PROVE  m.size \in Nat /\ Tokens(m) \in Nat /\ Weight(m) \in Nat
<1>1. m.size \in Nat
  BY DEF Messages, Message
<1>2. (m.size + 2) \div 4 \in Nat
  BY <1>1
<1> QED
  BY <1>1, <1>2 DEF Tokens, Weight

\* The messages listed before are those listed now up to the same place.
LEMMA TheSameMessages ==
  ASSUME NEW g, NEW h, Extends(g, h), NEW past
  PROVE  /\ DOMAIN g = 1 .. Len(g) /\ DOMAIN h = 1 .. Len(h)
         /\ Len(g) \in Nat /\ Len(h) \in Nat /\ DOMAIN g \subseteq DOMAIN h
         /\ \A i \in DOMAIN h : h[i] \in Messages
         /\ \A i \in DOMAIN g : g[i] = h[i]
         /\ \A i \in DOMAIN g : i \in Numbers(h) <=> i \in Numbers(g)
         /\ \A i \in DOMAIN g : i \in Fresh(h, past) <=> i \in Fresh(g, past)
         /\ Fresh(g, past) \subseteq Fresh(h, past)
         /\ Fresh(h, past) \subseteq Numbers(h) /\ Numbers(h) \subseteq DOMAIN h
         /\ Numbers(g) \subseteq DOMAIN g
<1>1. /\ DOMAIN g = 1 .. Len(g) /\ DOMAIN h = 1 .. Len(h)
      /\ Len(g) \in Nat /\ Len(h) \in Nat /\ Len(g) <= Len(h)
      /\ \A i \in DOMAIN h : h[i] \in Messages
      /\ \A i \in DOMAIN g : g[i] = h[i]
  BY DEF Extends
<1>2. DOMAIN g \subseteq DOMAIN h
  BY <1>1
<1>3. \A i \in DOMAIN g : i \in Numbers(h) <=> i \in Numbers(g)
  BY <1>1, <1>2 DEF Numbers
<1>4. Numbers(g) \subseteq DOMAIN g
  BY DEF Numbers
<1> QED
  BY <1>1, <1>2, <1>3, <1>4 DEF Fresh, Numbers

\* No message comes under protection of the recent ones again.
LEMMA ZoneMovesOn ==
  ASSUME NEW g, NEW h, Extends(g, h), NEW past, NEW i \in DOMAIN g, i \in Zone(h, past)
  PROVE  i \in Zone(g, past)
<1> DEFINE afterG == {j \in Fresh(g, past) : j > i}
           afterH == {j \in Fresh(h, past) : j > i}
           weightG == [j \in DOMAIN g |-> Weight(g[j])]
           weightH == [j \in DOMAIN h |-> Weight(h[j])]
<1>1. /\ i \in Fresh(g, past) /\ afterG \subseteq afterH /\ afterH \subseteq 1 .. Len(h)
      /\ Len(g) \in Nat /\ Len(h) \in Nat /\ Len(g) <= Len(h)
  <2>1. i \in Fresh(h, past)
    BY DEF Zone
  <2> QED
    BY <2>1, TheSameMessages DEF Extends
<1>2. \/ Cardinality(afterH) < RecentMessages
      \/ Total(weightH, Len(h), afterH) < RecentTokens
  BY DEF Zone
<1>3. /\ Cardinality(afterG) \in Nat /\ Cardinality(afterH) \in Nat
      /\ Cardinality(afterG) <= Cardinality(afterH)
  <2> HIDE DEF afterG, afterH
  <2>1. IsFiniteSet(1 .. Len(h))
    BY <1>1, FS_Interval
  <2>2. IsFiniteSet(afterH)
    BY <1>1, <2>1, FS_Subset
  <2> QED
    BY <1>1, <2>2, FS_Subset, FS_CardinalityType
<1>4. /\ Total(weightG, Len(g), afterG) \in Nat /\ Total(weightH, Len(h), afterH) \in Nat
      /\ Total(weightG, Len(g), afterG) <= Total(weightH, Len(h), afterH)
  <2>1. \A j \in 1 .. Len(h) : weightH[j] \in Nat
    BY TheSameMessages, WeightsAreNat
  <2>2. \A j \in 1 .. Len(g) : j \in DOMAIN g /\ j \in DOMAIN h /\ weightG[j] = weightH[j]
    BY TheSameMessages
  <2>3. \A j \in 1 .. Len(g) : weightG[j] \in Nat /\ weightG[j] <= weightH[j]
    <3>1. \A j \in 1 .. Len(g) : j \in 1 .. Len(h)
      BY <1>1
    <3> HIDE DEF weightG, weightH
    <3> QED
      BY <2>1, <2>2, <3>1
  <2> HIDE DEF weightG, weightH, afterG, afterH
  <2> QED
    BY <1>1, <2>1, <2>3, TotalGrows
<1>5. RecentMessages \in Nat /\ RecentTokens \in Nat
  BY RangesAssumption
<1>6. \/ Cardinality(afterG) < RecentMessages
      \/ Total(weightG, Len(g), afterG) < RecentTokens
  <2> HIDE DEF weightG, weightH, afterG, afterH
  <2> QED
    BY <1>2, <1>3, <1>4, <1>5
<1> QED
  BY <1>1, <1>6 DEF Zone

\* The user message spared now was spared before, or was not listed then; the one
\* spared before still is, or another one was said behind it.
LEMMA SparedMovesOn ==
  ASSUME NEW g, NEW h, Extends(g, h), NEW past, NEW i \in DOMAIN g
  PROVE  /\ i \in SparedUser(h, past) => i \in SparedUser(g, past)
         /\ i \in SparedUser(g, past) /\ i \notin SparedUser(h, past) =>
              /\ h[i].who = "user"
              /\ \E j \in Numbers(h) : i < j /\ h[j].who = "user"
<1> DEFINE usersG == {j \in Fresh(g, past) : g[j].who = "user"}
           usersH == {j \in Fresh(h, past) : h[j].who = "user"}
<1>1. /\ usersG \subseteq usersH /\ usersG \subseteq 1 .. Len(g) /\ usersH \subseteq 1 .. Len(h)
      /\ \A j \in DOMAIN g : j \in usersH <=> j \in usersG
      /\ Len(g) \in Nat /\ Len(h) \in Nat /\ i \in 1 .. Len(g)
  <2>1. /\ DOMAIN g = 1 .. Len(g) /\ DOMAIN h = 1 .. Len(h)
        /\ Len(g) \in Nat /\ Len(h) \in Nat
        /\ \A j \in DOMAIN g : g[j] = h[j] /\ (j \in Fresh(h, past) <=> j \in Fresh(g, past))
        /\ Fresh(g, past) \subseteq Fresh(h, past)
        /\ Fresh(g, past) \subseteq DOMAIN g /\ Fresh(h, past) \subseteq DOMAIN h
    BY TheSameMessages DEF Fresh
  <2> QED
    BY <2>1
<1>2. /\ i \in SparedUser(g, past) => config.soft /\ config.lastUser /\ i = Newest(usersG)
      /\ i \in SparedUser(h, past) => config.soft /\ config.lastUser /\ i = Newest(usersH)
      /\ config.soft /\ config.lastUser /\ i = Newest(usersG) => i \in SparedUser(g, past)
      /\ config.soft /\ config.lastUser /\ i = Newest(usersH) => i \in SparedUser(h, past)
  BY DEF SparedUser
<1>3. usersH \subseteq Numbers(h) /\ \A j \in usersH : h[j].who = "user"
  BY TheSameMessages
<1> HIDE DEF usersG, usersH
<1>4. \A U \in {usersG, usersH} : i = Newest(U) => i \in U /\ \A j \in U : j <= i
  <2>1. TAKE U \in {usersG, usersH}
  <2>2. HAVE i = Newest(U)
  <2>3. U # {} /\ i = Max(U)
    BY <1>1, <2>2 DEF Newest, NoMessage
  <2> QED
    BY <1>1, <2>3, EndsOfSome
<1>5. \A U \in {usersG, usersH} : i \in U /\ (\A j \in U : j <= i) => i = Newest(U)
  <2>1. TAKE U \in {usersG, usersH}
  <2>2. HAVE i \in U /\ \A j \in U : j <= i
  <2> HIDE DEF usersG, usersH
  <2>3. Max(U) \in U /\ i <= Max(U) /\ Max(U) <= i /\ U # {}
    <3>1. PICK n \in Nat : U \subseteq 1 .. n
      BY <1>1
    <3>2. U # {}
      BY <2>2
    <3>3. Max(U) \in U /\ \A x \in U : x <= Max(U)
      BY <3>1, <3>2, EndsOfSome
    <3> QED
      BY <2>2, <3>2, <3>3
  <2>4. Max(U) \in Int /\ i \in Int
    <3>1. 1 .. Len(g) \subseteq Int /\ 1 .. Len(h) \subseteq Int
      BY <1>1
    <3>2. U \subseteq Int
      BY <1>1, <3>1
    <3> QED
      BY <2>2, <2>3, <3>2
  <2>5. i = Max(U)
    BY <2>3, <2>4
  <2> QED
    BY <2>3, <2>5 DEF Newest
<1>6. i \in SparedUser(h, past) => i \in SparedUser(g, past)
  BY <1>1, <1>2, <1>4, <1>5
<1>7. ASSUME i \in SparedUser(g, past), i \notin SparedUser(h, past)
      PROVE  h[i].who = "user" /\ \E j \in Numbers(h) : i < j /\ h[j].who = "user"
  <2>1. i \in usersH /\ i # Newest(usersH)
    BY <1>1, <1>2, <1>4, <1>7
  <2>2. PICK j \in usersH : ~(j <= i)
    BY <1>5, <2>1
  <2> QED
    BY <1>1, <1>3, <2>1, <2>2
<1> QED
  BY <1>6, <1>7

\* Boundaries among the messages listed before resolve as they did.
LEMMA ResolvedAgain ==
  ASSUME NEW g, NEW h, Extends(g, h), CallFree(g, h), NEW a \in DOMAIN g, NEW b \in DOMAIN g
  PROVE  Resolved(h, <<a, b>>) = Resolved(g, <<a, b>>)
<1> DEFINE r == <<a, b>>
           calls == CallsOf(g, a .. b)
<1>1. /\ DOMAIN g = 1 .. Len(g) /\ Len(g) \in Nat /\ Len(h) \in Nat /\ Len(g) <= Len(h)
      /\ \A i \in 1 .. Len(g) : h[i] = g[i]
      /\ \A i \in 1 .. Len(h) : i > Len(g) => h[i].call = NoCall
      /\ a \in 1 .. Len(g) /\ b \in 1 .. Len(g)
  BY TheSameMessages DEF Extends, CallFree
<1>2. CallsOf(h, a .. b) = calls /\ NoCall \notin calls
  <2>1. a .. b \subseteq 1 .. Len(g)
    BY <1>1
  <2> QED
    BY <1>1, <2>1 DEF CallsOf
<1> HIDE DEF calls
<1>3. RunAbove(h, b, calls) = RunAbove(g, b, calls)
  <2>1. {i \in b + 1 .. Len(h) : i <= b + 20 /\ h[i].call \in calls}
          = {i \in b + 1 .. Len(g) : i <= b + 20 /\ g[i].call \in calls}
    <3>1. \A i \in b + 1 .. Len(h) : h[i].call \in calls => i <= Len(g)
      BY <1>1, <1>2
    <3>2. \A i \in b + 1 .. Len(g) : h[i] = g[i]
      BY <1>1
    <3>3. \A i : i \in b + 1 .. Len(g) <=> i \in b + 1 .. Len(h) /\ i <= Len(g)
      BY <1>1
    <3> QED
      BY <3>1, <3>2, <3>3
  <2> QED
    BY <2>1, Zenon DEF RunAbove
<1>4. RunBelow(h, a, calls) = RunBelow(g, a, calls)
  <2>1. {i \in 1 .. a - 1 : i >= a - 20 /\ h[i].call \in calls}
          = {i \in 1 .. a - 1 : i >= a - 20 /\ g[i].call \in calls}
    <3>1. \A i \in 1 .. a - 1 : h[i] = g[i]
      BY <1>1
    <3> QED
      BY <3>1
  <2> QED
    BY <2>1, Zenon DEF RunBelow
<1>5. r[1] = a /\ r[2] = b
  OBVIOUS
<1> HIDE DEF r
<1> QED
  BY <1>2, <1>3, <1>4, <1>5 DEF Resolved, calls, r

\* A longer history and more messages have no fewer characters.
LEMMA CharsGrow ==
  ASSUME NEW g, NEW h, Extends(g, h), NEW S, NEW T, S \subseteq T
  PROVE  Chars(g, S) \in Nat /\ Chars(h, T) \in Nat /\ Chars(g, S) <= Chars(h, T)
<1> DEFINE v == [i \in DOMAIN g |-> g[i].size]
           w == [i \in DOMAIN h |-> h[i].size]
<1>1. \A i \in 1 .. Len(h) : w[i] \in Nat
  BY TheSameMessages, WeightsAreNat
<1>2. \A i \in 1 .. Len(g) : i \in 1 .. Len(h) /\ v[i] = w[i]
  <2>1. /\ DOMAIN g = 1 .. Len(g) /\ DOMAIN h = 1 .. Len(h) /\ DOMAIN g \subseteq DOMAIN h
        /\ \A i \in DOMAIN g : g[i] = h[i]
    BY TheSameMessages
  <2> QED
    BY <2>1
<1>3. Len(g) \in Nat /\ Len(h) \in Nat /\ Len(g) <= Len(h)
  BY TheSameMessages DEF Extends
<1> HIDE DEF v, w
<1>4. \A i \in 1 .. Len(g) : v[i] \in Nat /\ (i \in S => i \in T /\ v[i] <= w[i])
  BY <1>1, <1>2
<1>5. /\ Total(v, Len(g), S) \in Nat /\ Total(w, Len(h), T) \in Nat
      /\ Total(v, Len(g), S) <= Total(w, Len(h), T)
  BY <1>1, <1>3, <1>4, TotalGrows
<1> QED
  BY <1>5 DEF Chars, v, w

\* A history extends itself.
LEMMA ExtendsItself ==
  ASSUME NEW h \in Seq(Messages)
  PROVE  Extends(h, h)
BY DEF Extends

-----------------------------------------------------------------------------
(* The drafts.                                                             *)

\* A unit holds a message of the history.
LEMMA UnitsHold ==
  ASSUME NEW h \in Seq(Messages), NEW bs, NEW u \in Units(h, bs)
  PROVE  u \subseteq DOMAIN h /\ u # {}
<1>1. PICK i \in DOMAIN h : u = UnitOf(h, i)
  BY DEF Units
<1>2. DOMAIN h \subseteq Int
  OBVIOUS
<1>3. i \in UnitOf(h, i) /\ UnitOf(h, i) \subseteq DOMAIN h
  BY <1>2 DEF UnitOf
<1> QED
  BY <1>1, <1>3

\* Units that share a message are the same.
LEMMA UnitsAreClasses ==
  ASSUME NEW h \in Seq(Messages), NEW bs, NEW u \in Units(h, bs), NEW v \in Units(h, bs),
         NEW x \in u, x \in v
  PROVE  u = v
<1> DEFINE Whole(i, j) == \A k \in DOMAIN h : (i <= k /\ k < j) \/ (j <= k /\ k < i) => ~Cut(h, k)
<1>1. DOMAIN h \subseteq Int
  OBVIOUS
<1>2. \A i, j, m \in DOMAIN h : Whole(i, j) /\ Whole(m, j) => Whole(i, m)
  <2>1. TAKE i, j, m \in DOMAIN h
  <2>2. HAVE Whole(i, j) /\ Whole(m, j)
  <2>3. TAKE k \in DOMAIN h
  <2>4. HAVE (i <= k /\ k < m) \/ (m <= k /\ k < i)
  <2>5. i \in Int /\ j \in Int /\ m \in Int /\ k \in Int
    BY <1>1
  <2>6. (i <= k /\ k < j) \/ (j <= k /\ k < i) \/ (m <= k /\ k < j) \/ (j <= k /\ k < m)
    BY <2>4, <2>5
  <2> QED
    BY <2>2, <2>6
<1>3. \A i, j \in DOMAIN h : Whole(i, j) => Whole(j, i)
  OBVIOUS
<1>4. PICK i \in DOMAIN h : u = UnitOf(h, i)
  BY DEF Units
<1>5. PICK m \in DOMAIN h : v = UnitOf(h, m)
  BY DEF Units
<1>6. \A n, j : j \in UnitOf(h, n) <=> j \in DOMAIN h /\ Whole(n, j)
  BY DEF UnitOf
<1>7. x \in DOMAIN h /\ Whole(i, x) /\ Whole(m, x)
  BY <1>4, <1>5, <1>6
<1> HIDE DEF Whole
<1>8. Whole(i, m) /\ Whole(m, i)
  BY <1>2, <1>7
<1>9. \A j \in DOMAIN h : Whole(i, j) <=> Whole(m, j)
  BY <1>2, <1>3, <1>8
<1> QED
  BY <1>4, <1>5, <1>6, <1>9

\* What lies between two of three linked sets lies between two that are linked.
LEMMA BetweenLinked ==
  ASSUME NEW h \in Seq(Messages), NEW u, NEW v, NEW w, NEW z,
         NEW p \in v, NEW q \in u, u \subseteq DOMAIN h, v \subseteq DOMAIN h,
         w \subseteq DOMAIN h, z \subseteq DOMAIN h
  PROVE  Between(h, w \cup z)
           \subseteq Between(h, w \cup v) \cup Between(h, u \cup v) \cup Between(h, u \cup z)
<1>1. DOMAIN h \subseteq Int
  OBVIOUS
<1>2. SUFFICES ASSUME NEW x \in DOMAIN h, NEW a \in w \cup z, NEW b \in w \cup z, a <= x, x <= b
               PROVE  \/ \E c, d \in w \cup v : c <= x /\ x <= d
                      \/ \E c, d \in u \cup v : c <= x /\ x <= d
                      \/ \E c, d \in u \cup z : c <= x /\ x <= d
  BY DEF Between
<1>3. x \in Int /\ a \in Int /\ b \in Int /\ p \in Int /\ q \in Int
  BY <1>1
<1>4. CASE a \in w /\ b \in w
  BY <1>2, <1>4
<1>5. CASE a \in z /\ b \in z
  BY <1>2, <1>5
<1>6. CASE a \in w /\ b \in z
  <2>1. (a <= x /\ x <= p) \/ (p <= x /\ x <= q) \/ (q <= x /\ x <= b)
    BY <1>2, <1>3
  <2> QED
    BY <1>6, <2>1
<1>7. CASE a \in z /\ b \in w
  <2>1. (a <= x /\ x <= q) \/ (q <= x /\ x <= p) \/ (p <= x /\ x <= b)
    BY <1>2, <1>3
  <2> QED
    BY <1>7, <2>1
<1> QED
  BY <1>4, <1>5, <1>6, <1>7

\* Drafts that share a message are the same.
LEMMA DraftsAreDisjoint ==
  ASSUME NEW h \in Seq(Messages), NEW bs, NEW past,
         NEW d \in Drafts(h, bs, past), NEW e \in Drafts(h, bs, past), NEW x \in d, x \in e
  PROVE  d = e
<1> DEFINE guarded == {u \in Units(h, bs) : Guarded(h, past, u)}
           open == {u \in Units(h, bs) \ guarded : Chars(h, u) > 0}
           large == {u \in open : Chars(h, u) >= MinChars}
           small == open \ large
           before(u, g) == Min(u) < Min(g)
           parted(u, v) == \E g \in guarded : before(u, g) # before(v, g)
           behind(u) == \A g \in guarded : ~before(u, g)
           row(u, v) == Between(h, u \cup v) \subseteq UNION small
           with(u, v) == ~parted(u, v) /\ (behind(u) => row(u, v))
           joined(u) == UNION {v \in small : with(u, v)}
<1>1. Drafts(h, bs, past) = large \cup {j \in {joined(u) : u \in small} : Chars(h, j) >= MinChars}
  BY Zenon DEF Drafts
<1>2. /\ small \subseteq Units(h, bs) /\ large \subseteq Units(h, bs) /\ small \cap large = {}
      /\ \A u \in Units(h, bs) : u \subseteq DOMAIN h /\ u # {}
      /\ \A u, v \in Units(h, bs) : \A y \in u : y \in v => u = v
  <2>1. \A u \in Units(h, bs) : u \subseteq DOMAIN h /\ u # {}
    BY UnitsHold
  <2>2. \A u, v \in Units(h, bs) : \A y \in u : y \in v => u = v
    BY UnitsAreClasses
  <2> QED
    BY <2>1, <2>2
<1>3. \A u, v, w : ~parted(u, v) /\ ~parted(w, v) => ~parted(u, w) /\ (behind(u) <=> behind(w))
  OBVIOUS
<1>4. \A u, v : ~parted(u, v) => ~parted(v, u)
  OBVIOUS
<1> HIDE DEF guarded, parted, behind, small, large
<1>5. ASSUME NEW u \in small, NEW w \in small, NEW v \in small, NEW y \in v,
             with(u, v), with(w, v), NEW z \in small, with(u, z)
      PROVE  with(w, z)
  <2>1. ~parted(w, z) /\ (behind(w) <=> behind(u))
    BY <1>3, <1>4, <1>5
  <2>2. ASSUME behind(w)
        PROVE  row(w, z)
    <3>1. row(u, v) /\ row(w, v) /\ row(u, z)
      BY <1>5, <2>1, <2>2
    <3>2. PICK q \in u : TRUE
      BY <1>2
    <3>3. u \subseteq DOMAIN h /\ v \subseteq DOMAIN h /\ w \subseteq DOMAIN h /\ z \subseteq DOMAIN h
      BY <1>2
    <3>4. Between(h, w \cup z)
            \subseteq Between(h, w \cup v) \cup Between(h, u \cup v) \cup Between(h, u \cup z)
      BY <3>2, <3>3, BetweenLinked
    <3> QED
      BY <3>1, <3>4
  <2> QED
    BY <2>1, <2>2
<1> HIDE DEF with
<1>6. ASSUME NEW u \in small, NEW w \in small, NEW y \in joined(u), y \in joined(w)
      PROVE  joined(u) = joined(w)
  <2>1. PICK v \in small : with(u, v) /\ y \in v
    OBVIOUS
  <2>2. PICK v2 \in small : with(w, v2) /\ y \in v2
    BY <1>6
  <2>3. v = v2
    BY <1>2, <2>1, <2>2
  <2>4. \A z \in small : with(u, z) <=> with(w, z)
    BY <1>5, <2>1, <2>2, <2>3
  <2> QED
    BY <2>4
<1>7. ASSUME NEW u \in small, NEW l \in large, NEW y \in joined(u), y \in l
      PROVE  FALSE
  <2>1. PICK v \in small : y \in v
    OBVIOUS
  <2>2. v = l
    BY <1>2, <1>7, <2>1
  <2> QED
    BY <1>2, <2>1, <2>2
<1> HIDE DEF joined
<1>8. /\ d \in large \/ \E u \in small : d = joined(u)
      /\ e \in large \/ \E u \in small : e = joined(u)
  BY <1>1
<1>9. CASE d \in large /\ e \in large
  BY <1>2, <1>9
<1> QED
  BY <1>6, <1>7, <1>8, <1>9

\* A draft is made of units, holds a message, and no message of a block.
LEMMA DraftsAreOfUnits ==
  ASSUME NEW h \in Seq(Messages), NEW bs, NEW past, NEW d \in Drafts(h, bs, past)
  PROVE  d # {} /\ d \subseteq DOMAIN h /\ d \cap Covered(bs) = {}
<1> DEFINE guarded == {u \in Units(h, bs) : Guarded(h, past, u)}
           open == {u \in Units(h, bs) \ guarded : Chars(h, u) > 0}
           large == {u \in open : Chars(h, u) >= MinChars}
           small == open \ large
           before(u, g) == Min(u) < Min(g)
           parted(u, v) == \E g \in guarded : before(u, g) # before(v, g)
           behind(u) == \A g \in guarded : ~before(u, g)
           row(u, v) == Between(h, u \cup v) \subseteq UNION small
           with(u, v) == ~parted(u, v) /\ (behind(u) => row(u, v))
           joined(u) == UNION {v \in small : with(u, v)}
<1>1. Drafts(h, bs, past) = large \cup {j \in {joined(u) : u \in small} : Chars(h, j) >= MinChars}
  BY Zenon DEF Drafts
<1>2. /\ small \subseteq Units(h, bs) /\ large \subseteq Units(h, bs)
      /\ \A u \in small : ~(Chars(h, u) >= MinChars)
  OBVIOUS
<1>3. \A u \in Units(h, bs) : u # {} /\ u \subseteq DOMAIN h /\ u \cap Covered(bs) = {}
  BY UnitsHold DEF Units
<1> HIDE DEF with, large, small
<1>4. CASE d \in large
  BY <1>2, <1>3, <1>4
<1>5. ASSUME NEW u \in small, d = joined(u), Chars(h, d) >= MinChars
      PROVE  d # {} /\ d \subseteq DOMAIN h /\ d \cap Covered(bs) = {}
  <2>1. d \subseteq DOMAIN h /\ d \cap Covered(bs) = {}
    BY <1>2, <1>3, <1>5
  <2>2. ASSUME d = {}
        PROVE  FALSE
    <3>1. /\ Chars(h, {}) \in Nat /\ Chars(h, u) \in Nat
          /\ Chars(h, {}) <= Chars(h, u) /\ MinChars \in Nat
      BY CharsGrow, ExtendsItself, RangesAssumption
    <3>2. ~(Chars(h, u) >= MinChars) /\ Chars(h, {}) >= MinChars
      BY <1>2, <1>5, <2>2
    <3> QED
      BY <3>1, <3>2
  <2> QED
    BY <2>1, <2>2
<1> QED
  BY <1>1, <1>4, <1>5

-----------------------------------------------------------------------------
(* The call.                                                               *)

\* What a candidate is: not empty, all that is selected between its ends, and with
\* nothing under protection there.
LEMMA CandidatesHold ==
  ASSUME NEW g \in Seq(Messages), NEW bs, NEW past, NEW d \in Candidates(g, bs, past)
  PROVE  /\ d \in Drafts(g, bs, past)
         /\ d # {} /\ d \subseteq DOMAIN g /\ d \cap Covered(bs) = {}
         /\ Ends(d)[1] \in d /\ Ends(d)[2] \in d
         /\ \A i \in d : Ends(d)[1] <= i /\ i <= Ends(d)[2]
         /\ \A i \in DOMAIN g :
              Ends(d)[1] <= i /\ i <= Ends(d)[2] => i \notin NudgeZone(g, past) /\ ~g[i].prot
         /\ Resolved(g, Ends(d)) = Ends(d) /\ Selected(g, past, Ends(d)) = d
         /\ Chars(g, d) >= MinChars
<1>1. /\ d \in Drafts(g, bs, past)
      /\ ~Guarded(g, past, Between(g, d))
      /\ Resolved(g, Ends(d)) = Ends(d) /\ Selected(g, past, Ends(d)) = d
      /\ Chars(g, d) >= MinChars
  BY Zenon DEF Candidates
<1>2. d # {} /\ d \subseteq DOMAIN g /\ d \cap Covered(bs) = {}
  BY <1>1, DraftsAreOfUnits
<1>3. /\ Ends(d)[1] \in d /\ Ends(d)[2] \in d
      /\ \A i \in d : Ends(d)[1] <= i /\ i <= Ends(d)[2]
  <2>1. DOMAIN g = 1 .. Len(g) /\ Len(g) \in Nat
    OBVIOUS
  <2>2. /\ Min(d) \in d /\ \A x \in d : Min(d) <= x
        /\ Max(d) \in d /\ \A x \in d : x <= Max(d)
    BY <1>2, <2>1, EndsOfSome
  <2> QED
    BY <2>2 DEF Ends
<1>4. \A i \in DOMAIN g : Ends(d)[1] <= i /\ i <= Ends(d)[2] => i \in Between(g, d)
  BY <1>3 DEF Between
<1> QED
  BY <1>1, <1>2, <1>3, <1>4 DEF Guarded

\* What the tool takes for a candidate.
LEMMA CandidatesAreTaken ==
  ASSUME NEW g, NEW h, Extends(g, h), CallFree(g, h),
         NEW bs, NEW past, NEW d \in Candidates(g, bs, past)
  PROVE  /\ Resolved(h, Ends(d)) = Ends(d)
         /\ d \subseteq Selected(h, past, Ends(d))
         /\ \A i \in Selected(h, past, Ends(d)) \ d :
              /\ i \in SparedUser(g, past)
              /\ h[i].who = "user"
              /\ \E j \in Numbers(h) : i < j /\ h[j].who = "user"
<1> DEFINE a == Ends(d)[1]
           b == Ends(d)[2]
<1>1. g \in Seq(Messages) /\ h \in Seq(Messages)
  BY DEF Extends
<1>2. /\ a \in d /\ b \in d /\ d \subseteq DOMAIN g
      /\ \A i \in DOMAIN g : a <= i /\ i <= b => i \notin NudgeZone(g, past)
      /\ Resolved(g, Ends(d)) = Ends(d) /\ Selected(g, past, Ends(d)) = d
  BY <1>1, CandidatesHold
<1>3. Ends(d) = <<a, b>>
  BY DEF Ends
<1>4. \A i \in DOMAIN h : i <= b => i \in DOMAIN g
  <2>1. DOMAIN g = 1 .. Len(g) /\ DOMAIN h = 1 .. Len(h) /\ Len(g) \in Nat /\ Len(h) \in Nat
    BY TheSameMessages
  <2>2. b \in 1 .. Len(g)
    BY <1>2, <2>1
  <2> HIDE DEF b
  <2> QED
    BY <2>1, <2>2
<1> HIDE DEF a, b
<1>5. \A i : i \in d <=> /\ i \in Numbers(g) /\ a <= i /\ i <= b /\ ~g[i].prot
                         /\ i \notin SparedUser(g, past) /\ i \notin NudgeZone(g, past)
  <2>1. \A i : i \in Selected(g, past, Ends(d)) <=>
                 /\ i \in Numbers(g) /\ a <= i /\ i <= b /\ ~g[i].prot
                 /\ i \notin SparedUser(g, past) /\ i \notin NudgeZone(g, past)
    BY DEF Selected, a, b
  <2> QED
    BY <1>2, <2>1
<1>6. \A i : i \in Selected(h, past, Ends(d)) <=>
               /\ i \in Numbers(h) /\ a <= i /\ i <= b /\ ~h[i].prot
               /\ i \notin SparedUser(h, past) /\ i \notin NudgeZone(h, past)
  BY DEF Selected, a, b
<1>7. \A i \in DOMAIN g : i \in NudgeZone(h, past) => i \in NudgeZone(g, past)
  BY ZoneMovesOn DEF NudgeZone
<1>8. \A i \in DOMAIN g : /\ g[i] = h[i] /\ (i \in Numbers(h) <=> i \in Numbers(g))
                          /\ Numbers(h) \subseteq DOMAIN h
  BY TheSameMessages
<1>9. d \subseteq Selected(h, past, Ends(d))
  <2>1. SUFFICES ASSUME NEW i \in d
                 PROVE  i \in Selected(h, past, Ends(d))
    OBVIOUS
  <2>2. i \in DOMAIN g
    BY <1>2
  <2>3. i \notin SparedUser(h, past)
    BY <1>5, <2>2, SparedMovesOn
  <2> QED
    BY <1>5, <1>6, <1>7, <1>8, <2>2, <2>3
<1>10. ASSUME NEW i \in Selected(h, past, Ends(d)) \ d
       PROVE  /\ i \in SparedUser(g, past)
              /\ h[i].who = "user"
              /\ \E j \in Numbers(h) : i < j /\ h[j].who = "user"
  <2>1. i \in DOMAIN g
    BY <1>2, <1>4, <1>6, <1>8, <1>10
  <2>2. i \in SparedUser(g, past) /\ i \notin SparedUser(h, past)
    BY <1>2, <1>5, <1>6, <1>8, <1>10, <2>1
  <2> QED
    BY <2>1, <2>2, SparedMovesOn
<1>11. Resolved(h, Ends(d)) = Ends(d)
  BY <1>2, <1>3, ResolvedAgain
<1> QED
  BY <1>9, <1>10, <1>11

\* A batch of candidates is not refused, and each is planned between its ends.
LEMMA BatchIsTaken ==
  ASSUME NEW g, NEW h, Extends(g, h), CallFree(g, h),
         NEW ds \in SUBSET Candidates(g, blocks, known), ds # {}
  PROVE  /\ Prepared(h, {Ends(d) : d \in ds}) = {Plan(h, Ends(d)) : d \in ds}
         /\ Prepared(h, {Ends(d) : d \in ds}) # {}
<1> DEFINE rs == {Ends(d) : d \in ds}
           T(d) == Selected(h, known, Ends(d))
<1>1. g \in Seq(Messages)
  BY DEF Extends
<1>2. ASSUME NEW d \in ds
      PROVE  /\ d \in Candidates(g, blocks, known) /\ d \in Drafts(g, blocks, known)
             /\ d # {} /\ d \subseteq DOMAIN g /\ d \cap Covered(blocks) = {}
             /\ Ends(d)[1] \in d
             /\ Selected(g, known, Ends(d)) = d
             /\ Chars(g, d) >= MinChars
             /\ Resolved(h, Ends(d)) = Ends(d)
             /\ d \subseteq T(d)
  BY <1>1, CandidatesHold, CandidatesAreTaken
<1>3. ~Overlap(h, rs)
  <2> SUFFICES ASSUME Overlap(h, rs) PROVE FALSE
    OBVIOUS
  <2>0. PICK r \in rs, q \in rs :
          r # q /\ Resolved(h, r)[1] <= Resolved(h, q)[1] /\ Resolved(h, q)[1] <= Resolved(h, r)[2]
    BY Zenon DEF Overlap
  <2>1. PICK d \in ds, e \in ds :
          Ends(d) # Ends(e) /\ Ends(d)[1] <= Ends(e)[1] /\ Ends(e)[1] <= Ends(d)[2]
    <3>1. PICK d \in ds, e \in ds : r = Ends(d) /\ q = Ends(e)
      OBVIOUS
    <3>2. Resolved(h, r) = r /\ Resolved(h, q) = q
      BY <1>2, <3>1
    <3> QED
      BY <2>0, <3>1, <3>2
  <2> DEFINE x == Ends(e)[1]
  <2>2. x \in e /\ x \in Selected(g, known, Ends(e))
    BY <1>2
  <2>3. x \in Selected(g, known, Ends(d))
    BY <2>1, <2>2 DEF Selected
  <2>4. x \in d
    BY <1>2, <2>3
  <2> HIDE DEF x
  <2>5. d = e
    BY <1>1, <1>2, <2>2, <2>4, DraftsAreDisjoint
  <2> QED
    BY <2>1, <2>5
<1>4. \A d \in ds : T(d) \in Plans(h, known, rs)
  <2>1. \A d \in ds : T(d) # {} /\ Resolved(h, Ends(d)) = Ends(d)
    BY <1>2
  <2> QED
    BY <2>1 DEF Plans
<1>5. PICK d \in ds : TRUE
  OBVIOUS
<1>6. Chars(h, UNION Plans(h, known, rs)) >= MinChars
  <2>1. d \subseteq UNION Plans(h, known, rs)
    BY <1>2, <1>4
  <2>2. /\ Chars(g, d) \in Nat /\ Chars(h, UNION Plans(h, known, rs)) \in Nat
        /\ Chars(g, d) <= Chars(h, UNION Plans(h, known, rs))
    BY <2>1, CharsGrow
  <2>3. Chars(g, d) >= MinChars /\ MinChars \in Nat
    BY <1>2, RangesAssumption
  <2> QED
    BY <2>2, <2>3
<1>7. PlannerAccepts(h, known, rs)
  BY <1>3, <1>4, <1>5, <1>6 DEF PlannerAccepts
<1>8. {Plan(h, Resolved(h, r)) : r \in rs} = {Plan(h, Ends(e)) : e \in ds}
  <2>1. \A e \in ds : Plan(h, Resolved(h, Ends(e))) = Plan(h, Ends(e))
    BY <1>2
  <2> QED
    BY <2>1
<1>9. \A e \in ds : Plan(h, Ends(e)).taken # {} /\ ~Phantom(Plan(h, Ends(e)))
  <2>1. TAKE e \in ds
  <2>2. /\ Plan(h, Ends(e)).taken = T(e)
        /\ T(e) \subseteq Plan(h, Ends(e)).block.msgs
    BY DEF Plan
  <2>3. PICK x \in e : x \notin Covered(blocks)
    BY <1>2
  <2>4. x \in T(e)
    BY <1>2
  <2> QED
    BY <2>2, <2>3, <2>4 DEF Phantom
<1> HIDE DEF rs
<1>10. Prepared(h, rs) = {Plan(h, Ends(e)) : e \in ds}
  BY <1>7, <1>8, <1>9, Zenon DEF Prepared
<1> QED
  BY <1>5, <1>10 DEF rs

\* A sequence and one more.
LEMMA OneMore ==
  ASSUME NEW S, NEW s \in Seq(S), NEW x \in S
  PROVE  /\ Append(s, x) \in Seq(S) /\ Len(Append(s, x)) = Len(s) + 1
         /\ Append(s, x)[Len(s) + 1] = x
         /\ \A i \in 1 .. Len(s) : Append(s, x)[i] = s[i]
<1>1. Append(s, x) \in Seq(S)
  OBVIOUS
<1>2. Len(Append(s, x)) = Len(s) + 1
  OBVIOUS
<1>3. Append(s, x)[Len(s) + 1] = x
  OBVIOUS
<1>4. \A i \in 1 .. Len(s) : Append(s, x)[i] = s[i]
  OBVIOUS
<1> QED
  BY <1>1, <1>2, <1>3, <1>4

\* What the calling message and one before it add to the history.
LEMMA HistoryGrows ==
  ASSUME history \in Seq(Messages),
         NEW between \in {<<>>} \cup {<<m>> : m \in {k \in Kinds : k.who # "assistant"}}
  PROVE  /\ Extends(history, history \o Append(between, CallMessage))
         /\ CallFree(history, history \o Append(between, CallMessage))
<1> DEFINE new == Append(between, CallMessage)
           h == history \o new
<1>1. CallMessage \in Messages /\ CallMessage.call = NoCall
  BY DEF CallMessage, Messages, Message, NoCall
<1>2. new \in Seq(Messages) /\ \A i \in 1 .. Len(new) : new[i].call = NoCall
  <2> HIDE DEF CallMessage
  <2>1. CASE between = <<>>
    <3>1. new = <<CallMessage>>
      BY <2>1
    <3> HIDE DEF new
    <3> QED
      BY <1>1, <3>1
  <2>2. ASSUME NEW m \in Kinds, m.who # "assistant", between = <<m>>
        PROVE  new \in Seq(Messages) /\ \A i \in 1 .. Len(new) : new[i].call = NoCall
    <3>1. m \in Messages /\ m.call = NoCall
      BY <2>2, RangesAssumption DEF Messages
    <3>2. between \in Seq(Messages) /\ Len(between) = 1 /\ between[1] = m
      BY <2>2, <3>1
    <3>3. new \in Seq(Messages) /\ Len(new) = 2 /\ new[1] = m /\ new[2] = CallMessage
      <4>1. /\ new \in Seq(Messages) /\ Len(new) = Len(between) + 1
            /\ new[Len(between) + 1] = CallMessage
            /\ \A i \in 1 .. Len(between) : new[i] = between[i]
        <5>1. between \in Seq(Messages) /\ CallMessage \in Messages
          BY <1>1, <3>2
        <5>2. new \in Seq(Messages)
          BY <5>1, OneMore
        <5>3. Len(new) = Len(between) + 1
          BY <5>1, OneMore
        <5>4. new[Len(between) + 1] = CallMessage
          BY <5>1, OneMore
        <5>5. \A i \in 1 .. Len(between) : new[i] = between[i]
          BY <5>1, OneMore
        <5> HIDE DEF new
        <5> QED
          BY <5>2, <5>3, <5>4, <5>5
      <4>2. 1 \in 1 .. Len(between) /\ Len(between) + 1 = 2
        BY <3>2
      <4> HIDE DEF new
      <4> QED
        BY <3>2, <4>1, <4>2
    <3> HIDE DEF new
    <3>4. \A i \in 1 .. 2 : i = 1 \/ i = 2
      OBVIOUS
    <3> QED
      BY <1>1, <3>1, <3>3, <3>4
  <2> QED
    BY <2>1, <2>2
<1> HIDE DEF new
<1>3. /\ h \in Seq(Messages) /\ Len(h) = Len(history) + Len(new)
      /\ Len(history) \in Nat /\ Len(new) \in Nat
      /\ \A i \in 1 .. Len(h) :
           h[i] = IF i <= Len(history) THEN history[i] ELSE new[i - Len(history)]
  BY <1>2
<1> HIDE DEF h
<1>4. \A i \in 1 .. Len(history) : h[i] = history[i]
  BY <1>3
<1>5. \A i \in 1 .. Len(h) : i > Len(history) => h[i].call = NoCall
  <2>1. TAKE i \in 1 .. Len(h)
  <2>2. HAVE i > Len(history)
  <2>3. i - Len(history) \in 1 .. Len(new) /\ h[i] = new[i - Len(history)]
    BY <1>3, <2>2
  <2> QED
    BY <1>2, <2>3
<1> QED
  BY <1>3, <1>4, <1>5 DEF Extends, CallFree, h, new

-----------------------------------------------------------------------------
(* The calls.                                                              *)

\* A call that answers with candidates takes them.
LEMMA AnswersAreExact ==
  ASSUME RangesTypeOK, Answer
  PROVE  CandidatesAreExact'
<1>1. PICK offer \in Offers \cup OwnRanges,
           between \in {<<>>} \cup {<<m>> : m \in {k \in Kinds : k.who # "assistant"}} :
        LET h == history \o Append(between, CallMessage)
            plans == Prepared(h, {o.ends : o \in offer.all})
            ended(how) == last' = [kind |-> offer.kind, stands |-> {o.stands : o \in offer.all},
                                   taken |-> {p.taken : p \in plans}, ends |-> how]
        IN /\ history' = h
           /\ \E poor, ack \in BOOLEAN :
                \/ Refused(plans) /\ ended("refused")
                \/ Rejected(plans, poor, ack) /\ ended("rejected")
                \/ Compressed(plans, poor, ack) /\ ended(IF poor THEN "poor" ELSE "compressed")
  BY Zenon DEF Answer
<1> DEFINE h == history \o Append(between, CallMessage)
           plans == Prepared(h, {o.ends : o \in offer.all})
<1>2. /\ history' = h
      /\ last'.kind = offer.kind /\ last'.stands = {o.stands : o \in offer.all}
      /\ last'.taken = {p.taken : p \in plans}
      /\ last'.ends = "refused" => plans = {}
  <2> HIDE DEF h, plans
  <2>1. PICK poor \in BOOLEAN, ack \in BOOLEAN, how \in {"refused", "rejected", "poor", "compressed"} :
          /\ last' = [kind |-> offer.kind, stands |-> {o.stands : o \in offer.all},
                      taken |-> {p.taken : p \in plans}, ends |-> how]
          /\ how = "refused" => plans = {}
    BY <1>1 DEF h, plans, Refused
  <2> QED
    BY <1>1, <2>1 DEF h
<1>3. SUFFICES ASSUME offer.kind = "candidates"
               PROVE  /\ last'.ends # "refused"
                      /\ \A d \in last'.stands : \E t \in last'.taken : Takes(t, d)'
                      /\ \A t \in last'.taken : \E d \in last'.stands : Takes(t, d)'
  BY <1>2 DEF CandidatesAreExact
<1>4. PICK ds \in SUBSET Candidates(history, blocks, known) :
         ds # {} /\ offer.all = {[ends |-> Ends(d), stands |-> d] : d \in ds}
  <2>1. offer \notin OwnRanges /\ offer \in Offers
    BY <1>3 DEF OwnRanges
  <2>2. config.candidates
    BY <1>3, <2>1 DEF Offers, RangesTypeOK
  <2>3. offer \in {[kind |-> "candidates", all |-> {[ends |-> Ends(d), stands |-> d] : d \in ds}] :
                     ds \in (SUBSET Candidates(history, blocks, known)) \ {{}}}
    BY <2>1, <2>2, Zenon DEF Offers
  <2> QED
    BY <2>3
<1>5. {o.ends : o \in offer.all} = {Ends(d) : d \in ds} /\ {o.stands : o \in offer.all} = ds
  <2> DEFINE item(d) == [ends |-> Ends(d), stands |-> d]
  <2>1. \A d \in ds : item(d).ends = Ends(d) /\ item(d).stands = d
    OBVIOUS
  <2>2. offer.all = {item(d) : d \in ds}
    BY <1>4
  <2> HIDE DEF item
  <2> QED
    BY <2>1, <2>2
<1>6. history \in Seq(Messages) /\ Extends(history, h) /\ CallFree(history, h)
  BY HistoryGrows DEF RangesTypeOK
<1> HIDE DEF h
<1>7. plans = {Plan(h, Ends(d)) : d \in ds} /\ plans # {}
  <2>1. plans = Prepared(h, {Ends(d) : d \in ds})
    BY <1>5
  <2> HIDE DEF plans
  <2> QED
    BY <1>4, <1>6, <2>1, BatchIsTaken
<1>8. last'.taken = {Selected(h, known, Ends(d)) : d \in ds}
  <2>1. \A d \in ds : Plan(h, Ends(d)).taken = Selected(h, known, Ends(d))
    BY DEF Plan
  <2> HIDE DEF plans
  <2> QED
    BY <1>2, <1>7, <2>1
<1>9. ASSUME NEW d \in ds, NEW t, t = Selected(h, known, Ends(d))
      PROVE  Takes(t, d)'
  <2>1. d \subseteq t
    BY <1>6, <1>9, CandidatesAreTaken
  <2>2. ASSUME NEW i \in t \ d
        PROVE  /\ h[i].who = "user" /\ \E j \in Numbers(h) : i < j /\ h[j].who = "user"
               /\ t \ d = {i}
    <3>1. \A j \in t \ d : j \in SparedUser(history, known)
      BY <1>6, <1>9, CandidatesAreTaken
    <3>2. \A j, k \in SparedUser(history, known) : j = k
      BY DEF SparedUser
    <3>3. t \ d = {i}
      BY <2>2, <3>1, <3>2
    <3> QED
      BY <1>6, <1>9, <2>2, <3>3, CandidatesAreTaken
  <2>3. \A i \in t \ d : Overtaken(i)'
    BY <1>2, <2>2 DEF Overtaken
  <2> QED
    BY <2>1, <2>2, <2>3 DEF Takes
<1>10. last'.stands = ds /\ last'.ends # "refused"
  BY <1>2, <1>5, <1>7
<1>11. ASSUME NEW d \in ds
       PROVE  \E t \in last'.taken : Takes(t, d)'
  <2>1. PICK t \in last'.taken : t = Selected(h, known, Ends(d))
    BY <1>8
  <2> QED
    BY <1>9, <2>1
<1>12. ASSUME NEW t \in last'.taken
       PROVE  \E d \in ds : Takes(t, d)'
  <2>1. PICK d \in ds : t = Selected(h, known, Ends(d))
    BY <1>8
  <2> QED
    BY <1>9, <2>1
<1> QED
  BY <1>10, <1>11, <1>12

\* Only a poor summary that was let through ends so.
LEMMA PoorIsBypassed ==
  ASSUME Answer
  PROVE  /\ (retry' => verdict' = "rejected") \/ UNCHANGED <<retry, verdict>>
         /\ last'.ends = "poor" => retry
         /\ \/ UNCHANGED <<retry, verdict>>
            \/ retry' \in BOOLEAN /\ verdict' \in {"rejected", "accepted"}
<1>1. PICK offer \in Offers \cup OwnRanges,
           between \in {<<>>} \cup {<<m>> : m \in {k \in Kinds : k.who # "assistant"}} :
        LET h == history \o Append(between, CallMessage)
            plans == Prepared(h, {o.ends : o \in offer.all})
            ended(how) == last' = [kind |-> offer.kind, stands |-> {o.stands : o \in offer.all},
                                   taken |-> {p.taken : p \in plans}, ends |-> how]
        IN \E poor, ack \in BOOLEAN :
             \/ Refused(plans) /\ ended("refused")
             \/ Rejected(plans, poor, ack) /\ ended("rejected")
             \/ Compressed(plans, poor, ack) /\ ended(IF poor THEN "poor" ELSE "compressed")
  BY Zenon DEF Answer
<1> DEFINE h == history \o Append(between, CallMessage)
           plans == Prepared(h, {o.ends : o \in offer.all})
<1>2. PICK poor \in BOOLEAN, ack \in BOOLEAN :
         \/ Refused(plans) /\ last'.ends = "refused"
         \/ Rejected(plans, poor, ack) /\ last'.ends = "rejected"
         \/ Compressed(plans, poor, ack) /\ last'.ends = IF poor THEN "poor" ELSE "compressed"
  <2> DEFINE answered(how) == [kind |-> offer.kind, stands |-> {o.stands : o \in offer.all},
                               taken |-> {p.taken : p \in plans}, ends |-> how]
  <2>1. PICK poor \in BOOLEAN, ack \in BOOLEAN :
          \/ Refused(plans) /\ last' = answered("refused")
          \/ Rejected(plans, poor, ack) /\ last' = answered("rejected")
          \/ Compressed(plans, poor, ack) /\ last' = answered(IF poor THEN "poor" ELSE "compressed")
    BY <1>1, Zenon
  <2>2. \A how : answered(how).ends = how
    OBVIOUS
  <2> HIDE DEF answered, h, plans
  <2> QED
    BY <2>1, <2>2
<1> HIDE DEF h, plans
<1>3. CASE Refused(plans) /\ last'.ends = "refused"
  BY <1>3 DEF Refused
<1>4. CASE Rejected(plans, poor, ack) /\ last'.ends = "rejected"
  BY <1>4 DEF Rejected
<1>5. CASE Compressed(plans, poor, ack) /\ last'.ends = IF poor THEN "poor" ELSE "compressed"
  <2>1. retry' = FALSE /\ verdict' = "accepted"
    BY <1>5 DEF Compressed
  <2>2. last'.ends = "poor" => retry
    BY <1>5 DEF Compressed, Bypassed
  <2> QED
    BY <2>1, <2>2
<1> QED
  BY <1>2, <1>3, <1>4, <1>5

\* The calls of the model keep the types.
LEMMA TypesKept ==
  ASSUME RangesTypeOK, Next
  PROVE  RangesTypeOK'
<1>1. config' = config
  BY DEF Next, Say, Answer, Decompress, Restart
<1>2. history' \in Seq(Messages)
  <2>1. ASSUME NEW m \in Kinds, Say(m)
        PROVE  history' \in Seq(Messages)
    <3>1. m \in Messages
      BY RangesAssumption
    <3> QED
      BY <2>1, <3>1 DEF Say, RangesTypeOK
  <2>2. CASE Answer
    <3>1. PICK between \in {<<>>} \cup {<<m>> : m \in {k \in Kinds : k.who # "assistant"}} :
             history' = history \o Append(between, CallMessage)
      BY <2>2, Zenon DEF Answer
    <3> QED
      BY <3>1, HistoryGrows DEF RangesTypeOK, Extends
  <2>3. CASE Decompress \/ Restart
    BY <2>3 DEF Decompress, Restart, RangesTypeOK
  <2> QED
    BY <2>1, <2>2, <2>3 DEF Next
<1>3. retry' \in BOOLEAN /\ verdict' \in {"none", "rejected", "accepted"}
  <2>1. CASE Answer
    BY <2>1, PoorIsBypassed DEF RangesTypeOK
  <2>2. CASE (\E m \in Kinds : Say(m)) \/ Decompress \/ Restart
    BY <2>2 DEF Say, Decompress, Restart, RangesTypeOK
  <2> QED
    BY <2>1, <2>2 DEF Next
<1> QED
  BY <1>1, <1>2, <1>3 DEF RangesTypeOK

-----------------------------------------------------------------------------
(* The ranges.                                                             *)

\* A run holds plain messages outside the zone, and is not empty.
LEMMA GroupsHold ==
  ASSUME NEW h \in Seq(Messages), NEW bs, NEW past, NEW r \in Groups(h, bs, past)
  PROVE  r # {} /\ r \subseteq Plain(h, bs) \ NudgeZone(h, past)
<1> DEFINE N == Len(h)
           Stages(n, f) == f = [k \in 0 .. n |-> IF k = 0 THEN {} ELSE RunAt(h, bs, past, f[k - 1], k)]
           run == CHOOSE f : Stages(N, f)
           runs == {run[k] : k \in 0 .. N} \ {{}}
<1>1. N \in Nat
  OBVIOUS
<1>2. Groups(h, bs, past) = {q \in runs : \A other \in runs : q \subseteq other => q = other}
  BY DEF Groups
<1> DEFINE Found == {n \in 0 .. N : \E f : Stages(n, f)}
<1> HIDE DEF N
<1>3. 0 \in Found
  <2> DEFINE f == [k \in 0 .. 0 |-> {}]
  <2>1. Stages(0, f)
    OBVIOUS
  <2>2. 0 \in 0 .. N
    BY <1>1
  <2> HIDE DEF f, Stages
  <2> QED
    BY <2>1, <2>2
<1>4. ASSUME NEW n \in 1 .. N, n - 1 \in Found
      PROVE  n \in Found
  <2>1. PICK f : Stages(n - 1, f)
    BY <1>4
  <2> DEFINE g == [k \in 0 .. n |-> IF k = n THEN RunAt(h, bs, past, f[n - 1], n) ELSE f[k]]
  <2>2. \A k \in 0 .. n : k # 0 => k - 1 \in 0 .. n /\ k - 1 # n
    OBVIOUS
  <2>3. \A k \in 0 .. n : k # n => f[k] = IF k = 0 THEN {} ELSE RunAt(h, bs, past, f[k - 1], k)
    <3>1. \A k \in 0 .. n : k # n => k \in 0 .. (n - 1)
      OBVIOUS
    <3> QED
      BY <2>1, <3>1
  <2>4. \A k \in 0 .. n : k # 0 => g[k - 1] = f[k - 1]
    BY <2>2
  <2>5. \A k \in 0 .. n : g[k] = IF k = 0 THEN {} ELSE RunAt(h, bs, past, g[k - 1], k)
    <3>1. n # 0
      OBVIOUS
    <3> QED
      BY <2>3, <2>4, <3>1
  <2>6. g = [k \in 0 .. n |-> g[k]]
    OBVIOUS
  <2>7. Stages(n, g)
    <3> HIDE DEF g
    <3> QED
      BY <2>5, <2>6, Zenon
  <2>8. n \in 0 .. N
    BY <1>1
  <2> HIDE DEF g, Stages
  <2> QED
    BY <2>7, <2>8
<1>5. N \in Found
  <2> HIDE DEF Found
  <2>1. \A k \in 0 .. N : k \in Found
    BY <1>1, <1>3, <1>4, NatSteps
  <2> QED
    BY <1>1, <2>1
<1>6. Stages(N, run)
  <2> HIDE DEF Stages
  <2> QED
    BY <1>5, Zenon
<1> HIDE DEF run
<1>7. \A k \in 0 .. N : run[k] = IF k = 0 THEN {} ELSE RunAt(h, bs, past, run[k - 1], k)
  BY <1>6
<1> DEFINE free == Plain(h, bs) \ NudgeZone(h, past)
           Good == {k \in 0 .. N : run[k] \subseteq free}
<1>8. \A open, k : open \subseteq free => RunAt(h, bs, past, open, k) \subseteq free
  BY DEF RunAt
<1>9. 0 \in Good /\ \A k \in 1 .. N : k - 1 \in Good => k \in Good
  <2> HIDE DEF free
  <2> QED
    BY <1>1, <1>7, <1>8
<1>10. \A k \in 0 .. N : k \in Good
  <2> HIDE DEF Good
  <2> QED
    BY <1>1, <1>9, NatSteps
<1> QED
  BY <1>2, <1>10

\* A range that is shown is from one end to the other of a recommended run, or beyond.
LEMMA ShownHold ==
  ASSUME NEW g \in Seq(Messages), NEW bs, NEW past, NEW r \in Shown(g, bs, past)
  PROVE  \E run \in Recommended(g, bs, past), a, b \in DOMAIN g :
           r = <<a, b>> /\ \A i \in run : a <= i /\ i <= b
<1> DEFINE runs == Recommended(g, bs, past)
           entries == (UNION runs) \cup Protected(g, bs)
           line(run) ==
             IF Protected(g, bs) = {} THEN run
             ELSE run \cup {i \in entries : Between(g, run \cup {i}) \cap Numbers(g) \subseteq entries}
<1>1. PICK run \in runs : r = Ends(line(run))
  BY DEF Shown
<1>2. \A q \in runs : q # {} /\ q \subseteq DOMAIN g
  BY GroupsHold DEF Recommended, Plain, Listed, Numbers
<1>3. Protected(g, bs) \subseteq DOMAIN g
  BY DEF Protected, Listed, Numbers
<1>4. run \subseteq line(run) /\ line(run) \subseteq DOMAIN g /\ line(run) # {}
  <2>1. UNION runs \subseteq DOMAIN g
    <3> HIDE DEF runs
    <3> QED
      BY <1>2
  <2>2. entries \subseteq DOMAIN g
    <3> DEFINE recommended == UNION runs
               protected == Protected(g, bs)
    <3>1. recommended \subseteq DOMAIN g /\ protected \subseteq DOMAIN g
      BY <1>3, <2>1
    <3>2. entries = recommended \cup protected
      OBVIOUS
    <3> HIDE DEF recommended, protected, entries
    <3> QED
      BY <3>1, <3>2
  <2> HIDE DEF entries, runs
  <2> QED
    BY <1>2, <2>2
<1> HIDE DEF line
<1>5. DOMAIN g = 1 .. Len(g) /\ Len(g) \in Nat
  OBVIOUS
<1>6. /\ Min(line(run)) \in line(run) /\ \A x \in line(run) : Min(line(run)) <= x
      /\ Max(line(run)) \in line(run) /\ \A x \in line(run) : x <= Max(line(run))
  BY <1>4, <1>5, EndsOfSome
<1> QED
  BY <1>1, <1>4, <1>6 DEF Ends

\* Whole pairs are at most more than what was named.
LEMMA ResolvedWidens ==
  ASSUME NEW h \in Seq(Messages), NEW a \in DOMAIN h, NEW b \in DOMAIN h
  PROVE  /\ Resolved(h, <<a, b>>)[1] <= a /\ Resolved(h, <<a, b>>)[1] \in Int
         /\ b <= Resolved(h, <<a, b>>)[2] /\ Resolved(h, <<a, b>>)[2] \in Int
<1> DEFINE calls == CallsOf(h, a .. b)
           above == RunAbove(h, b, calls)
           below == RunBelow(h, a, calls)
           r == <<a, b>>
<1>1. a \in Nat /\ b \in Nat /\ Len(h) \in Nat /\ a \in 1 .. Len(h)
  OBVIOUS
<1>2. r[1] = a /\ r[2] = b
  OBVIOUS
<1>3. /\ Resolved(h, r)[1] = IF below = {} THEN a ELSE Min(below)
      /\ Resolved(h, r)[2] = IF above = {} THEN b ELSE Max(above)
  <2> HIDE DEF r
  <2> QED
    BY <1>2 DEF Resolved
<1>4. below # {} => Min(below) <= a /\ Min(below) \in Int
  <2>1. below \subseteq 1 .. (a - 1)
    BY DEF RunBelow
  <2>2. a - 1 \in Nat
    BY <1>1
  <2> HIDE DEF below
  <2>3. below # {} => Min(below) \in below
    BY <2>1, <2>2, EndsOfSome
  <2>4. \A i \in 1 .. (a - 1) : i <= a /\ i \in Int
    BY <1>1
  <2> QED
    BY <2>1, <2>3, <2>4
<1>5. above # {} => b <= Max(above) /\ Max(above) \in Int
  <2>1. above \subseteq b + 1 .. Len(h)
    BY DEF RunAbove
  <2>2. above \subseteq 1 .. Len(h)
    BY <1>1, <2>1
  <2> HIDE DEF above
  <2>3. above # {} => Max(above) \in above
    BY <1>1, <2>2, EndsOfSome
  <2>4. \A i \in b + 1 .. Len(h) : b <= i /\ i \in Int
    BY <1>1
  <2> QED
    BY <2>1, <2>3, <2>4
<1> HIDE DEF below, above
<1> QED
  BY <1>1, <1>3, <1>4, <1>5

\* A message that counts for a nudge is one the tool takes.
LEMMA CountedIsSelected ==
  ASSUME NEW h, Extends(history, h), KnownHeld, UsersSpared,
         NEW i \in Plain(history, blocks) \ NudgeZone(history, known), Effective(history, blocks, i) # 0,
         NEW r, r[1] <= i, i <= r[2]
  PROVE  i \in Selected(h, known, r)
<1> DEFINE fresh == {j \in Fresh(history, known) : history[j].who = "user"}
           plain == {j \in Plain(history, blocks) : history[j].who = "user"}
<1>1. /\ i \in Numbers(history) /\ i \in DOMAIN history /\ ~history[i].prot
      /\ DOMAIN history = 1 .. Len(history) /\ Len(history) \in Nat
  BY DEF Plain, Listed, Numbers, Extends
<1>2. i \notin NudgeZone(h, known)
  BY <1>1, ZoneMovesOn DEF NudgeZone
<1>3. ASSUME i \in SparedUser(h, known)
      PROVE  FALSE
  <2>1. i \in SparedUser(history, known)
    BY <1>1, <1>3, SparedMovesOn
  <2>2. config.soft /\ config.lastUser /\ i = Newest(fresh)
    BY <2>1 DEF SparedUser
  <2>3. /\ fresh \subseteq 1 .. Len(history) /\ plain \subseteq 1 .. Len(history)
        /\ \A j \in plain : j \in fresh \/ j \in known
    BY <1>1 DEF Fresh, Plain, Listed, Numbers
  <2>4. i \in fresh /\ \A j \in fresh : j <= i
    <3> HIDE DEF fresh
    <3>1. fresh # {} /\ i = Max(fresh)
      BY <1>1, <2>2 DEF Newest, NoMessage
    <3> QED
      BY <1>1, <2>3, <3>1, EndsOfSome
  <2>5. i \in plain /\ i # Newest(plain)
    BY <2>4 DEF Effective
  <2> HIDE DEF plain
  <2>6. /\ Max(plain) \in plain /\ i <= Max(plain) /\ i # Max(plain)
    <3>1. plain # {} /\ i \in 1 .. Len(history)
      BY <1>1, <2>5
    <3>2. Max(plain) \in plain /\ \A x \in plain : x <= Max(plain)
      BY <1>1, <2>3, <3>1, EndsOfSome
    <3>3. Newest(plain) = Max(plain)
      BY <3>1 DEF Newest
    <3> QED
      BY <2>5, <3>2, <3>3
  <2>7. PICK p \in plain : i < p /\ history[p].who = "user"
    <3>1. Max(plain) \in Int /\ i \in Int
      <4>1. Max(plain) \in 1 .. Len(history) /\ i \in 1 .. Len(history)
        BY <1>1, <2>3, <2>6
      <4> QED
        BY <4>1
    <3>2. history[Max(plain)].who = "user"
      BY <2>6 DEF plain
    <3> QED
      BY <2>6, <3>1, <3>2
  <2>8. p \in known /\ p \in Int
    <3>1. p \in Int /\ i \in Int /\ ~(p <= i)
      BY <1>1, <2>3, <2>7
    <3> QED
      BY <2>3, <2>4, <3>1
  <2>9. PICK j \in Fresh(history, known) : p < j /\ history[j].who = "user"
    BY <2>2, <2>7, <2>8 DEF UsersSpared
  <2>10. j \in Int /\ i \in Int /\ j <= i
    BY <1>1, <2>3, <2>4, <2>9
  <2> QED
    BY <2>7, <2>8, <2>9, <2>10
<1>4. i \in Numbers(h) /\ ~h[i].prot
  BY <1>1, TheSameMessages
<1> QED
  BY <1>2, <1>3, <1>4 DEF Selected

\* Messages whose tokens, four characters each, are no more than their characters.
NoneInflated(h) == \A i \in DOMAIN h : 4 * Tokens(h[i]) <= h[i].size

\* A range that is shown is not refused.
LEMMA ShownIsPlanned ==
  ASSUME NEW h, Extends(history, h), CallFree(history, h), KnownHeld, UsersSpared,
         NoneInflated(history), 4 * Floor = MinChars,
         NEW r \in Shown(history, blocks, known)
  PROVE  Prepared(h, {r}) # {}
<1> DEFINE w == Resolved(h, r)
           t == Selected(h, known, w)
           weight == [i \in DOMAIN history |-> Effective(history, blocks, i)]
           sizes == [i \in DOMAIN h |-> h[i].size]
<1>1. /\ history \in Seq(Messages) /\ h \in Seq(Messages)
      /\ DOMAIN history = 1 .. Len(history) /\ DOMAIN h = 1 .. Len(h)
      /\ Len(history) \in Nat /\ Len(h) \in Nat /\ Len(history) <= Len(h)
      /\ DOMAIN history \subseteq DOMAIN h
      /\ \A i \in DOMAIN history : history[i] = h[i] /\ h[i] \in Messages
      /\ \A i \in DOMAIN h : h[i] \in Messages
  BY TheSameMessages DEF Extends
<1>2. PICK run \in Recommended(history, blocks, known), a \in DOMAIN history, b \in DOMAIN history :
         r = <<a, b>> /\ \A i \in run : a <= i /\ i <= b
  BY <1>1, ShownHold
<1>3. /\ run \subseteq Plain(history, blocks) \ NudgeZone(history, known)
      /\ Total(weight, Len(history), run) > 0 /\ Total(weight, Len(history), run) >= Floor
  BY <1>1, GroupsHold DEF Recommended
<1>4. run \subseteq DOMAIN history /\ run \cap Covered(blocks) = {}
  BY <1>3 DEF Plain, Listed, Numbers
<1>5. w[1] <= a /\ b <= w[2] /\ w[1] \in Int /\ w[2] \in Int
  BY <1>1, <1>2, ResolvedWidens
<1>6. ASSUME NEW i \in run, weight[i] # 0
      PROVE  i \in t
  <2>1. Effective(history, blocks, i) # 0
    BY <1>4, <1>6
  <2>2. w[1] <= i /\ i <= w[2]
    BY <1>1, <1>2, <1>4, <1>5
  <2> HIDE DEF w
  <2>3. i \in Selected(h, known, w)
    BY <1>3, <2>1, <2>2, CountedIsSelected
  <2> QED
    BY <2>3
<1>7. ASSUME NEW i \in DOMAIN history
      PROVE  weight[i] \in Nat /\ 4 * weight[i] <= sizes[i]
  <2>1. Tokens(history[i]) \in Nat /\ history[i].size \in Nat /\ sizes[i] = history[i].size
    BY <1>1, WeightsAreNat
  <2>2. 4 * Tokens(history[i]) <= history[i].size
    BY DEF NoneInflated
  <2>3. weight[i] = 0 \/ weight[i] = Tokens(history[i])
    BY DEF Effective
  <2> HIDE DEF weight, sizes
  <2> QED
    BY <2>1, <2>2, <2>3
<1>8. \A i \in 1 .. Len(h) : sizes[i] \in Nat
  BY <1>1, WeightsAreNat
<1>9. PICK x \in run : x \in t
  <2>1. \A i \in 1 .. Len(history) : weight[i] \in Nat
    BY <1>1, <1>7
  <2> HIDE DEF weight, t
  <2>2. PICK x \in 1 .. Len(history) : x \in run /\ weight[x] > 0
    BY <1>1, <1>3, <2>1, TotalIsOfSome
  <2> QED
    BY <1>6, <2>2
<1>10. PlannerAccepts(h, known, {r})
  <2>1. ~Overlap(h, {r})
    BY DEF Overlap
  <2>2. Plans(h, known, {r}) = {t}
    BY <1>9 DEF Plans
  <2>3. Chars(h, t) >= MinChars
    <3>1. \A i \in 1 .. Len(history) :
            weight[i] \in Nat /\ (i \in run => weight[i] = 0 \/ (i \in t /\ 4 * weight[i] <= sizes[i]))
      BY <1>1, <1>6, <1>7
    <3> HIDE DEF weight, sizes, t
    <3>2. /\ Total(weight, Len(history), run) \in Nat /\ Total(sizes, Len(h), t) \in Nat
          /\ 4 * Total(weight, Len(history), run) <= Total(sizes, Len(h), t)
      BY <1>1, <1>8, <3>1, TotalScales
    <3>3. MinChars \in Nat /\ Floor \in Int
      BY RangesAssumption DEF Floor
    <3>4. Total(sizes, Len(h), t) >= MinChars
      BY <1>3, <3>2, <3>3
    <3> QED
      BY <3>4 DEF Chars, sizes
  <2> HIDE DEF t
  <2>4. UNION {t} = t
    OBVIOUS
  <2> QED
    BY <2>1, <2>2, <2>3, <2>4 DEF PlannerAccepts
<1>11. Plan(h, w) \in Prepared(h, {r})
  <2>1. /\ Plan(h, w).taken = t /\ t \subseteq Plan(h, w).block.msgs
    BY DEF Plan
  <2>2. Plan(h, w).taken # {} /\ ~Phantom(Plan(h, w))
    BY <1>4, <1>9, <2>1 DEF Phantom
  <2> QED
    BY <1>10, <2>2 DEF Prepared
<1> QED
  BY <1>11

-----------------------------------------------------------------------------
(* The inductive invariant.                                                *)

\* The history after a call, and what the call put in blocks.
LEMMA AnswerAdds ==
  ASSUME RangesTypeOK, KnownHeld, Answer
  PROVE  /\ Extends(history, history') /\ CallFree(history, history')
         /\ known \subseteq known' /\ Covered(blocks)' \subseteq known'
         /\ \A i \in known' : i \in known \/ \E r : i \in Selected(history', known, r)
<1>1. PICK offer \in Offers \cup OwnRanges,
           between \in {<<>>} \cup {<<m>> : m \in {k \in Kinds : k.who # "assistant"}} :
        LET h == history \o Append(between, CallMessage)
            plans == Prepared(h, {o.ends : o \in offer.all})
            ended(how) == last' = [kind |-> offer.kind, stands |-> {o.stands : o \in offer.all},
                                   taken |-> {p.taken : p \in plans}, ends |-> how]
        IN /\ history' = h
           /\ \E poor, ack \in BOOLEAN :
                \/ Refused(plans) /\ ended("refused")
                \/ Rejected(plans, poor, ack) /\ ended("rejected")
                \/ Compressed(plans, poor, ack) /\ ended(IF poor THEN "poor" ELSE "compressed")
  BY Zenon DEF Answer
<1> DEFINE h == history \o Append(between, CallMessage)
           rs == {o.ends : o \in offer.all}
           plans == Prepared(h, rs)
<1>2. history' = h /\ Extends(history, h) /\ CallFree(history, h)
  BY <1>1, HistoryGrows DEF RangesTypeOK
<1>3. PICK poor \in BOOLEAN, ack \in BOOLEAN :
         Refused(plans) \/ Rejected(plans, poor, ack) \/ Compressed(plans, poor, ack)
  BY <1>1, Zenon
<1> HIDE DEF h, rs
<1>4. CASE UNCHANGED <<blocks, known>>
  <2>1. Covered(blocks)' = Covered(blocks) /\ known' = known
    BY <1>4 DEF Covered
  <2> QED
    BY <1>2, <2>1 DEF KnownHeld
<1>5. CASE Compressed(plans, poor, ack)
  <2>1. \A p \in plans : \E w : p = Plan(h, w)
    BY DEF Prepared
  <2> HIDE DEF plans
  <2>2. /\ blocks' = (blocks \ UNION {p.consumed : p \in plans}) \cup {p.block : p \in plans}
        /\ known' = known \cup Covered({p.block : p \in plans})
    BY <1>5 DEF Compressed
  <2>3. ASSUME NEW p \in plans, NEW i \in p.block.msgs
        PROVE  i \in known \/ \E r : i \in Selected(h, known, r)
    <3>1. PICK w : p = Plan(h, w)
      BY <2>1
    <3>2. i \in Selected(h, known, w) \/ i \in Covered(Consumed(w))
      BY <2>3, <3>1 DEF Plan
    <3>3. Covered(Consumed(w)) \subseteq Covered(blocks)
      BY DEF Covered, Consumed
    <3> QED
      BY <3>2, <3>3 DEF KnownHeld
  <2>4. ASSUME NEW i \in known', i \notin known
        PROVE  \E r : i \in Selected(h, known, r)
    <3>1. PICK p \in plans : i \in p.block.msgs
      BY <2>2, <2>4 DEF Covered
    <3> QED
      BY <2>3, <2>4, <3>1
  <2>5. Covered(blocks)' = Covered(blocks')
    BY DEF Covered
  <2>6. Covered(blocks') \subseteq Covered(blocks) \cup Covered({p.block : p \in plans})
    BY <2>2 DEF Covered
  <2> QED
    BY <1>2, <2>2, <2>4, <2>5, <2>6 DEF KnownHeld
<1> QED
  BY <1>3, <1>4, <1>5 DEF Refused, Rejected

\* Of the user messages that the tool could take the last one stays.
LEMMA OneUserStays ==
  ASSUME KnownHeld, UsersSpared, config.soft, config.lastUser,
         NEW h, Extends(history, h), NEW past, known \subseteq past,
         \A i \in past : i \in known \/ \E r : i \in Selected(h, known, r),
         NEW i \in past, h[i].who = "user"
  PROVE  \E j \in Fresh(h, past) : i < j /\ h[j].who = "user"
<1> DEFINE fresh == {j \in Fresh(h, known) : h[j].who = "user"}
           u == Max(fresh)
<1>1. /\ DOMAIN h = 1 .. Len(h) /\ Len(h) \in Nat /\ DOMAIN history \subseteq DOMAIN h
      /\ fresh \subseteq 1 .. Len(h)
      /\ \A j \in DOMAIN history : history[j] = h[j] /\ j \in Int
      /\ Fresh(history, known) \subseteq Fresh(h, known)
      /\ Fresh(history, known) \subseteq DOMAIN history
  <2>1. Extends(history, history)
    BY ExtendsItself DEF Extends
  <2>2. /\ DOMAIN h = 1 .. Len(h) /\ Len(h) \in Nat /\ DOMAIN history \subseteq DOMAIN h
        /\ \A j \in DOMAIN history : history[j] = h[j]
        /\ Fresh(history, known) \subseteq Fresh(h, known)
        /\ Fresh(h, known) \subseteq Numbers(h) /\ Numbers(h) \subseteq DOMAIN h
    BY TheSameMessages
  <2>3. Fresh(history, known) \subseteq DOMAIN history /\ \A j \in DOMAIN history : j \in Int
    BY <2>1, TheSameMessages DEF Fresh, Numbers
  <2> QED
    BY <2>2, <2>3
<1>2. \A r : i \in Selected(h, known, r) => i \in Numbers(h) /\ i \notin SparedUser(h, known)
  BY DEF Selected
<1>3. \E j \in fresh : i < j \/ i = j
  <2>1. CASE i \in known
    <3>1. i \in DOMAIN history /\ history[i].who = "user"
      BY <1>1, <2>1 DEF KnownHeld
    <3>2. PICK j \in Fresh(history, known) : i < j /\ history[j].who = "user"
      BY <2>1, <3>1 DEF UsersSpared
    <3> QED
      BY <1>1, <3>2
  <2>2. CASE i \notin known
    BY <1>2, <2>2 DEF Fresh
  <2> QED
    BY <2>1, <2>2
<1>4. SparedUser(h, known) = {u}
  BY <1>3 DEF SparedUser, Newest
<1> HIDE DEF fresh
<1>5. u \in fresh /\ \A j \in fresh : j <= u
  BY <1>1, <1>3, EndsOfSome
<1>6. u \in Fresh(h, known) /\ h[u].who = "user" /\ u \in Numbers(h) /\ u \notin known
  BY <1>5 DEF fresh, Fresh
<1>7. u \notin past
  BY <1>4, <1>6 DEF Selected
<1>8. i < u
  <2>1. PICK j \in fresh : i < j \/ i = j
    BY <1>3
  <2>2. i # u
    BY <1>7
  <2>3. j <= u /\ u \in Int /\ j \in Int
    <3>1. u \in 1 .. Len(h) /\ j \in 1 .. Len(h)
      BY <1>1, <1>5
    <3> QED
      BY <1>5, <3>1
  <2>4. i \in Int
    <3>1. i \in DOMAIN h
      <4>1. known \subseteq DOMAIN h
        BY <1>1 DEF KnownHeld
      <4>2. \A r : Selected(h, known, r) \subseteq DOMAIN h
        BY DEF Selected, Numbers
      <4> QED
        BY <4>1, <4>2
    <3> QED
      BY <1>1, <3>1
  <2> QED
    BY <2>1, <2>2, <2>3, <2>4
<1> QED
  BY <1>6, <1>7, <1>8 DEF Fresh

\* What was in a block is a message of the history and leaves a later user message out.
LEMMA BlocksKept ==
  ASSUME RangesIInv, Next
  PROVE  KnownHeld' /\ UsersSpared'
<1> USE DEF RangesIInv
<1>1. /\ config' = config
      /\ Extends(history, history') /\ known \subseteq known' /\ Covered(blocks)' \subseteq known'
      /\ \A i \in known' : i \in known \/ \E r : i \in Selected(history', known, r)
  <2>1. config' = config
    BY DEF Next, Say, Answer, Decompress, Restart
  <2>2. ASSUME NEW m \in Kinds, Say(m)
        PROVE  Extends(history, history') /\ UNCHANGED <<blocks, known>>
    <3>1. m \in Messages /\ history \in Seq(Messages)
      BY RangesAssumption DEF RangesTypeOK
    <3>2. history' = Append(history, m) /\ UNCHANGED <<blocks, known>>
      BY <2>2 DEF Say
    <3>3. Extends(history, Append(history, m))
      BY <3>1 DEF Extends
    <3> QED
      BY <3>2, <3>3
  <2>3. ASSUME UNCHANGED <<history, known>>
        PROVE  Extends(history, history')
    BY <2>3, ExtendsItself DEF RangesTypeOK
  <2>4. ASSUME NEW bs, bs \subseteq blocks
        PROVE  Covered(bs) \subseteq known
    BY <2>4 DEF KnownHeld, Covered
  <2>5. Covered(blocks)' = Covered(blocks')
    BY DEF Covered
  <2>6. CASE Answer
    BY <2>1, <2>6, AnswerAdds
  <2>7. CASE \E m \in Kinds : Say(m)
    BY <2>1, <2>2, <2>4, <2>5, <2>7
  <2>8. CASE Decompress
    <3>1. UNCHANGED <<history, known>> /\ blocks' \subseteq blocks
      BY <2>8 DEF Decompress
    <3> QED
      BY <2>1, <2>3, <2>4, <2>5, <3>1
  <2>9. CASE Restart
    <3>1. UNCHANGED <<history, blocks, known>>
      BY <2>9 DEF Restart
    <3> QED
      BY <2>1, <2>3, <2>4, <2>5, <3>1
  <2> QED
    BY <2>6, <2>7, <2>8, <2>9 DEF Next
<1>2. KnownHeld'
  <2>1. DOMAIN history \subseteq DOMAIN history'
    BY <1>1, TheSameMessages
  <2>2. \A r : Selected(history', known, r) \subseteq DOMAIN history'
    BY DEF Selected, Numbers
  <2> QED
    BY <1>1, <2>1, <2>2 DEF KnownHeld
<1>3. UsersSpared'
  <2> SUFFICES ASSUME config'.soft, config'.lastUser, NEW i \in known', history'[i].who = "user"
               PROVE  \E j \in Fresh(history', known') : i < j /\ history'[j].who = "user"
    BY DEF UsersSpared, Fresh, Numbers
  <2> QED
    BY <1>1, OneUserStays
<1> QED
  BY <1>2, <1>3

\* A pending rejection was the last verdict: a compression and a restart end it, and
\* nothing else changes either of them.
LEMMA RetryStaysOwed ==
  ASSUME RetryIsOwed, Next
  PROVE  RetryIsOwed'
<1>1. CASE Answer
  BY <1>1, PoorIsBypassed DEF RetryIsOwed
<1>2. CASE \E m \in Kinds : Say(m)
  BY <1>2 DEF Say, RetryIsOwed
<1>3. CASE Decompress
  BY <1>3 DEF Decompress, RetryIsOwed
<1>4. CASE Restart
  BY <1>4 DEF Restart, RetryIsOwed
<1> QED
  BY <1>1, <1>2, <1>3, <1>4 DEF Next

\* What is in a block was in one, a user message in one has another behind it that
\* is not, and a pending rejection was the last verdict: of every session, for any
\* sizes, messages and settings.
THEOREM RangesInductive == Spec => []RangesIInv
<1>1. Init => RangesIInv
  <2> SUFFICES ASSUME Init PROVE RangesIInv
    OBVIOUS
  <2>1. history \in Seq(Messages) /\ verdict \in {"none", "rejected", "accepted"}
    BY DEF Init
  <2>2. config \in [soft : BOOLEAN, lastUser : BOOLEAN, candidates : BOOLEAN] /\ retry \in BOOLEAN
    BY Zenon DEF Init
  <2>3. KnownHeld /\ UsersSpared
    BY DEF Init, KnownHeld, UsersSpared, Covered
  <2>4. RetryIsOwed
    BY Zenon DEF Init, RetryIsOwed
  <2> QED
    BY <2>1, <2>2, <2>3, <2>4 DEF RangesIInv, RangesTypeOK
<1>2. RangesIInv /\ [Next]_vars => RangesIInv'
  <2> SUFFICES ASSUME RangesIInv, [Next]_vars PROVE RangesIInv'
    OBVIOUS
  <2>1. CASE Next
    BY <2>1, TypesKept, BlocksKept, RetryStaysOwed DEF RangesIInv
  <2>2. CASE UNCHANGED vars
    <3>1. RangesTypeOK'
      BY <2>2 DEF vars, RangesIInv, RangesTypeOK
    <3>2. KnownHeld'
      BY <2>2 DEF vars, RangesIInv, KnownHeld, Covered
    <3>3. UsersSpared'
      BY <2>2 DEF vars, RangesIInv, UsersSpared, Fresh, Numbers
    <3>4. RetryIsOwed'
      BY <2>2 DEF vars, RangesIInv, RetryIsOwed
    <3> QED
      BY <3>1, <3>2, <3>3, <3>4 DEF RangesIInv
  <2> QED
    BY <2>1, <2>2
<1> QED
  BY <1>1, <1>2, PTL DEF Spec

-----------------------------------------------------------------------------
(* The theorems.                                                           *)

\* All but a call set aside what the last call answered.
LEMMA OnlyCallsAnswer ==
  ASSUME Next, ~Answer
  PROVE  last' = NoAnswer
BY DEF Next, Say, Decompress, Restart

\* Candidates that a nudge planned are taken as they were planned, in any batch and
\* behind any message: none is refused and none loses a message, and one gains at
\* most a user message that another one has overtaken.
THEOREM CandidatesAreTakenExactly == Spec => []CandidatesAreExact
<1>1. Init => CandidatesAreExact
  BY DEF Init, CandidatesAreExact, NoAnswer
<1>2. RangesIInv /\ CandidatesAreExact /\ [Next]_vars => CandidatesAreExact'
  <2> SUFFICES ASSUME RangesIInv, CandidatesAreExact, [Next]_vars PROVE CandidatesAreExact'
    OBVIOUS
  <2>1. CASE Answer
    BY <2>1, AnswersAreExact DEF RangesIInv
  <2>2. CASE Next /\ ~Answer
    <3>1. last'.kind = "none"
      BY <2>2, OnlyCallsAnswer DEF NoAnswer
    <3> QED
      BY <3>1 DEF CandidatesAreExact
  <2>3. CASE UNCHANGED vars
    BY <2>3 DEF vars, CandidatesAreExact, Takes, Overtaken, Numbers
  <2> QED
    BY <2>1, <2>2, <2>3
<1> QED
  BY <1>1, <1>2, RangesInductive, PTL DEF Spec

\* A poor summary is let through only while the quality gate's last verdict is a
\* rejection: once for each.
THEOREM RiskIsAcknowledgedOnce == Spec => BypassIsEarned
<1>1. RangesIInv /\ [Next]_vars => [last'.ends = "poor" /\ last' # last => verdict = "rejected"]_vars
  <2> SUFFICES ASSUME RangesIInv, Next, last'.ends = "poor" PROVE verdict = "rejected"
    BY DEF vars
  <2>1. Answer
    BY OnlyCallsAnswer DEF NoAnswer
  <2> QED
    BY <2>1, PoorIsBypassed DEF RangesIInv, RetryIsOwed
<1> QED
  BY <1>1, RangesInductive, PTL DEF Spec, BypassIsEarned

\* A call that names a range a nudge listed is not refused.
LEMMA AnswersAreAccepted ==
  ASSUME RangesIInv, NoneInflated(history), 4 * Floor = MinChars, Answer
  PROVE  ShownIsAccepted'
<1>1. PICK offer \in Offers \cup OwnRanges,
           between \in {<<>>} \cup {<<m>> : m \in {k \in Kinds : k.who # "assistant"}} :
        LET h == history \o Append(between, CallMessage)
            plans == Prepared(h, {o.ends : o \in offer.all})
            ended(how) == last' = [kind |-> offer.kind, stands |-> {o.stands : o \in offer.all},
                                   taken |-> {p.taken : p \in plans}, ends |-> how]
        IN \E poor, ack \in BOOLEAN :
             \/ Refused(plans) /\ ended("refused")
             \/ Rejected(plans, poor, ack) /\ ended("rejected")
             \/ Compressed(plans, poor, ack) /\ ended(IF poor THEN "poor" ELSE "compressed")
  BY Zenon DEF Answer
<1> DEFINE h == history \o Append(between, CallMessage)
           plans == Prepared(h, {o.ends : o \in offer.all})
<1>2. last'.kind = offer.kind /\ (last'.ends = "refused" => plans = {})
  <2> DEFINE answered(how) == [kind |-> offer.kind, stands |-> {o.stands : o \in offer.all},
                               taken |-> {p.taken : p \in plans}, ends |-> how]
  <2>1. PICK poor \in BOOLEAN, ack \in BOOLEAN :
          \/ Refused(plans) /\ last' = answered("refused")
          \/ Rejected(plans, poor, ack) /\ last' = answered("rejected")
          \/ Compressed(plans, poor, ack) /\ last' = answered(IF poor THEN "poor" ELSE "compressed")
    BY <1>1, Zenon
  <2>2. \A how : answered(how).ends = how /\ answered(how).kind = offer.kind
    OBVIOUS
  <2>3. Refused(plans) => plans = {}
    BY DEF Refused
  <2> HIDE DEF answered, h, plans
  <2> QED
    BY <2>1, <2>2, <2>3
<1>3. SUFFICES ASSUME offer.kind = "range"
               PROVE  plans # {}
  BY <1>2 DEF ShownIsAccepted
<1>4. PICK r \in Shown(history, blocks, known) : offer.all = {[ends |-> r, stands |-> {}]}
  <2>1. offer \notin OwnRanges /\ offer \in Offers
    BY <1>3 DEF OwnRanges
  <2>2. config.candidates \in BOOLEAN
    BY DEF RangesIInv, RangesTypeOK
  <2>3. CASE config.candidates
    <3>1. offer \in {[kind |-> "candidates", all |-> {[ends |-> Ends(d), stands |-> d] : d \in ds}] :
                       ds \in (SUBSET Candidates(history, blocks, known)) \ {{}}}
      BY <2>1, <2>3, Zenon DEF Offers
    <3> QED
      BY <1>3, <3>1
  <2>4. CASE ~config.candidates
    <3>1. offer \in {[kind |-> "range", all |-> {[ends |-> r, stands |-> {}]}] :
                       r \in Shown(history, blocks, known)}
      BY <2>1, <2>4, Zenon DEF Offers
    <3> QED
      BY <3>1
  <2> QED
    BY <2>2, <2>3, <2>4
<1>5. {o.ends : o \in offer.all} = {r}
  BY <1>4
<1>6. Extends(history, h) /\ CallFree(history, h)
  BY HistoryGrows DEF RangesIInv, RangesTypeOK
<1> HIDE DEF h
<1>7. Prepared(h, {r}) # {}
  BY <1>6, ShownIsPlanned DEF RangesIInv
<1> QED
  BY <1>5, <1>7

\* Every message that was said is one of Kinds, and every other one a calling message.
LEMMA HistoryIsSaid ==
  ASSUME history \in Seq(Kinds \cup {CallMessage}), Next
  PROVE  history' \in Seq(Kinds \cup {CallMessage})
<1> DEFINE S == Kinds \cup {CallMessage}
<1>1. ASSUME NEW m \in Kinds, Say(m)
      PROVE  history' \in Seq(S)
  BY <1>1 DEF Say
<1>2. CASE Answer
  <2>1. PICK between \in {<<>>} \cup {<<m>> : m \in {k \in Kinds : k.who # "assistant"}} :
           history' = history \o Append(between, CallMessage)
    BY <1>2, Zenon DEF Answer
  <2>2. between \in Seq(S)
    <3>1. CASE between = <<>>
      BY <3>1
    <3>2. ASSUME NEW m \in Kinds, between = <<m>>
          PROVE  between \in Seq(S)
      BY <3>2
    <3> QED
      BY <3>1, <3>2
  <2>3. CallMessage \in S
    OBVIOUS
  <2>4. history \in Seq(S)
    OBVIOUS
  <2> DEFINE call == CallMessage
             new == Append(between, call)
  <2> HIDE DEF S, call
  <2>5. new \in Seq(S)
    BY <2>2, <2>3 DEF call
  <2>6. history' = history \o new
    BY <2>1 DEF call
  <2> HIDE DEF new
  <2> QED
    <3>1. history \o new \in Seq(S)
      BY <2>4, <2>5
    <3> QED
      BY <2>6, <3>1 DEF S
<1>3. CASE Decompress \/ Restart
  BY <1>3 DEF Decompress, Restart
<1> QED
  BY <1>1, <1>2, <1>3 DEF Next

\* A range that a nudge lists is not refused, whatever was said before the call, when
\* four characters for each token are no more than a message has and the minimum
\* is a multiple of four: of every session, for any other sizes and settings.
THEOREM ShownIsTaken ==
  ASSUME \A m \in Kinds : 4 * Tokens(m) <= m.size, 4 * Floor = MinChars
  PROVE  Spec => []ShownIsAccepted
<1> DEFINE Said == history \in Seq(Kinds \cup {CallMessage})
<1>1. Init => Said /\ ShownIsAccepted
  BY DEF Init, ShownIsAccepted, NoAnswer
<1>2. Said /\ [Next]_vars => Said'
  BY HistoryIsSaid DEF vars
<1>3. Said => NoneInflated(history)
  <2> SUFFICES ASSUME Said PROVE NoneInflated(history)
    OBVIOUS
  <2>1. 4 * Tokens(CallMessage) <= CallMessage.size
    <3>1. CallMessage.size = 4
      BY DEF CallMessage
    <3>2. (4 + 2) \div 4 = 1
      OBVIOUS
    <3> QED
      BY <3>1, <3>2 DEF Tokens
  <2>2. \A i \in DOMAIN history : history[i] \in Kinds \/ history[i] = CallMessage
    OBVIOUS
  <2> QED
    BY <2>1, <2>2 DEF NoneInflated
<1>4. RangesIInv /\ Said /\ ShownIsAccepted /\ [Next]_vars => ShownIsAccepted'
  <2> SUFFICES ASSUME RangesIInv, Said, ShownIsAccepted, [Next]_vars PROVE ShownIsAccepted'
    OBVIOUS
  <2>1. CASE Answer
    BY <1>3, <2>1, AnswersAreAccepted
  <2>2. CASE Next /\ ~Answer
    <3>1. last'.kind = "none"
      BY <2>2, OnlyCallsAnswer DEF NoAnswer
    <3> QED
      BY <3>1 DEF ShownIsAccepted
  <2>3. CASE UNCHANGED vars
    BY <2>3 DEF vars, ShownIsAccepted
  <2> QED
    BY <2>1, <2>2, <2>3
<1> QED
  BY <1>1, <1>2, <1>3, <1>4, RangesInductive, PTL DEF Spec
=============================================================================
