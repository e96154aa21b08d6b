------------------------- MODULE SubsequenceProofs -------------------------
(***************************************************************************)
(* What Subsequence keeps, for every sequence.  The provers cannot         *)
(* instantiate the library's induction rules, whose predicate is an        *)
(* operator; induction is over sets of numbers here, from the fact that    *)
(* such a set has a least element.                                         *)
(***************************************************************************)
EXTENDS Subsequence, WellFoundedInduction, SequenceTheorems, TLAPS

(* A set of numbers that is not empty has a least one. *)
LEMMA Least ==
    ASSUME NEW S \in SUBSET Nat, S # {}
    PROVE  \E n \in S : \A m \in S : n <= m
<1>1. PICK n \in S : \A y \in S : ~(<<y, n>> \in OpToRel(<, Nat))
  BY NatLessThanWellFounded, WFMin, Zenon
<1>2. \A y \in S : ~(y < n)
  BY <1>1 DEF OpToRel
<1>. QED  BY <1>2

(* Induction up to n, for a set of numbers in place of a predicate. *)
LEMMA UpTo ==
    ASSUME NEW n \in Nat, NEW T, 0 \in T, \A k \in 1 .. n : k - 1 \in T => k \in T
    PROVE  \A k \in 0 .. n : k \in T
<1> DEFINE Bad == {k \in 0 .. n : k \notin T}
<1> SUFFICES ASSUME Bad # {} PROVE FALSE
  OBVIOUS
<1>1. Bad \in SUBSET Nat
  OBVIOUS
<1>2. PICK k \in Bad : \A m \in Bad : k <= m
  <2> HIDE DEF Bad
  <2>. QED  BY <1>1, Least
<1>3. k \in 1 .. n /\ k - 1 \in 0 .. n /\ ~(k <= k - 1)
  BY <1>2
<1>4. k - 1 \in T
  BY <1>2, <1>3
<1>. QED  BY <1>2, <1>3, <1>4

(* One turn of the loop over the elements. *)
KeptStep(s, K, i, before) ==
    IF i = 0 THEN <<>> ELSE IF i \in K THEN Append(before, s[i]) ELSE before

(* KeptUpTo is the function its definition describes: there is one. *)
LEMMA KeptRecursion ==
    ASSUME NEW s, Len(s) \in Nat, NEW K
    PROVE  KeptUpTo(s, K) =
               [i \in 0 .. Len(s) |-> KeptStep(s, K, i, KeptUpTo(s, K)[i - 1])]
<1> DEFINE Solves(f, m) == f = [i \in 0 .. m |-> KeptStep(s, K, i, f[i - 1])]
           Bad == {m \in Nat : \A f : ~Solves(f, m)}
<1>1. Bad = {}
  <2> SUFFICES ASSUME Bad # {} PROVE FALSE
    OBVIOUS
  <2>1. PICK m \in Bad : \A k \in Bad : m <= k
    BY Least
  <2>2. CASE m = 0
    <3> DEFINE f == [i \in 0 .. 0 |-> <<>>]
    <3>1. Solves(f, 0)
      BY DEF KeptStep
    <3>. QED  BY <2>1, <2>2, <3>1
  <2>3. CASE m # 0
    <3>1. m - 1 \in Nat /\ m - 1 \notin Bad
      BY <2>1, <2>3
    <3>2. PICK f : Solves(f, m - 1)
      BY <3>1
    <3> DEFINE g == [i \in 0 .. m |-> IF i < m THEN f[i] ELSE KeptStep(s, K, m, f[m - 1])]
    <3>3. ASSUME NEW i \in 0 .. m PROVE g[i] = KeptStep(s, K, i, g[i - 1])
      <4>1. CASE i = m
        <5>1. g[i - 1] = f[m - 1]
          BY <3>1, <4>1
        <5>. QED  BY <4>1, <5>1
      <4>2. CASE i < m
        <5>1. f[i] = KeptStep(s, K, i, f[i - 1])
          BY <3>1, <3>2, <4>2
        <5>2. CASE i = 0
          BY <5>1, <5>2, <4>2 DEF KeptStep
        <5>3. CASE i # 0
          <6>1. g[i - 1] = f[i - 1]
            BY <4>2, <5>3, <3>1
          <6>. QED  BY <5>1, <6>1, <4>2
        <5>. QED  BY <5>2, <5>3
      <4>. QED  BY <4>1, <4>2, <3>1
    <3>4. Solves(g, m)
      BY <3>3
    <3>. QED  BY <3>4, <2>1
  <2>. QED  BY <2>2, <2>3
<1>2. PICK f : Solves(f, Len(s))
  BY <1>1
<1>3. KeptUpTo(s, K) = CHOOSE g : Solves(g, Len(s))
  BY DEF KeptUpTo, KeptStep
<1>4. Solves(KeptUpTo(s, K), Len(s))
  BY <1>2, <1>3
<1>. QED  BY <1>4

-----------------------------------------------------------------------------
(* e tells where in the first j elements of s those of t are from. *)
Embeds(e, t, s, K, j) ==
    /\ e \in [1 .. Len(t) -> 1 .. j]
    /\ \A a \in 1 .. Len(t) : e[a] \in K /\ t[a] = s[e[a]]
    /\ \A a, b \in 1 .. Len(t) : a < b => e[a] < e[b]
    /\ \A k \in 1 .. j : k \in K => \E a \in 1 .. Len(t) : e[a] = k

(* What is kept of the first j elements, and where it comes from. *)
LEMMA KeptUpToEmbeds ==
    ASSUME NEW S, NEW s \in Seq(S), NEW K, NEW j \in 0 .. Len(s)
    PROVE  /\ KeptUpTo(s, K)[j] \in Seq(S)
           /\ Len(KeptUpTo(s, K)[j]) <= j
           /\ \E e : Embeds(e, KeptUpTo(s, K)[j], s, K, j)
<1> DEFINE f == KeptUpTo(s, K)
           Good(i) == /\ f[i] \in Seq(S) /\ Len(f[i]) <= i
                      /\ \E e : Embeds(e, f[i], s, K, i)
           Bad == {i \in 0 .. Len(s) : ~Good(i)}
<1>0. Len(s) \in Nat
  OBVIOUS
<1>1. \A i \in 0 .. Len(s) : f[i] = KeptStep(s, K, i, f[i - 1])
  BY <1>0, KeptRecursion
<1> HIDE DEF f
<1>2. Bad = {}
  <2> SUFFICES ASSUME Bad # {} PROVE FALSE
    OBVIOUS
  <2>0. Bad \in SUBSET Nat
    BY <1>0
  <2>1. PICK i \in Bad : \A k \in Bad : i <= k
    <3> HIDE DEF Bad
    <3>. QED  BY <2>0, Least
  <2>2. CASE i = 0
    <3>1. f[0] = <<>>
      BY <1>0, <1>1 DEF KeptStep
    <3>2. Embeds(<<>>, f[0], s, K, 0)
      BY <3>1 DEF Embeds
    <3>3. Good(0)
      BY <3>1, <3>2
    <3>. QED  BY <2>1, <2>2, <3>3
  <2>3. CASE i # 0
    <3>1. i - 1 \in 0 .. Len(s) /\ i \in 1 .. Len(s) /\ Good(i - 1)
      BY <1>0, <2>1, <2>3
    <3>2. PICK e : Embeds(e, f[i - 1], s, K, i - 1)
      BY <3>1
    <3>3. f[i - 1] \in Seq(S) /\ Len(f[i - 1]) \in Nat /\ Len(f[i - 1]) <= i - 1
      BY <3>1
    <3>4. CASE i \notin K
      <4>1. f[i] = f[i - 1]
        BY <1>1, <3>1, <3>4 DEF KeptStep
      <4>2. Embeds(e, f[i], s, K, i)
        BY <3>1, <3>2, <3>4, <4>1 DEF Embeds
      <4>. QED  BY <2>1, <3>1, <3>3, <4>1, <4>2
    <3>5. CASE i \in K
      <4> DEFINE n == Len(f[i - 1])
                 d == [a \in 1 .. (n + 1) |-> IF a = n + 1 THEN i ELSE e[a]]
      <4>0. f[i] = KeptStep(s, K, i, f[i - 1])
        BY <1>1, <3>1
      <4>1. f[i] = Append(f[i - 1], s[i])
        BY <4>0, <3>1, <3>5 DEF KeptStep
      <4>2. /\ f[i] \in Seq(S) /\ Len(f[i]) = n + 1 /\ f[i][n + 1] = s[i]
            /\ \A a \in 1 .. n : f[i][a] = f[i - 1][a]
        BY <3>1, <3>3, <4>1
      <4>3. /\ e \in [1 .. n -> 1 .. (i - 1)]
            /\ \A a \in 1 .. n : e[a] \in K /\ f[i - 1][a] = s[e[a]]
            /\ \A a, b \in 1 .. n : a < b => e[a] < e[b]
            /\ \A k \in 1 .. (i - 1) : k \in K => \E a \in 1 .. n : e[a] = k
        BY <3>2 DEF Embeds
      <4>4. n \in Nat /\ n <= i - 1 /\ i \in Nat
        BY <3>1, <3>3
      <4> HIDE DEF n
      <4>5. d \in [1 .. (n + 1) -> 1 .. i]
        BY <4>3, <4>4
      <4>6. \A a \in 1 .. (n + 1) : d[a] \in K /\ f[i][a] = s[d[a]]
        <5> SUFFICES ASSUME NEW a \in 1 .. (n + 1) PROVE d[a] \in K /\ f[i][a] = s[d[a]]
          OBVIOUS
        <5>1. CASE a = n + 1
          <6>1. d[a] = i
            BY <5>1
          <6>. QED  BY <3>5, <4>2, <5>1, <6>1
        <5>2. CASE a # n + 1
          <6>1. a \in 1 .. n /\ d[a] = e[a]
            BY <4>4, <5>2
          <6>. QED  BY <4>2, <4>3, <6>1
        <5>. QED  BY <5>1, <5>2
      <4>7. \A a, b \in 1 .. (n + 1) : a < b => d[a] < d[b]
        BY <4>3, <4>4
      <4>8. \A k \in 1 .. i : k \in K => \E a \in 1 .. (n + 1) : d[a] = k
        <5> SUFFICES ASSUME NEW k \in 1 .. i, k \in K PROVE \E a \in 1 .. (n + 1) : d[a] = k
          OBVIOUS
        <5>1. CASE k = i
          BY <5>1, <4>4
        <5>2. CASE k # i
          <6>1. PICK a \in 1 .. n : e[a] = k
            BY <4>3, <4>4, <5>2
          <6>2. a \in 1 .. (n + 1) /\ d[a] = e[a]
            BY <4>4
          <6>. QED  BY <6>1, <6>2
        <5>. QED  BY <5>1, <5>2
      <4> HIDE DEF d
      <4>9. Embeds(d, f[i], s, K, i)
        BY <4>2, <4>5, <4>6, <4>7, <4>8 DEF Embeds
      <4>. QED  BY <2>1, <4>2, <4>4, <4>9
    <3>. QED  BY <3>4, <3>5
  <2>. QED  BY <2>2, <2>3
<1>. QED  BY <1>2 DEF f

(* What is kept is a subsequence: the elements at the positions in K, each *)
(* once and in their order.                                                *)
LEMMA KeptFacts ==
    ASSUME NEW S, NEW s \in Seq(S), NEW K
    PROVE  /\ Kept(s, K) \in Seq(S)
           /\ Len(Kept(s, K)) <= Len(s)
           /\ \E e : Embeds(e, Kept(s, K), s, K, Len(s))
<1>1. Len(s) \in 0 .. Len(s)
  OBVIOUS
<1>. QED  BY <1>1, KeptUpToEmbeds DEF Kept

(* Elements are dropped only by making the sequence shorter. *)
LEMMA KeptAll ==
    ASSUME NEW S, NEW s \in Seq(S), NEW K
    PROVE  Len(Kept(s, K)) < Len(s) \/ Kept(s, K) = s
<1> DEFINE n == Len(s)
           f == KeptUpTo(s, K)
           Same(j) == Len(f[j]) = j /\ \A k \in 1 .. j : f[j][k] = s[k]
           T == {j \in Nat : Len(f[j]) < j \/ Same(j)}
<1>1. n \in Nat /\ Kept(s, K) = f[n]
  BY DEF Kept
<1>2. \A j \in 0 .. n : f[j] = KeptStep(s, K, j, f[j - 1]) /\ f[j] \in Seq(S)
  <2>1. \A j \in 0 .. Len(s) : f[j] = KeptStep(s, K, j, f[j - 1])
    BY <1>1, KeptRecursion
  <2>2. \A j \in 0 .. Len(s) : f[j] \in Seq(S)
    BY KeptUpToEmbeds
  <2>. QED  BY <2>1, <2>2
<1>3. \A j \in 1 .. n : s[j] \in S
  BY ElementOfSeq
<1> HIDE DEF f
<1>4. 0 \in T
  <2>1. f[0] = <<>>
    BY <1>1, <1>2 DEF KeptStep
  <2>. QED  BY <2>1
<1>5. ASSUME NEW j \in 1 .. n, j - 1 \in T PROVE j \in T
  <2>1. j \in Nat /\ j # 0 /\ j - 1 \in 0 .. n /\ j \in 0 .. n
    BY <1>1
  <2>2. f[j] = IF j \in K THEN Append(f[j - 1], s[j]) ELSE f[j - 1]
    BY <1>2, <2>1 DEF KeptStep
  <2>3. f[j - 1] \in Seq(S) /\ Len(f[j - 1]) \in Nat /\ s[j] \in S
    BY <1>2, <1>3, <2>1
  <2>4. Len(f[j - 1]) < j - 1 \/ Same(j - 1)
    BY <1>5
  <2>5. CASE j \notin K
    <3>1. Len(f[j]) < j
      BY <2>1, <2>2, <2>3, <2>4, <2>5
    <3>. QED  BY <2>1, <3>1
  <2>6. CASE j \in K
    <3>1. /\ Len(f[j]) = Len(f[j - 1]) + 1 /\ f[j][Len(f[j - 1]) + 1] = s[j]
          /\ \A k \in 1 .. Len(f[j - 1]) : f[j][k] = f[j - 1][k]
      BY <2>2, <2>3, <2>6, AppendProperties
    <3>2. CASE Len(f[j - 1]) < j - 1
      <4>1. Len(f[j]) < j
        BY <2>1, <2>3, <3>1, <3>2
      <4>. QED  BY <2>1, <4>1
    <3>3. CASE Same(j - 1)
      <4>1. Len(f[j]) = j /\ f[j][j] = s[j] /\ \A k \in 1 .. (j - 1) : f[j][k] = s[k]
        BY <2>1, <3>1, <3>3
      <4>2. \A k \in 1 .. j : k = j \/ k \in 1 .. (j - 1)
        BY <2>1
      <4>3. Same(j)
        BY <4>1, <4>2
      <4>. QED  BY <2>1, <4>3
    <3>. QED  BY <2>4, <3>2, <3>3
  <2>. QED  BY <2>5, <2>6
<1>6. n \in T
  <2> HIDE DEF T
  <2>1. \A k \in 0 .. n : k \in T
    BY <1>1, <1>4, <1>5, UpTo, Zenon
  <2>. QED  BY <1>1, <2>1
<1>7. CASE Len(f[n]) < n
  BY <1>1, <1>7
<1>8. CASE Same(n)
  <2>1. f[n] \in Seq(S) /\ Len(f[n]) = Len(s) /\ \A k \in 1 .. Len(f[n]) : f[n][k] = s[k]
    BY <1>1, <1>2, <1>8
  <2>2. f[n] = s
    BY <2>1, SeqEqual
  <2>. QED  BY <1>1, <2>2
<1>. QED  BY <1>6, <1>7, <1>8

(* The first element first. *)
LEMMA KeptCons ==
    ASSUME NEW S, NEW s \in Seq(S), s # <<>>, NEW K, NEW L,
           \A k \in 1 .. (Len(s) - 1) : k \in L <=> k + 1 \in K
    PROVE  Kept(s, K) = (IF 1 \in K THEN <<s[1]>> ELSE <<>>) \o Kept(Tail(s), L)
<1> DEFINE u == Tail(s)
           n == Len(s) - 1
           f == KeptUpTo(s, K)
           g == KeptUpTo(u, L)
           c == IF 1 \in K THEN <<s[1]>> ELSE <<>>
           T == {j \in Nat : f[j + 1] = c \o g[j]}
<1>1. /\ u \in Seq(S) /\ Len(u) = n /\ n \in Nat /\ Len(s) = n + 1
      /\ \A j \in 1 .. n : u[j] = s[j + 1]
  BY HeadTailProperties
<1>2. s[1] \in S /\ c \in Seq(S)
  <2>1. 1 \in 1 .. Len(s)
    BY <1>1
  <2>2. s[1] \in S
    BY <2>1, ElementOfSeq
  <2>. QED  BY <2>2
<1>3. \A j \in 0 .. (n + 1) : f[j] = KeptStep(s, K, j, f[j - 1])
  BY <1>1, KeptRecursion
<1>4. \A j \in 0 .. n : g[j] = KeptStep(u, L, j, g[j - 1]) /\ g[j] \in Seq(S)
  <2>1. \A j \in 0 .. Len(u) : g[j] = KeptStep(u, L, j, g[j - 1])
    <3>1. Len(u) \in Nat
      BY <1>1
    <3> HIDE DEF u
    <3>. QED  BY <3>1, KeptRecursion
  <2>2. \A j \in 0 .. Len(u) : g[j] \in Seq(S)
    BY <1>1, KeptUpToEmbeds
  <2>. QED  BY <1>1, <2>1, <2>2
<1>5. \A j \in 1 .. n : j \in L <=> j + 1 \in K
  OBVIOUS
<1>6. Kept(s, K) = f[n + 1] /\ Kept(u, L) = g[n]
  BY <1>1 DEF Kept
<1> HIDE DEF f, g, u, n
<1>7. 0 \in T
  <2>1. f[0] = <<>> /\ g[0] = <<>>
    BY <1>1, <1>3, <1>4 DEF KeptStep
  <2>2. f[1] = KeptStep(s, K, 1, f[0])
    <3>1. 1 \in 0 .. (n + 1) /\ 1 - 1 = 0
      BY <1>1
    <3>. QED  BY <1>3, <3>1
  <2>3. f[1] = c
    BY <1>2, <2>1, <2>2 DEF KeptStep
  <2> HIDE DEF c
  <2>4. c \o <<>> = c
    BY <1>2, ConcatEmptySeq
  <2>5. 0 + 1 = 1
    OBVIOUS
  <2>. QED  BY <2>1, <2>3, <2>4, <2>5
<1> HIDE DEF c
<1>8. ASSUME NEW j \in 1 .. n, j - 1 \in T PROVE j \in T
  <2>1. /\ j \in Nat /\ j # 0 /\ j + 1 \in 0 .. (n + 1) /\ j + 1 # 0
        /\ (j + 1) - 1 = j /\ (j - 1) + 1 = j /\ j - 1 \in 0 .. n /\ j \in 0 .. n
    BY <1>1
  <2>2. f[j] = c \o g[j - 1]
    BY <1>8, <2>1
  <2>3. f[j + 1] = IF j + 1 \in K THEN Append(f[j], s[j + 1]) ELSE f[j]
    BY <1>3, <2>1 DEF KeptStep
  <2>4. g[j] = IF j \in L THEN Append(g[j - 1], s[j + 1]) ELSE g[j - 1]
    BY <1>1, <1>4, <2>1 DEF KeptStep
  <2>5. CASE j \in L
    <3>1. s[j + 1] \in S
      <4>1. j + 1 \in 1 .. Len(s)
        BY <1>1, <2>1
      <4>. QED  BY <4>1, ElementOfSeq
    <3> DEFINE x == s[j + 1]
               a == g[j - 1]
    <3>2. x \in S /\ a \in Seq(S) /\ <<x>> \in Seq(S)
      BY <1>4, <2>1, <3>1
    <3>3. f[j + 1] = Append(c \o a, x) /\ g[j] = Append(a, x)
      BY <1>5, <2>2, <2>3, <2>4, <2>5
    <3> HIDE DEF x, a
    <3>4. Append(c \o a, x) = (c \o a) \o <<x>> /\ Append(a, x) = a \o <<x>>
      BY <1>2, <3>2, AppendIsConcat, ConcatProperties
    <3>5. (c \o a) \o <<x>> = c \o (a \o <<x>>)
      BY <1>2, <3>2, ConcatAssociative
    <3>. QED  BY <2>1, <3>3, <3>4, <3>5
  <2>6. CASE j \notin L
    BY <1>5, <2>1, <2>2, <2>3, <2>4, <2>6
  <2>. QED  BY <2>5, <2>6
<1>9. n \in T
  <2> HIDE DEF T
  <2>1. n \in Nat
    BY <1>1
  <2>2. \A k \in 0 .. n : k \in T
    BY <1>7, <1>8, <2>1, UpTo, Zenon
  <2>. QED  BY <2>1, <2>2
<1>. QED  BY <1>6, <1>9 DEF u, c

(* What is kept of the first j elements depends on those only. *)
LEMMA KeptSame ==
    ASSUME NEW s, NEW t, Len(s) \in Nat, Len(t) \in Nat, NEW K, NEW L,
           NEW n \in Nat, n <= Len(s), n <= Len(t),
           \A k \in 1 .. n : s[k] = t[k] /\ (k \in K <=> k \in L)
    PROVE  \A j \in 0 .. n : KeptUpTo(s, K)[j] = KeptUpTo(t, L)[j]
<1> DEFINE f == KeptUpTo(s, K)
           g == KeptUpTo(t, L)
           T == {j \in Nat : f[j] = g[j]}
<1>1. /\ \A j \in 0 .. Len(s) : f[j] = KeptStep(s, K, j, f[j - 1])
      /\ \A j \in 0 .. Len(t) : g[j] = KeptStep(t, L, j, g[j - 1])
  BY KeptRecursion
<1> HIDE DEF f, g
<1>2. 0 \in T
  BY <1>1 DEF KeptStep
<1>3. ASSUME NEW j \in 1 .. n, j - 1 \in T PROVE j \in T
  <2>1. j \in 0 .. Len(s) /\ j \in 0 .. Len(t) /\ j \in Nat
    OBVIOUS
  <2>2. f[j] = KeptStep(s, K, j, f[j - 1]) /\ g[j] = KeptStep(t, L, j, g[j - 1])
    BY <1>1, <2>1
  <2>3. f[j - 1] = g[j - 1] /\ s[j] = t[j] /\ (j \in K <=> j \in L)
    BY <1>3
  <2>. QED  BY <2>1, <2>2, <2>3 DEF KeptStep
<1>4. \A j \in 0 .. n : j \in T
  <2> HIDE DEF T
  <2>. QED  BY <1>2, <1>3, UpTo, Zenon
<1>. QED  BY <1>4 DEF f, g

(* One element more is kept or not. *)
LEMMA KeptNext ==
    ASSUME NEW s, Len(s) \in Nat, NEW K
    PROVE  /\ KeptUpTo(s, K)[0] = <<>>
           /\ \A j \in 1 .. Len(s) :
                  KeptUpTo(s, K)[j] = IF j \in K THEN Append(KeptUpTo(s, K)[j - 1], s[j])
                                      ELSE KeptUpTo(s, K)[j - 1]
<1>1. \A j \in 0 .. Len(s) : KeptUpTo(s, K)[j] = KeptStep(s, K, j, KeptUpTo(s, K)[j - 1])
  BY KeptRecursion
<1>. QED  BY <1>1 DEF KeptStep

(* The last element last. *)
LEMMA KeptAppend ==
    ASSUME NEW S, NEW s \in Seq(S), NEW x \in S, NEW K, NEW L,
           \A k \in 1 .. Len(s) : k \in K <=> k \in L
    PROVE  Kept(Append(s, x), K) = IF Len(s) + 1 \in K THEN Append(Kept(s, L), x) ELSE Kept(s, L)
<1> DEFINE t == Append(s, x)
           n == Len(s)
<1>1. /\ n \in Nat /\ Len(t) = n + 1 /\ t[n + 1] = x
      /\ \A k \in 1 .. n : t[k] = s[k]
  BY AppendProperties
<1>2. Kept(t, K) = KeptUpTo(t, K)[n + 1] /\ Kept(s, L) = KeptUpTo(s, L)[n]
  BY <1>1 DEF Kept
<1> HIDE DEF t
<1>3. KeptUpTo(t, K)[n] = KeptUpTo(s, L)[n]
  <2>1. Len(t) \in Nat /\ n <= Len(t) /\ n <= Len(s) /\ n \in 0 .. n /\ n \in Nat
    BY <1>1
  <2>2. \A k \in 1 .. n : t[k] = s[k] /\ (k \in K <=> k \in L)
    BY <1>1
  <2>3. \A j \in 0 .. n : KeptUpTo(t, K)[j] = KeptUpTo(s, L)[j]
    BY <1>1, <2>1, <2>2, KeptSame
  <2>. QED  BY <2>1, <2>3
<1>4. KeptUpTo(t, K)[n + 1] = IF n + 1 \in K THEN Append(KeptUpTo(t, K)[n], x)
                              ELSE KeptUpTo(t, K)[n]
  <2>1. n + 1 \in 1 .. Len(t) /\ (n + 1) - 1 = n /\ Len(t) \in Nat
    BY <1>1
  <2>2. KeptUpTo(t, K)[n + 1] = IF n + 1 \in K THEN Append(KeptUpTo(t, K)[(n + 1) - 1], t[n + 1])
                                ELSE KeptUpTo(t, K)[(n + 1) - 1]
    BY <2>1, KeptNext
  <2>. QED  BY <1>1, <2>1, <2>2
<1>. QED  BY <1>2, <1>3, <1>4 DEF t

(* Append can be undone. *)
LEMMA FrontOfAppend ==
    ASSUME NEW S, NEW u \in Seq(S), NEW v \in Seq(S), NEW x \in S, NEW y \in S,
           Append(u, x) = Append(v, y)
    PROVE  u = v /\ x = y
<1>1. /\ Len(Append(u, x)) = Len(u) + 1 /\ Append(u, x)[Len(u) + 1] = x
      /\ \A k \in 1 .. Len(u) : Append(u, x)[k] = u[k]
  BY AppendProperties
<1>2. /\ Len(Append(v, y)) = Len(v) + 1 /\ Append(v, y)[Len(v) + 1] = y
      /\ \A k \in 1 .. Len(v) : Append(v, y)[k] = v[k]
  BY AppendProperties
<1>3. Len(u) \in Nat /\ Len(v) \in Nat
  OBVIOUS
<1>4. Len(u) = Len(v)
  BY <1>1, <1>2, <1>3
<1>5. \A k \in 1 .. Len(u) : u[k] = v[k]
  BY <1>1, <1>2, <1>4
<1>. QED  BY <1>1, <1>2, <1>4, <1>5, SeqEqual

(* Without its last element, what is kept of the first j elements is kept  *)
(* of the first j - 1.                                                     *)
LEMMA KeptFront ==
    ASSUME NEW S, NEW s \in Seq(S), NEW n \in 1 .. Len(s), NEW K, KeptUpTo(s, K)[n] # <<>>
    PROVE  \E L, x : x \in S /\ KeptUpTo(s, K)[n] = Append(KeptUpTo(s, L)[n - 1], x)
<1> DEFINE T == {j \in Nat : j > 0 /\ KeptUpTo(s, K)[j] # <<>> =>
                     \E L, x : x \in S /\ KeptUpTo(s, K)[j] = Append(KeptUpTo(s, L)[j - 1], x)}
<1>0. Len(s) \in Nat /\ n \in 0 .. Len(s) /\ n > 0
  OBVIOUS
<1>1. 0 \in T
  OBVIOUS
<1>2. ASSUME NEW j \in 1 .. Len(s), j - 1 \in T PROVE j \in T
  <2> SUFFICES ASSUME KeptUpTo(s, K)[j] # <<>>
               PROVE  \E L, x : x \in S /\ KeptUpTo(s, K)[j] = Append(KeptUpTo(s, L)[j - 1], x)
    OBVIOUS
  <2>1. KeptUpTo(s, K)[j] = IF j \in K THEN Append(KeptUpTo(s, K)[j - 1], s[j])
                            ELSE KeptUpTo(s, K)[j - 1]
    BY <1>0, KeptNext
  <2>2. CASE j \in K
    <3>1. s[j] \in S
      BY ElementOfSeq
    <3>. QED  BY <2>1, <2>2, <3>1
  <2>3. CASE j \notin K
    <3>1. KeptUpTo(s, K)[j] = KeptUpTo(s, K)[j - 1] /\ KeptUpTo(s, K)[j - 1] # <<>>
      BY <2>1, <2>3
    <3>2. KeptUpTo(s, K)[0] = <<>>
      BY <1>0, KeptNext
    <3>3. j - 1 # 0
      BY <3>1, <3>2
    <3>4. j - 1 > 0 /\ j - 1 \in 1 .. Len(s) /\ j - 2 \in 0 .. Len(s) /\ j - 2 \in Nat
          /\ (j - 1) - 1 = j - 2 /\ j - 2 <= Len(s)
      BY <3>3
    <3>5. PICK L, x : x \in S /\ KeptUpTo(s, K)[j - 1] = Append(KeptUpTo(s, L)[j - 2], x)
      BY <1>2, <3>1, <3>4
    <3> DEFINE M == L \ {j - 1}
    <3>6. KeptUpTo(s, M)[j - 1] = KeptUpTo(s, M)[j - 2]
      <4>1. KeptUpTo(s, M)[j - 1] = IF j - 1 \in M THEN Append(KeptUpTo(s, M)[(j - 1) - 1], s[j - 1])
                                    ELSE KeptUpTo(s, M)[(j - 1) - 1]
        <5> HIDE DEF M
        <5>. QED  BY <1>0, <3>4, KeptNext
      <4>. QED  BY <3>4, <4>1
    <3>7. KeptUpTo(s, M)[j - 2] = KeptUpTo(s, L)[j - 2]
      <4>1. \A k \in 1 .. (j - 2) : s[k] = s[k] /\ (k \in M <=> k \in L)
        BY <3>4
      <4> HIDE DEF M
      <4>2. \A k \in 0 .. (j - 2) : KeptUpTo(s, M)[k] = KeptUpTo(s, L)[k]
        BY <1>0, <3>4, <4>1, KeptSame
      <4>. QED  BY <3>4, <4>2
    <3> HIDE DEF M
    <3>. QED  BY <3>1, <3>5, <3>6, <3>7
  <2>. QED  BY <2>2, <2>3
<1>3. n \in T
  <2> HIDE DEF T
  <2>1. \A k \in 0 .. Len(s) : k \in T
    BY <1>0, <1>1, <1>2, UpTo, Zenon
  <2>. QED  BY <1>0, <2>1
<1>. QED  BY <1>0, <1>3

(* The same for every choice of what is kept. *)
LEMMA KeptLast ==
    ASSUME NEW S, NEW s \in Seq(S)
    PROVE  \A K : \A i \in 1 .. Len(s) : KeptUpTo(s, K)[i] # <<>> =>
               \E P, x : x \in S /\ KeptUpTo(s, K)[i] = Append(KeptUpTo(s, P)[i - 1], x)
<1> SUFFICES ASSUME NEW K, NEW i \in 1 .. Len(s), KeptUpTo(s, K)[i] # <<>>
             PROVE  \E P, x : x \in S /\ KeptUpTo(s, K)[i] = Append(KeptUpTo(s, P)[i - 1], x)
  OBVIOUS
<1> DEFINE f == KeptUpTo(s, K)
<1>1. f[i] # <<>>
  OBVIOUS
<1> HIDE DEF f
<1>2. \E P, x : x \in S /\ f[i] = Append(KeptUpTo(s, P)[i - 1], x)
  BY <1>1, KeptFront DEF f
<1>. QED  BY <1>2 DEF f

(* Leaving out what comes after, or one more element. *)
LEMMA KeptShort ==
    ASSUME NEW S, NEW s \in Seq(S), NEW i \in 1 .. Len(s), NEW K \in SUBSET (1 .. (i - 1))
    PROVE  /\ KeptUpTo(s, K)[i] = KeptUpTo(s, K)[i - 1]
           /\ KeptUpTo(s, K \cup {i})[i] = Append(KeptUpTo(s, K)[i - 1], s[i])
<1>1. Len(s) \in Nat /\ i - 1 \in Nat /\ i - 1 <= Len(s) /\ i - 1 \in 0 .. (i - 1)
  OBVIOUS
<1>2. i \notin K
  OBVIOUS
<1>3. KeptUpTo(s, K)[i] = KeptUpTo(s, K)[i - 1]
  BY <1>1, <1>2, KeptNext
<1> DEFINE M == K \cup {i}
<1>4. \A k \in 1 .. (i - 1) : s[k] = s[k] /\ (k \in M <=> k \in K)
  BY <1>1
<1>5. i \in M
  OBVIOUS
<1> HIDE DEF M
<1>6. KeptUpTo(s, M)[i - 1] = KeptUpTo(s, K)[i - 1]
  <2>1. \A k \in 0 .. (i - 1) : KeptUpTo(s, M)[k] = KeptUpTo(s, K)[k]
    BY <1>1, <1>4, KeptSame
  <2>. QED  BY <1>1, <2>1
<1>7. KeptUpTo(s, M)[i] = Append(KeptUpTo(s, M)[i - 1], s[i])
  BY <1>1, <1>5, KeptNext
<1>. QED  BY <1>3, <1>6, <1>7 DEF M

(* Nothing is kept of no positions. *)
LEMMA KeptNone ==
    ASSUME NEW S, NEW s \in Seq(S), NEW j \in 0 .. Len(s)
    PROVE  KeptUpTo(s, {})[j] = <<>>
<1>1. PICK e : Embeds(e, KeptUpTo(s, {})[j], s, {}, j)
  BY KeptUpToEmbeds
<1>2. KeptUpTo(s, {})[j] \in Seq(S)
  BY KeptUpToEmbeds
<1> DEFINE r == KeptUpTo(s, {})[j]
<1>3. Embeds(e, r, s, {}, j) /\ r \in Seq(S)
  BY <1>1, <1>2
<1> HIDE DEF r
<1>4. \A k \in 1 .. Len(r) : FALSE
  BY <1>3 DEF Embeds
<1>5. Len(r) = 0
  BY <1>3, <1>4
<1>6. r = <<>>
  BY <1>3, <1>5, EmptySeq
<1>. QED  BY <1>6 DEF r
=============================================================================
