--------------------------- MODULE InspectorProofs ---------------------------
(***************************************************************************)
(* Proofs about the inspector and the formatter it draws from.             *)
(***************************************************************************)
EXTENDS Inspector, JsonPp, SubsequenceProofs, SequenceTheorems, TLAPS

-----------------------------------------------------------------------------
(* The line diff, as an algorithm on two texts.                            *)

(* The pairs of the table with a sum of at most d. *)
Corner(m, n, d) == {ij \in (0 .. m) \X (0 .. n) : ij[1] + ij[2] <= d}

(* Induction over the table, for a set of pairs in place of a predicate. *)
LEMMA OverTable ==
    ASSUME NEW m \in Nat, NEW n \in Nat, NEW T,
           \A i \in 0 .. m, j \in 0 .. n :
               (\A k \in 0 .. m, l \in 0 .. n : k + l < i + j => <<k, l>> \in T) => <<i, j>> \in T
    PROVE  \A i \in 0 .. m, j \in 0 .. n : <<i, j>> \in T
<1> DEFINE D == {d \in Nat : \A i \in 0 .. m, j \in 0 .. n : i + j <= d => <<i, j>> \in T}
<1>1. 0 \in D
  <2> SUFFICES ASSUME NEW i \in 0 .. m, NEW j \in 0 .. n, i + j <= 0 PROVE <<i, j>> \in T
    OBVIOUS
  <2>1. \A k \in 0 .. m, l \in 0 .. n : ~(k + l < i + j)
    OBVIOUS
  <2>. QED  BY <2>1
<1>2. ASSUME NEW d \in 1 .. (m + n), d - 1 \in D PROVE d \in D
  <2> SUFFICES ASSUME NEW i \in 0 .. m, NEW j \in 0 .. n, i + j <= d PROVE <<i, j>> \in T
    OBVIOUS
  <2>1. \A k \in 0 .. m, l \in 0 .. n : k + l < i + j => k + l <= d - 1
    OBVIOUS
  <2>2. \A k \in 0 .. m, l \in 0 .. n : k + l < i + j => <<k, l>> \in T
    BY <1>2, <2>1
  <2>. QED  BY <2>2
<1>3. m + n \in D
  <2>1. m + n \in Nat
    OBVIOUS
  <2> HIDE DEF D
  <2>2. \A k \in 0 .. (m + n) : k \in D
    BY <1>1, <1>2, <2>1, UpTo, Zenon
  <2>. QED  BY <2>1, <2>2
<1>4. \A i \in 0 .. m, j \in 0 .. n : i + j <= m + n
  OBVIOUS
<1>. QED  BY <1>3, <1>4

(* One entry of the table, from the three before it. *)
DpStep(a, b, f, i, j) ==
    IF i = 0 \/ j = 0 THEN 0
    ELSE IF a[i] = b[j] THEN f[<<i - 1, j - 1>>] + 1
    ELSE IF f[<<i - 1, j>>] > f[<<i, j - 1>>] THEN f[<<i - 1, j>>] ELSE f[<<i, j - 1>>]

DpSolves(h, a, b, d) == h = [ij \in Corner(Len(a), Len(b), d) |-> DpStep(a, b, h, ij[1], ij[2])]

(* The table is the one its definition describes: there is one. *)
LEMMA DpRecursion ==
    ASSUME NEW a, NEW b, Len(a) \in Nat, Len(b) \in Nat
    PROVE  \A i \in 0 .. Len(a), j \in 0 .. Len(b) :
               s_diff_dp(a, b)[<<i, j>>] = DpStep(a, b, s_diff_dp(a, b), i, j)
<1> DEFINE m == Len(a)
           n == Len(b)
           T == {d \in Nat : \E h : DpSolves(h, a, b, d)}
<1>0. m \in Nat /\ n \in Nat
  OBVIOUS
<1> HIDE DEF m, n
<1>1. 0 \in T
  <2> DEFINE h == [ij \in Corner(m, n, 0) |-> 0]
  <2>1. ASSUME NEW ij \in Corner(m, n, 0) PROVE DpStep(a, b, h, ij[1], ij[2]) = 0
    BY <1>0 DEF Corner, DpStep
  <2>2. DpSolves(h, a, b, 0)
    BY <2>1 DEF DpSolves, m, n
  <2>. QED  BY <2>2
<1>2. ASSUME NEW d \in 1 .. (m + n), d - 1 \in T PROVE d \in T
  <2>0. d \in Nat /\ d - 1 \in Nat
    BY <1>0
  <2>1. PICK h : DpSolves(h, a, b, d - 1)
    BY <1>2
  <2> DEFINE C == Corner(m, n, d)
             g == [ij \in C |-> IF ij[1] + ij[2] < d THEN h[ij] ELSE DpStep(a, b, h, ij[1], ij[2])]
  <2>2. ASSUME NEW i \in 0 .. m, NEW j \in 0 .. n, i + j < d
        PROVE  <<i, j>> \in C /\ <<i, j>> \in Corner(m, n, d - 1) /\ g[<<i, j>>] = h[<<i, j>>]
    BY <1>0, <2>0, <2>2 DEF Corner
  <2>3. ASSUME NEW i \in 0 .. m, NEW j \in 0 .. n, <<i, j>> \in C
        PROVE  DpStep(a, b, g, i, j) = DpStep(a, b, h, i, j)
    <3>1. CASE i = 0 \/ j = 0
      BY <3>1 DEF DpStep
    <3>2. CASE i # 0 /\ j # 0
      <4>1. i + j <= d
        BY <2>3 DEF Corner
      <4>2. /\ i - 1 \in 0 .. m /\ j - 1 \in 0 .. n
            /\ (i - 1) + (j - 1) < d /\ (i - 1) + j < d /\ i + (j - 1) < d
        BY <1>0, <2>0, <3>2, <4>1
      <4>3. /\ g[<<i - 1, j - 1>>] = h[<<i - 1, j - 1>>] /\ g[<<i - 1, j>>] = h[<<i - 1, j>>]
            /\ g[<<i, j - 1>>] = h[<<i, j - 1>>]
        BY <2>2, <4>2
      <4> HIDE DEF g
      <4>. QED  BY <4>3 DEF DpStep
    <3>. QED  BY <3>1, <3>2
  <2>4. ASSUME NEW ij \in C PROVE g[ij] = DpStep(a, b, g, ij[1], ij[2])
    <3>1. PICK i \in 0 .. m, j \in 0 .. n : ij = <<i, j>>
      BY DEF Corner
    <3>2. DpStep(a, b, g, ij[1], ij[2]) = DpStep(a, b, h, i, j)
      <4> HIDE DEF g
      <4>. QED  BY <2>3, <3>1
    <3>3. CASE i + j < d
      <4>1. <<i, j>> \in Corner(m, n, d - 1) /\ g[<<i, j>>] = h[<<i, j>>]
        BY <2>2, <3>3
      <4>2. h[<<i, j>>] = DpStep(a, b, h, i, j)
        BY <2>1, <4>1 DEF DpSolves, m, n
      <4> HIDE DEF g
      <4>. QED  BY <3>1, <3>2, <4>1, <4>2
    <3>4. CASE ~(i + j < d)
      <4>1. g[ij] = DpStep(a, b, h, i, j)
        BY <3>1, <3>4
      <4> HIDE DEF g
      <4>. QED  BY <3>2, <4>1
    <3>. QED  BY <3>3, <3>4
  <2>5. g = [ij \in C |-> DpStep(a, b, g, ij[1], ij[2])]
    BY <2>4
  <2>6. DpSolves(g, a, b, d)
    <3> HIDE DEF g
    <3>. QED  BY <2>5 DEF DpSolves, m, n
  <2> HIDE DEF g
  <2>. QED  BY <2>0, <2>6
<1>3. m + n \in T
  <2>1. m + n \in Nat
    BY <1>0
  <2> HIDE DEF T
  <2>2. \A k \in 0 .. (m + n) : k \in T
    BY <1>1, <1>2, <2>1, UpTo, Zenon
  <2>. QED  BY <2>1, <2>2
<1>4. Corner(m, n, m + n) = (0 .. m) \X (0 .. n)
  BY <1>0 DEF Corner
<1>5. PICK h : DpSolves(h, a, b, m + n)
  BY <1>3
<1>6. s_diff_dp(a, b) = CHOOSE h2 : DpSolves(h2, a, b, m + n)
  BY <1>4 DEF s_diff_dp, DpSolves, DpStep, m, n
<1>7. DpSolves(s_diff_dp(a, b), a, b, m + n)
  BY <1>5, <1>6
<1>8. s_diff_dp(a, b) = [ij \in (0 .. m) \X (0 .. n) |-> DpStep(a, b, s_diff_dp(a, b), ij[1], ij[2])]
  BY <1>4, <1>7 DEF DpSolves, m, n
<1>. QED  BY <1>8 DEF m, n

(* One turn of the way back through the table. *)
Adds(a, b, i, j) ==
    j > 0 /\ (i = 0 \/ s_diff_dp(a, b)[<<i, j - 1>>] >= s_diff_dp(a, b)[<<i - 1, j>>])

BackStep(a, b, f, i, j) ==
    IF i = 0 /\ j = 0 THEN <<>>
    ELSE IF i > 0 /\ j > 0 /\ a[i] = b[j] THEN Append(f[<<i - 1, j - 1>>], <<i, j>>)
    ELSE IF Adds(a, b, i, j) THEN Append(f[<<i, j - 1>>], <<0, j>>)
    ELSE Append(f[<<i - 1, j>>], <<i, 0>>)

BackSolves(h, a, b, d) == h = [ij \in Corner(Len(a), Len(b), d) |-> BackStep(a, b, h, ij[1], ij[2])]

(* The way back is the one its definition describes: there is one. *)
LEMMA BackRecursion ==
    ASSUME NEW a, NEW b, Len(a) \in Nat, Len(b) \in Nat
    PROVE  \A i \in 0 .. Len(a), j \in 0 .. Len(b) :
               Backtrack(a, b)[<<i, j>>] = BackStep(a, b, Backtrack(a, b), i, j)
<1> DEFINE m == Len(a)
           n == Len(b)
           T == {d \in Nat : \E h : BackSolves(h, a, b, d)}
<1>0. m \in Nat /\ n \in Nat
  OBVIOUS
<1> HIDE DEF m, n
<1>1. 0 \in T
  <2> DEFINE h == [ij \in Corner(m, n, 0) |-> <<>>]
  <2>1. ASSUME NEW ij \in Corner(m, n, 0) PROVE BackStep(a, b, h, ij[1], ij[2]) = <<>>
    BY <1>0 DEF Corner, BackStep
  <2>2. BackSolves(h, a, b, 0)
    BY <2>1 DEF BackSolves, m, n
  <2>. QED  BY <2>2
<1>2. ASSUME NEW d \in 1 .. (m + n), d - 1 \in T PROVE d \in T
  <2>0. d \in Nat /\ d - 1 \in Nat
    BY <1>0
  <2>1. PICK h : BackSolves(h, a, b, d - 1)
    BY <1>2
  <2> DEFINE C == Corner(m, n, d)
             g == [ij \in C |-> IF ij[1] + ij[2] < d THEN h[ij] ELSE BackStep(a, b, h, ij[1], ij[2])]
  <2>2. ASSUME NEW i \in 0 .. m, NEW j \in 0 .. n, i + j < d
        PROVE  <<i, j>> \in C /\ <<i, j>> \in Corner(m, n, d - 1) /\ g[<<i, j>>] = h[<<i, j>>]
    BY <1>0, <2>0, <2>2 DEF Corner
  <2>3. ASSUME NEW i \in 0 .. m, NEW j \in 0 .. n, <<i, j>> \in C
        PROVE  BackStep(a, b, g, i, j) = BackStep(a, b, h, i, j)
    <3>1. i + j <= d
      BY <2>3 DEF Corner
    <3>2. /\ i > 0 => i - 1 \in 0 .. m /\ (i - 1) + j < d
          /\ j > 0 => j - 1 \in 0 .. n /\ i + (j - 1) < d
          /\ i > 0 /\ j > 0 => (i - 1) + (j - 1) < d
          /\ i = 0 \/ i > 0
      BY <1>0, <2>0, <3>1
    <3>3. /\ i > 0 /\ j > 0 => g[<<i - 1, j - 1>>] = h[<<i - 1, j - 1>>]
          /\ i > 0 => g[<<i - 1, j>>] = h[<<i - 1, j>>]
          /\ j > 0 => g[<<i, j - 1>>] = h[<<i, j - 1>>]
      BY <2>2, <3>2
    <3>4. ~Adds(a, b, i, j) => i > 0 \/ j = 0
      BY <3>2 DEF Adds
    <3>5. Adds(a, b, i, j) => j > 0
      BY DEF Adds
    <3> HIDE DEF g
    <3>. QED  BY <3>2, <3>3, <3>4, <3>5 DEF BackStep
  <2>4. ASSUME NEW ij \in C PROVE g[ij] = BackStep(a, b, g, ij[1], ij[2])
    <3>1. PICK i \in 0 .. m, j \in 0 .. n : ij = <<i, j>>
      BY DEF Corner
    <3>2. BackStep(a, b, g, ij[1], ij[2]) = BackStep(a, b, h, i, j)
      <4> HIDE DEF g
      <4>. QED  BY <2>3, <3>1
    <3>3. CASE i + j < d
      <4>1. <<i, j>> \in Corner(m, n, d - 1) /\ g[<<i, j>>] = h[<<i, j>>]
        BY <2>2, <3>3
      <4>2. h[<<i, j>>] = BackStep(a, b, h, i, j)
        BY <2>1, <4>1 DEF BackSolves, m, n
      <4> HIDE DEF g
      <4>. QED  BY <3>1, <3>2, <4>1, <4>2
    <3>4. CASE ~(i + j < d)
      <4>1. g[ij] = BackStep(a, b, h, i, j)
        BY <3>1, <3>4
      <4> HIDE DEF g
      <4>. QED  BY <3>2, <4>1
    <3>. QED  BY <3>3, <3>4
  <2>5. g = [ij \in C |-> BackStep(a, b, g, ij[1], ij[2])]
    BY <2>4
  <2>6. BackSolves(g, a, b, d)
    <3> HIDE DEF g
    <3>. QED  BY <2>5 DEF BackSolves, m, n
  <2> HIDE DEF g
  <2>. QED  BY <2>0, <2>6
<1>3. m + n \in T
  <2>1. m + n \in Nat
    BY <1>0
  <2> HIDE DEF T
  <2>2. \A k \in 0 .. (m + n) : k \in T
    BY <1>1, <1>2, <2>1, UpTo, Zenon
  <2>. QED  BY <2>1, <2>2
<1>4. Corner(m, n, m + n) = (0 .. m) \X (0 .. n)
  BY <1>0 DEF Corner
<1>5. PICK h : BackSolves(h, a, b, m + n)
  BY <1>3
<1>6. Backtrack(a, b) = CHOOSE h2 : BackSolves(h2, a, b, m + n)
  BY <1>4 DEF Backtrack, Adds, BackSolves, BackStep, m, n
<1>7. BackSolves(Backtrack(a, b), a, b, m + n)
  BY <1>5, <1>6
<1>8. Backtrack(a, b) = [ij \in (0 .. m) \X (0 .. n) |-> BackStep(a, b, Backtrack(a, b), ij[1], ij[2])]
  BY <1>4, <1>7 DEF BackSolves, m, n
<1>. QED  BY <1>8 DEF m, n

(* The entries of the table are numbers. *)
LEMMA DpNat ==
    ASSUME NEW a, NEW b, Len(a) \in Nat, Len(b) \in Nat
    PROVE  \A i \in 0 .. Len(a), j \in 0 .. Len(b) : s_diff_dp(a, b)[<<i, j>>] \in Nat
<1> DEFINE m == Len(a)
           n == Len(b)
           dp == s_diff_dp(a, b)
           T == {ij \in (0 .. m) \X (0 .. n) : dp[ij] \in Nat}
<1>1. \A i \in 0 .. m, j \in 0 .. n : dp[<<i, j>>] = DpStep(a, b, dp, i, j)
  BY DpRecursion
<1>2. m \in Nat /\ n \in Nat
  OBVIOUS
<1> HIDE DEF m, n, dp
<1>3. ASSUME NEW i \in 0 .. m, NEW j \in 0 .. n,
             \A k \in 0 .. m, l \in 0 .. n : k + l < i + j => <<k, l>> \in T
      PROVE  <<i, j>> \in T
  <2>1. dp[<<i, j>>] = DpStep(a, b, dp, i, j)
    BY <1>1
  <2>2. CASE i = 0 \/ j = 0
    BY <2>1, <2>2 DEF DpStep
  <2>3. CASE i # 0 /\ j # 0
    <3>1. /\ i - 1 \in 0 .. m /\ j - 1 \in 0 .. n
          /\ (i - 1) + (j - 1) < i + j /\ (i - 1) + j < i + j /\ i + (j - 1) < i + j
      BY <1>2, <2>3
    <3>2. dp[<<i - 1, j - 1>>] \in Nat /\ dp[<<i - 1, j>>] \in Nat /\ dp[<<i, j - 1>>] \in Nat
      BY <1>3, <3>1
    <3>3. DpStep(a, b, dp, i, j) \in Nat
      BY <3>2 DEF DpStep
    <3>. QED  BY <2>1, <3>3
  <2>. QED  BY <2>2, <2>3
<1>4. \A i \in 0 .. m, j \in 0 .. n : <<i, j>> \in T
  <2> HIDE DEF T
  <2>. QED  BY <1>2, <1>3, OverTable, Zenon
<1>. QED  BY <1>4 DEF m, n, dp

(* No common subsequence of the first i and the first j lines is longer    *)
(* than the entry of the table says.                                       *)
LEMMA DpBounds ==
    ASSUME NEW S, NEW a \in Seq(S), NEW b \in Seq(S)
    PROVE  \A i \in 0 .. Len(a), j \in 0 .. Len(b) : \A K, L :
               KeptUpTo(a, K)[i] = KeptUpTo(b, L)[j] =>
                   Len(KeptUpTo(a, K)[i]) <= s_diff_dp(a, b)[<<i, j>>]
<1> DEFINE m == Len(a)
           n == Len(b)
           dp == s_diff_dp(a, b)
           T == {ij \in (0 .. m) \X (0 .. n) : \A K, L :
                     KeptUpTo(a, K)[ij[1]] = KeptUpTo(b, L)[ij[2]] =>
                         Len(KeptUpTo(a, K)[ij[1]]) <= dp[ij]}
<1>1. m \in Nat /\ n \in Nat
  OBVIOUS
<1>2. \A i \in 0 .. m, j \in 0 .. n : dp[<<i, j>>] = DpStep(a, b, dp, i, j) /\ dp[<<i, j>>] \in Nat
  BY <1>1, DpRecursion, DpNat
<1>3. \A K : \A i \in 0 .. m : KeptUpTo(a, K)[i] \in Seq(S) /\ Len(KeptUpTo(a, K)[i]) \in Nat
  BY KeptUpToEmbeds
<1>4. \A L : \A j \in 0 .. n : KeptUpTo(b, L)[j] \in Seq(S) /\ Len(KeptUpTo(b, L)[j]) \in Nat
  BY KeptUpToEmbeds
<1>5. \A K : \A i \in 1 .. m : KeptUpTo(a, K)[i] =
          IF i \in K THEN Append(KeptUpTo(a, K)[i - 1], a[i]) ELSE KeptUpTo(a, K)[i - 1]
  BY <1>1, KeptNext
<1>6. \A L : \A j \in 1 .. n : KeptUpTo(b, L)[j] =
          IF j \in L THEN Append(KeptUpTo(b, L)[j - 1], b[j]) ELSE KeptUpTo(b, L)[j - 1]
  BY <1>1, KeptNext
<1>7. \A K, L : KeptUpTo(a, K)[0] = <<>> /\ KeptUpTo(b, L)[0] = <<>>
  BY <1>1, KeptNext
<1>8. /\ \A i \in 1 .. m : a[i] \in S
      /\ \A j \in 1 .. n : b[j] \in S
  BY ElementOfSeq
<1>9. \A K : \A i \in 1 .. m : KeptUpTo(a, K)[i] # <<>> =>
          \E P, x : x \in S /\ KeptUpTo(a, K)[i] = Append(KeptUpTo(a, P)[i - 1], x)
  BY KeptLast
<1>10. \A L : \A j \in 1 .. n : KeptUpTo(b, L)[j] # <<>> =>
          \E Q, y : y \in S /\ KeptUpTo(b, L)[j] = Append(KeptUpTo(b, Q)[j - 1], y)
  BY KeptLast
<1> HIDE DEF m, n, dp
<1>11. ASSUME NEW i \in 0 .. m, NEW j \in 0 .. n,
             \A k \in 0 .. m, l \in 0 .. n : k + l < i + j => <<k, l>> \in T
      PROVE  <<i, j>> \in T
  <2> SUFFICES ASSUME NEW K, NEW L, KeptUpTo(a, K)[i] = KeptUpTo(b, L)[j]
               PROVE  Len(KeptUpTo(a, K)[i]) <= dp[<<i, j>>]
    OBVIOUS
  <2> DEFINE c == KeptUpTo(a, K)[i]
  <2>1. c \in Seq(S) /\ Len(c) \in Nat /\ c = KeptUpTo(b, L)[j]
    BY <1>3
  <2>2. dp[<<i, j>>] = DpStep(a, b, dp, i, j) /\ dp[<<i, j>>] \in Nat
    BY <1>2
  <2>3. CASE c = <<>>
    BY <2>2, <2>3
  <2>4. CASE c # <<>>
    <3>1. i # 0 /\ j # 0
      BY <1>7, <2>1, <2>4
    <3>2. /\ i \in 1 .. m /\ j \in 1 .. n /\ i - 1 \in 0 .. m /\ j - 1 \in 0 .. n
          /\ (i - 1) + (j - 1) < i + j /\ (i - 1) + j < i + j /\ i + (j - 1) < i + j
      BY <1>1, <3>1
    <3>3. /\ <<i - 1, j - 1>> \in T /\ <<i - 1, j>> \in T /\ <<i, j - 1>> \in T
      BY <1>11, <3>2
    <3>4. dp[<<i - 1, j - 1>>] \in Nat /\ dp[<<i - 1, j>>] \in Nat /\ dp[<<i, j - 1>>] \in Nat
      BY <1>2, <3>2
    <3>5. CASE a[i] = b[j]
      <4>1. PICK P, x : x \in S /\ c = Append(KeptUpTo(a, P)[i - 1], x)
        <5> HIDE DEF T
        <5>1. i \in 1 .. Len(a) /\ KeptUpTo(a, K)[i] # <<>>
          BY <2>4, <3>2 DEF m
        <5>2. \E P, x : x \in S /\ KeptUpTo(a, K)[i] = Append(KeptUpTo(a, P)[i - 1], x)
          BY <1>9, <3>2, <5>1, Zenon
        <5>. QED  BY <5>2
      <4>2. PICK Q, y : y \in S /\ c = Append(KeptUpTo(b, Q)[j - 1], y)
        <5> HIDE DEF T
        <5>1. j \in 1 .. Len(b) /\ KeptUpTo(b, L)[j] # <<>>
          BY <2>1, <2>4, <3>2 DEF n
        <5>2. \E Q, y : y \in S /\ KeptUpTo(b, L)[j] = Append(KeptUpTo(b, Q)[j - 1], y)
          BY <1>10, <3>2, <5>1, Zenon
        <5>. QED  BY <2>1, <5>2
      <4> DEFINE u == KeptUpTo(a, P)[i - 1]
                 v == KeptUpTo(b, Q)[j - 1]
      <4>3. u \in Seq(S) /\ v \in Seq(S) /\ Append(u, x) = Append(v, y)
        BY <1>3, <1>4, <3>2, <4>1, <4>2
      <4>4. c = Append(u, x)
        BY <4>1
      <4>5. Len(u) <= dp[<<i - 1, j - 1>>]
        <5>1. u = v
          <6>1. x \in S /\ y \in S
            BY <4>1, <4>2
          <6> HIDE DEF u, v, c
          <6>. QED  BY ONLY <4>3, <6>1, FrontOfAppend
        <5>. QED  BY <3>3, <5>1
      <4> HIDE DEF u, v, c
      <4>6. Len(c) = Len(u) + 1 /\ Len(u) \in Nat
        BY <4>1, <4>3, <4>4, AppendProperties
      <4>7. dp[<<i, j>>] = dp[<<i - 1, j - 1>>] + 1
        BY <2>2, <3>1, <3>5 DEF DpStep
      <4>8. Len(c) <= dp[<<i, j>>]
        BY <3>4, <4>5, <4>6, <4>7
      <4>. QED  BY <4>8 DEF c
    <3>6. CASE a[i] # b[j]
      <4>1. dp[<<i - 1, j>>] <= dp[<<i, j>>] /\ dp[<<i, j - 1>>] <= dp[<<i, j>>]
        BY <2>2, <3>1, <3>4, <3>6 DEF DpStep
      <4>2. CASE i \notin K
        <5>1. c = KeptUpTo(a, K)[i - 1]
          BY <1>5, <3>2, <4>2
        <5>2. Len(c) <= dp[<<i - 1, j>>]
          BY <2>1, <3>3, <5>1
        <5> HIDE DEF c
        <5>3. Len(c) <= dp[<<i, j>>]
          BY <2>1, <2>2, <3>4, <4>1, <5>2
        <5>. QED  BY <5>3 DEF c
      <4>3. CASE j \notin L
        <5>1. c = KeptUpTo(b, L)[j - 1]
          BY <1>6, <2>1, <3>2, <4>3
        <5>2. Len(c) <= dp[<<i, j - 1>>]
          BY <2>1, <3>3, <5>1
        <5> HIDE DEF c
        <5>3. Len(c) <= dp[<<i, j>>]
          BY <2>1, <2>2, <3>4, <4>1, <5>2
        <5>. QED  BY <5>3 DEF c
      <4>4. CASE i \in K /\ j \in L
        <5> DEFINE u == KeptUpTo(a, K)[i - 1]
                   v == KeptUpTo(b, L)[j - 1]
        <5>1. c = Append(u, a[i]) /\ c = Append(v, b[j])
          BY <1>5, <1>6, <2>1, <3>2, <4>4
        <5>2. u \in Seq(S) /\ v \in Seq(S) /\ a[i] \in S /\ b[j] \in S
          BY <1>3, <1>4, <1>8, <3>2
        <5> HIDE DEF u, v, c
        <5>3. a[i] = b[j]
          <6> DEFINE x == a[i]
                     y == b[j]
          <6>1. Append(u, x) = Append(v, y) /\ x \in S /\ y \in S
            BY <5>1, <5>2
          <6> HIDE DEF x, y
          <6>2. x = y
            BY <5>2, <6>1, FrontOfAppend
          <6>. QED  BY <6>2 DEF x, y
        <5>. QED  BY <3>6, <5>3
      <4>. QED  BY <4>2, <4>3, <4>4
    <3>. QED  BY <3>5, <3>6
  <2>. QED  BY <2>3, <2>4
<1>12. \A i \in 0 .. m, j \in 0 .. n : <<i, j>> \in T
  <2> HIDE DEF T
  <2>. QED  BY <1>1, <1>11, OverTable, Zenon
<1>. QED  BY <1>12 DEF m, n, dp

(* A common subsequence of the first i and the first j lines is as long as *)
(* the entry of the table says.                                            *)
CommonReached(a, b, i, j) ==
    \E K \in SUBSET (1 .. i), L \in SUBSET (1 .. j) :
        /\ KeptUpTo(a, K)[i] = KeptUpTo(b, L)[j]
        /\ Len(KeptUpTo(a, K)[i]) = s_diff_dp(a, b)[<<i, j>>]

(* Some common subsequence is as long as the entry of the table says. *)
LEMMA DpReached ==
    ASSUME NEW S, NEW a \in Seq(S), NEW b \in Seq(S)
    PROVE  \A i \in 0 .. Len(a), j \in 0 .. Len(b) : CommonReached(a, b, i, j)
<1> DEFINE m == Len(a)
           n == Len(b)
           dp == s_diff_dp(a, b)
           Common(i, j, K, L) == /\ KeptUpTo(a, K)[i] = KeptUpTo(b, L)[j]
                                 /\ Len(KeptUpTo(a, K)[i]) = dp[<<i, j>>]
           Reached(i, j) == \E K \in SUBSET (1 .. i), L \in SUBSET (1 .. j) : Common(i, j, K, L)
           T == {ij \in (0 .. m) \X (0 .. n) : Reached(ij[1], ij[2])}
<1>1. m \in Nat /\ n \in Nat
  OBVIOUS
<1>2. \A i \in 0 .. m, j \in 0 .. n : dp[<<i, j>>] = DpStep(a, b, dp, i, j) /\ dp[<<i, j>>] \in Nat
  BY <1>1, DpRecursion, DpNat
<1>3. \A K : \A i \in 0 .. m : KeptUpTo(a, K)[i] \in Seq(S)
  BY KeptUpToEmbeds
<1>4. \A K : \A j \in 0 .. n : KeptUpTo(b, K)[j] \in Seq(S)
  BY KeptUpToEmbeds
<1>5. \A i \in 1 .. m : \A K \in SUBSET (1 .. (i - 1)) :
           /\ KeptUpTo(a, K)[i] = KeptUpTo(a, K)[i - 1]
           /\ KeptUpTo(a, K \cup {i})[i] = Append(KeptUpTo(a, K)[i - 1], a[i])
  BY KeptShort
<1>6. \A j \in 1 .. n : \A L \in SUBSET (1 .. (j - 1)) :
           /\ KeptUpTo(b, L)[j] = KeptUpTo(b, L)[j - 1]
           /\ KeptUpTo(b, L \cup {j})[j] = Append(KeptUpTo(b, L)[j - 1], b[j])
  BY KeptShort
<1>7. \A j \in 0 .. n : KeptUpTo(b, {})[j] = <<>>
  BY KeptNone
<1>8. \A i \in 0 .. m : KeptUpTo(a, {})[i] = <<>>
  BY KeptNone
<1>9. \A i \in 1 .. m : a[i] \in S
  BY ElementOfSeq
<1> HIDE DEF m, n, dp
<1>10. ASSUME NEW i \in 0 .. m, NEW j \in 0 .. n,
             \A k \in 0 .. m, l \in 0 .. n : k + l < i + j => <<k, l>> \in T
      PROVE  <<i, j>> \in T
  <2>1. dp[<<i, j>>] = DpStep(a, b, dp, i, j)
    BY <1>2
  <2>2. CASE i = 0 \/ j = 0
    <3>1. dp[<<i, j>>] = 0
      BY <2>1, <2>2 DEF DpStep
    <3>2. Common(i, j, {}, {})
      BY <1>7, <1>8, <3>1
    <3>3. Reached(i, j)
      <4> HIDE DEF Common
      <4>. QED  BY <3>2
    <3> HIDE DEF Reached
    <3>. QED  BY <3>3
  <2>3. CASE i # 0 /\ j # 0
    <3>1. /\ i \in 1 .. m /\ j \in 1 .. n /\ i - 1 \in 0 .. m /\ j - 1 \in 0 .. n
          /\ (i - 1) + (j - 1) < i + j /\ (i - 1) + j < i + j /\ i + (j - 1) < i + j
      BY <1>1, <2>3
    <3>2. Reached(i - 1, j - 1) /\ Reached(i - 1, j) /\ Reached(i, j - 1)
      <4> HIDE DEF Reached
      <4>. QED  BY <1>10, <3>1
    <3>3. Reached(i, j)
      <4>1. CASE a[i] = b[j]
        <5>1. PICK K \in SUBSET (1 .. (i - 1)), L \in SUBSET (1 .. (j - 1)) : Common(i - 1, j - 1, K, L)
          <6> HIDE DEF Common
          <6>. QED  BY <3>2
        <5>2. dp[<<i, j>>] = dp[<<i - 1, j - 1>>] + 1
          BY <2>1, <2>3, <4>1 DEF DpStep
        <5> DEFINE u == KeptUpTo(a, K)[i - 1]
        <5>3. KeptUpTo(a, K \cup {i})[i] = Append(u, a[i]) /\ KeptUpTo(b, L \cup {j})[j] = Append(u, a[i])
          BY <1>5, <1>6, <3>1, <4>1, <5>1
        <5>4. u \in Seq(S) /\ a[i] \in S
          BY <1>3, <1>9, <3>1
        <5>5. Len(u) = dp[<<i - 1, j - 1>>]
          BY <5>1
        <5> HIDE DEF u
        <5>6. Len(Append(u, a[i])) = Len(u) + 1
          BY <5>4, AppendProperties
        <5>7. Common(i, j, K \cup {i}, L \cup {j})
          BY <5>2, <5>3, <5>5, <5>6
        <5>8. K \cup {i} \in SUBSET (1 .. i) /\ L \cup {j} \in SUBSET (1 .. j)
          BY <3>1
        <5> HIDE DEF Common
        <5>. QED  BY <5>7, <5>8
      <4>2. CASE a[i] # b[j] /\ dp[<<i - 1, j>>] > dp[<<i, j - 1>>]
        <5>1. PICK K \in SUBSET (1 .. (i - 1)), L \in SUBSET (1 .. j) : Common(i - 1, j, K, L)
          <6> HIDE DEF Common
          <6>. QED  BY <3>2
        <5>2. dp[<<i, j>>] = dp[<<i - 1, j>>]
          BY <2>1, <2>3, <4>2 DEF DpStep
        <5>3. Common(i, j, K, L)
          BY <1>5, <3>1, <5>1, <5>2
        <5>4. K \in SUBSET (1 .. i)
          BY <3>1
        <5> HIDE DEF Common
        <5>. QED  BY <5>3, <5>4
      <4>3. CASE a[i] # b[j] /\ ~(dp[<<i - 1, j>>] > dp[<<i, j - 1>>])
        <5>1. PICK K \in SUBSET (1 .. i), L \in SUBSET (1 .. (j - 1)) : Common(i, j - 1, K, L)
          <6> HIDE DEF Common
          <6>. QED  BY <3>2
        <5>2. dp[<<i, j>>] = dp[<<i, j - 1>>]
          BY <2>1, <2>3, <4>3 DEF DpStep
        <5>3. Common(i, j, K, L)
          BY <1>6, <3>1, <5>1, <5>2
        <5>4. L \in SUBSET (1 .. j)
          BY <3>1
        <5> HIDE DEF Common
        <5>. QED  BY <5>3, <5>4
      <4>. QED  BY <4>1, <4>2, <4>3
    <3> HIDE DEF Reached
    <3>. QED  BY <3>3
  <2>. QED  BY <2>2, <2>3
<1>11. \A i \in 0 .. m, j \in 0 .. n : <<i, j>> \in T
  <2> HIDE DEF T
  <2>. QED  BY <1>1, <1>10, OverTable, Zenon
<1>. QED  BY <1>11 DEF CommonReached, m, n, dp

(* The last entry of the table is the length of a longest common           *)
(* subsequence, as defined without the table.                              *)
LEMMA LcsIsDp ==
    ASSUME NEW S, NEW a \in Seq(S), NEW b \in Seq(S)
    PROVE  LcsLength(a, b) = s_diff_dp(a, b)[<<Len(a), Len(b)>>]
<1> DEFINE m == Len(a)
           n == Len(b)
           d == s_diff_dp(a, b)[<<m, n>>]
           common == {Len(s) : s \in Subsequences(a) \cap Subsequences(b)}
<1>1. m \in Nat /\ n \in Nat /\ m \in 0 .. m /\ n \in 0 .. n /\ DOMAIN a = 1 .. m /\ DOMAIN b = 1 .. n
  OBVIOUS
<1>2. d \in Nat
  BY <1>1, DpNat
<1>3. PICK K \in SUBSET (1 .. m), L \in SUBSET (1 .. n) :
          KeptUpTo(a, K)[m] = KeptUpTo(b, L)[n] /\ Len(KeptUpTo(a, K)[m]) = d
  <2>1. CommonReached(a, b, m, n)
    BY <1>1, DpReached
  <2>. QED  BY <2>1 DEF CommonReached
<1>4. d \in common
  <2>1. Kept(a, K) \in Subsequences(a)
    BY <1>1, <1>3 DEF Subsequences
  <2>2. Kept(b, L) \in Subsequences(b)
    BY <1>1, <1>3 DEF Subsequences
  <2>3. Kept(a, K) = Kept(b, L) /\ Len(Kept(a, K)) = d
    BY <1>3 DEF Kept
  <2> HIDE DEF d
  <2>. QED  BY <2>1, <2>2, <2>3
<1>5. ASSUME NEW k \in common PROVE k <= d /\ k \in Nat
  <2>1. PICK s \in Subsequences(a) \cap Subsequences(b) : k = Len(s)
    OBVIOUS
  <2>2. PICK P : s = Kept(a, P)
    BY <2>1 DEF Subsequences
  <2>3. PICK Q : s = Kept(b, Q)
    BY <2>1 DEF Subsequences
  <2>4. KeptUpTo(a, P)[m] = KeptUpTo(b, Q)[n] /\ s = KeptUpTo(a, P)[m]
    BY <2>2, <2>3 DEF Kept
  <2>5. Len(s) <= d
    BY <1>1, <2>4, DpBounds
  <2>6. s \in Seq(S)
    BY <2>2, KeptFacts
  <2>. QED  BY <2>1, <2>5, <2>6
<1>6. LcsLength(a, b) = CHOOSE x \in common : \A k \in common : k <= x
  BY DEF LcsLength
<1> HIDE DEF common, d
<1>7. \A x \in common : (\A k \in common : k <= x) <=> x = d
  BY <1>2, <1>4, <1>5
<1>8. LcsLength(a, b) \in common /\ \A k \in common : k <= LcsLength(a, b)
  BY <1>4, <1>6, <1>7
<1>9. LcsLength(a, b) = d
  BY <1>7, <1>8
<1>. QED  BY <1>9 DEF d

(* What the way back from <<i, j>> collects: each of the first j lines now *)
(* and each of the first i lines before once and in order, and the pairs   *)
(* with a line of both, which are equal lines.                             *)
Merges(M, a, b, i, j) ==
    /\ M \in Seq((0 .. Len(a)) \X (0 .. Len(b)))
    /\ Len(InCurr(M)) = j /\ \A k \in 1 .. j : InCurr(M)[k][2] = k
    /\ Len(InPrev(M)) = i /\ \A k \in 1 .. i : InPrev(M)[k][1] = k
    /\ Len(Unmarked(M)) = s_diff_dp(a, b)[<<i, j>>]
    /\ \A k \in 1 .. Len(Unmarked(M)) : /\ Unmarked(M)[k][1] \in 1 .. Len(a)
                                       /\ Unmarked(M)[k][2] \in 1 .. Len(b)
                                       /\ a[Unmarked(M)[k][1]] = b[Unmarked(M)[k][2]]

(* One more merged line. *)
LEMMA MergeOne ==
    ASSUME NEW P, NEW M \in Seq(P), NEW x \in P
    PROVE  /\ InCurr(Append(M, x)) = IF x[2] # 0 THEN Append(InCurr(M), x) ELSE InCurr(M)
           /\ InPrev(Append(M, x)) = IF x[1] # 0 THEN Append(InPrev(M), x) ELSE InPrev(M)
           /\ Unmarked(Append(M, x)) =
                IF x[1] # 0 /\ x[2] # 0 THEN Append(Unmarked(M), x) ELSE Unmarked(M)
           /\ InCurr(M) \in Seq(P) /\ InPrev(M) \in Seq(P) /\ Unmarked(M) \in Seq(P)
<1> DEFINE W == Append(M, x)
           n == Len(M)
<1>1. /\ Len(W) = n + 1 /\ DOMAIN W = 1 .. (n + 1) /\ DOMAIN M = 1 .. n /\ n \in Nat
      /\ W[n + 1] = x /\ \A k \in 1 .. n : W[k] = M[k]
  BY AppendProperties
<1> HIDE DEF n
<1>2. \A K, L : (\A k \in 1 .. n : k \in K <=> k \in L) =>
          Kept(Append(M, x), K) = IF n + 1 \in K THEN Append(Kept(M, L), x) ELSE Kept(M, L)
  BY KeptAppend DEF n
<1> HIDE DEF W
<1>3. InCurr(W) = IF x[2] # 0 THEN Append(InCurr(M), x) ELSE InCurr(M)
  <2> DEFINE K == {k \in DOMAIN W : W[k][2] # 0}
             L == {k \in DOMAIN M : M[k][2] # 0}
  <2>1. /\ \A k \in 1 .. n : k \in K <=> k \in L
        /\ n + 1 \in K <=> x[2] # 0
    BY <1>1
  <2>2. InCurr(W) = Kept(W, K) /\ InCurr(M) = Kept(M, L)
    BY DEF InCurr
  <2> HIDE DEF K, L
  <2>. QED  BY <1>2, <2>1, <2>2 DEF W
<1>4. InPrev(W) = IF x[1] # 0 THEN Append(InPrev(M), x) ELSE InPrev(M)
  <2> DEFINE K == {k \in DOMAIN W : W[k][1] # 0}
             L == {k \in DOMAIN M : M[k][1] # 0}
  <2>1. /\ \A k \in 1 .. n : k \in K <=> k \in L
        /\ n + 1 \in K <=> x[1] # 0
    BY <1>1
  <2>2. InPrev(W) = Kept(W, K) /\ InPrev(M) = Kept(M, L)
    BY DEF InPrev
  <2> HIDE DEF K, L
  <2>. QED  BY <1>2, <2>1, <2>2 DEF W
<1>5. Unmarked(W) = IF x[1] # 0 /\ x[2] # 0 THEN Append(Unmarked(M), x) ELSE Unmarked(M)
  <2> DEFINE K == {k \in DOMAIN W : W[k][1] # 0 /\ W[k][2] # 0}
             L == {k \in DOMAIN M : M[k][1] # 0 /\ M[k][2] # 0}
  <2>1. /\ \A k \in 1 .. n : k \in K <=> k \in L
        /\ n + 1 \in K <=> (x[1] # 0 /\ x[2] # 0)
    BY <1>1
  <2>2. Unmarked(W) = Kept(W, K) /\ Unmarked(M) = Kept(M, L)
    BY DEF Unmarked
  <2> HIDE DEF K, L
  <2>. QED  BY <1>2, <2>1, <2>2 DEF W
<1>6. InCurr(M) \in Seq(P) /\ InPrev(M) \in Seq(P) /\ Unmarked(M) \in Seq(P)
  BY KeptFacts DEF InCurr, InPrev, Unmarked
<1>. QED  BY <1>3, <1>4, <1>5, <1>6 DEF W

(* Of no merged lines nothing is taken. *)
LEMMA MergeNone == InCurr(<<>>) = <<>> /\ InPrev(<<>>) = <<>> /\ Unmarked(<<>>) = <<>>
<1>1. \A K : Kept(<<>>, K) = <<>>
  <2> SUFFICES ASSUME NEW K PROVE Kept(<<>>, K) = <<>>
    OBVIOUS
  <2>1. Len(<<>>) = 0
    OBVIOUS
  <2>2. KeptUpTo(<<>>, K)[0] = <<>>
    BY <2>1, KeptNext
  <2>. QED  BY <2>1, <2>2 DEF Kept
<1>. QED  BY <1>1 DEF InCurr, InPrev, Unmarked

(* A line of both. *)
LEMMA MergeBoth ==
    ASSUME NEW a, NEW b, Len(a) \in Nat, Len(b) \in Nat,
           NEW i \in 1 .. Len(a), NEW j \in 1 .. Len(b), a[i] = b[j],
           NEW M, Merges(M, a, b, i - 1, j - 1)
    PROVE  Merges(Append(M, <<i, j>>), a, b, i, j)
<1> DEFINE P == (0 .. Len(a)) \X (0 .. Len(b))
           x == <<i, j>>
           W == Append(M, x)
<1>1. /\ M \in Seq(P) /\ x \in P /\ x[1] = i /\ x[2] = j /\ i # 0 /\ j # 0
      /\ i - 1 \in 0 .. Len(a) /\ j - 1 \in 0 .. Len(b)
  BY DEF Merges
<1>2. s_diff_dp(a, b)[<<i, j>>] = s_diff_dp(a, b)[<<i - 1, j - 1>>] + 1
  <2>1. i \in 0 .. Len(a) /\ j \in 0 .. Len(b)
    OBVIOUS
  <2>2. s_diff_dp(a, b)[<<i, j>>] = DpStep(a, b, s_diff_dp(a, b), i, j)
    BY <2>1, DpRecursion
  <2>. QED  BY <1>1, <2>2 DEF DpStep
<1> HIDE DEF P, x
<1>3. /\ InCurr(W) = Append(InCurr(M), x) /\ InPrev(W) = Append(InPrev(M), x)
      /\ Unmarked(W) = Append(Unmarked(M), x)
      /\ InCurr(M) \in Seq(P) /\ InPrev(M) \in Seq(P) /\ Unmarked(M) \in Seq(P)
  <2>1. /\ InCurr(W) = IF x[2] # 0 THEN Append(InCurr(M), x) ELSE InCurr(M)
        /\ InPrev(W) = IF x[1] # 0 THEN Append(InPrev(M), x) ELSE InPrev(M)
        /\ Unmarked(W) = IF x[1] # 0 /\ x[2] # 0 THEN Append(Unmarked(M), x) ELSE Unmarked(M)
        /\ InCurr(M) \in Seq(P) /\ InPrev(M) \in Seq(P) /\ Unmarked(M) \in Seq(P)
    <3>1. M \in Seq(P) /\ x \in P
      BY <1>1
    <3>. QED  BY <3>1, MergeOne, Zenon
  <2> HIDE DEF W
  <2>. QED  BY <1>1, <2>1
<1>4. W \in Seq(P)
  BY <1>1, AppendProperties
<1>5. Len(InCurr(W)) = j /\ \A k \in 1 .. j : InCurr(W)[k][2] = k
  <2>1. Len(InCurr(M)) = j - 1 /\ \A k \in 1 .. (j - 1) : InCurr(M)[k][2] = k
    BY DEF Merges
  <2> DEFINE c == InCurr(M)
  <2>2. c \in Seq(P) /\ x \in P /\ Len(c) = j - 1 /\ \A k \in 1 .. (j - 1) : c[k][2] = k
    BY <1>1, <1>3, <2>1
  <2> HIDE DEF c
  <2>3. /\ Len(Append(c, x)) = j /\ Append(c, x)[j] = x
        /\ \A k \in 1 .. (j - 1) : Append(c, x)[k] = c[k]
    BY <2>2, AppendProperties
  <2>4. \A k \in 1 .. j : Append(c, x)[k][2] = k
    BY <1>1, <2>2, <2>3
  <2>. QED  BY <1>3, <2>3, <2>4 DEF c
<1>6. Len(InPrev(W)) = i /\ \A k \in 1 .. i : InPrev(W)[k][1] = k
  <2>1. Len(InPrev(M)) = i - 1 /\ \A k \in 1 .. (i - 1) : InPrev(M)[k][1] = k
    BY DEF Merges
  <2> DEFINE c == InPrev(M)
  <2>2. c \in Seq(P) /\ x \in P /\ Len(c) = i - 1 /\ \A k \in 1 .. (i - 1) : c[k][1] = k
    BY <1>1, <1>3, <2>1
  <2> HIDE DEF c
  <2>3. /\ Len(Append(c, x)) = i /\ Append(c, x)[i] = x
        /\ \A k \in 1 .. (i - 1) : Append(c, x)[k] = c[k]
    BY <2>2, AppendProperties
  <2>4. \A k \in 1 .. i : Append(c, x)[k][1] = k
    BY <1>1, <2>2, <2>3
  <2>. QED  BY <1>3, <2>3, <2>4 DEF c
<1> DEFINE U == Unmarked(M)
           V == Append(U, x)
<1>7. /\ Len(V) = s_diff_dp(a, b)[<<i, j>>]
      /\ \A k \in 1 .. Len(V) : /\ V[k][1] \in 1 .. Len(a) /\ V[k][2] \in 1 .. Len(b)
                               /\ a[V[k][1]] = b[V[k][2]]
  <2>1. /\ Len(U) = s_diff_dp(a, b)[<<i - 1, j - 1>>]
        /\ \A k \in 1 .. Len(U) : /\ U[k][1] \in 1 .. Len(a) /\ U[k][2] \in 1 .. Len(b)
                                 /\ a[U[k][1]] = b[U[k][2]]
        /\ U \in Seq(P)
    BY <1>3 DEF Merges
  <2> HIDE DEF U
  <2>2. /\ Len(V) = Len(U) + 1 /\ V[Len(U) + 1] = x
        /\ \A k \in 1 .. Len(U) : V[k] = U[k]
    <3>1. x \in P /\ U \in Seq(P)
      BY <1>1, <2>1
    <3>. QED  BY <3>1, AppendProperties
  <2>3. Len(U) \in Nat
    BY <2>1
  <2> HIDE DEF V
  <2>4. ASSUME NEW k \in 1 .. Len(V)
        PROVE  V[k][1] \in 1 .. Len(a) /\ V[k][2] \in 1 .. Len(b) /\ a[V[k][1]] = b[V[k][2]]
    <3>1. CASE k = Len(U) + 1
      BY <1>1, <2>2, <3>1
    <3>2. CASE k \in 1 .. Len(U)
      BY <2>1, <2>2, <3>2
    <3>. QED  BY <2>2, <2>3, <3>1, <3>2
  <2>5. Len(V) = s_diff_dp(a, b)[<<i, j>>]
    BY <1>2, <2>1, <2>2
  <2>. QED  BY <2>4, <2>5
<1>8. Merges(W, a, b, i, j)
  <2> HIDE DEF W
  <2>. QED  BY <1>3, <1>4, <1>5, <1>6, <1>7 DEF Merges, P
<1>. QED  BY <1>8 DEF x

(* A line of now only. *)
LEMMA MergeAdded ==
    ASSUME NEW a, NEW b, Len(a) \in Nat, Len(b) \in Nat,
           NEW i \in 0 .. Len(a), NEW j \in 1 .. Len(b),
           s_diff_dp(a, b)[<<i, j>>] = s_diff_dp(a, b)[<<i, j - 1>>],
           NEW M, Merges(M, a, b, i, j - 1)
    PROVE  Merges(Append(M, <<0, j>>), a, b, i, j)
<1> DEFINE P == (0 .. Len(a)) \X (0 .. Len(b))
           x == <<0, j>>
           W == Append(M, x)
<1>1. M \in Seq(P) /\ x \in P /\ x[1] = 0 /\ x[2] = j /\ j # 0
  BY DEF Merges
<1> HIDE DEF P, x
<1>3. /\ InCurr(W) = Append(InCurr(M), x) /\ InPrev(W) = InPrev(M)
      /\ Unmarked(W) = Unmarked(M) /\ InCurr(M) \in Seq(P)
  BY <1>1, MergeOne
<1>4. W \in Seq(P)
  BY <1>1, AppendProperties
<1>5. Len(InCurr(W)) = j /\ \A k \in 1 .. j : InCurr(W)[k][2] = k
  <2>1. Len(InCurr(M)) = j - 1 /\ \A k \in 1 .. (j - 1) : InCurr(M)[k][2] = k
    BY DEF Merges
  <2>. QED  BY <1>1, <1>3, <2>1, AppendProperties
<1>6. Merges(W, a, b, i, j)
  <2> HIDE DEF W
  <2>. QED  BY <1>3, <1>4, <1>5 DEF Merges, P
<1>. QED  BY <1>6 DEF x

(* A line of before only. *)
LEMMA MergeRemoved ==
    ASSUME NEW a, NEW b, Len(a) \in Nat, Len(b) \in Nat,
           NEW i \in 1 .. Len(a), NEW j \in 0 .. Len(b),
           s_diff_dp(a, b)[<<i, j>>] = s_diff_dp(a, b)[<<i - 1, j>>],
           NEW M, Merges(M, a, b, i - 1, j)
    PROVE  Merges(Append(M, <<i, 0>>), a, b, i, j)
<1> DEFINE P == (0 .. Len(a)) \X (0 .. Len(b))
           x == <<i, 0>>
           W == Append(M, x)
<1>1. M \in Seq(P) /\ x \in P /\ x[1] = i /\ x[2] = 0 /\ i # 0
  BY DEF Merges
<1> HIDE DEF P, x
<1>3. /\ InPrev(W) = Append(InPrev(M), x) /\ InCurr(W) = InCurr(M)
      /\ Unmarked(W) = Unmarked(M) /\ InPrev(M) \in Seq(P)
  BY <1>1, MergeOne
<1>4. W \in Seq(P)
  BY <1>1, AppendProperties
<1>5. Len(InPrev(W)) = i /\ \A k \in 1 .. i : InPrev(W)[k][1] = k
  <2>1. Len(InPrev(M)) = i - 1 /\ \A k \in 1 .. (i - 1) : InPrev(M)[k][1] = k
    BY DEF Merges
  <2>. QED  BY <1>1, <1>3, <2>1, AppendProperties
<1>6. Merges(W, a, b, i, j)
  <2> HIDE DEF W
  <2>. QED  BY <1>3, <1>4, <1>5 DEF Merges, P
<1>. QED  BY <1>6 DEF x

(* The way back merges the lines it passes. *)
LEMMA BackMerges ==
    ASSUME NEW a, NEW b, Len(a) \in Nat, Len(b) \in Nat
    PROVE  \A i \in 0 .. Len(a), j \in 0 .. Len(b) : Merges(Backtrack(a, b)[<<i, j>>], a, b, i, j)
<1> DEFINE m == Len(a)
           n == Len(b)
           dp == s_diff_dp(a, b)
           back == Backtrack(a, b)
           T == {ij \in (0 .. m) \X (0 .. n) : Merges(back[ij], a, b, ij[1], ij[2])}
<1>1. m \in Nat /\ n \in Nat
  OBVIOUS
<1>2. \A i \in 0 .. m, j \in 0 .. n :
          /\ back[<<i, j>>] = BackStep(a, b, back, i, j)
          /\ dp[<<i, j>>] = DpStep(a, b, dp, i, j) /\ dp[<<i, j>>] \in Nat
  BY BackRecursion, DpRecursion, DpNat
<1>3. \A i \in 1 .. m, j \in 1 .. n : \A M : a[i] = b[j] /\ Merges(M, a, b, i - 1, j - 1) =>
          Merges(Append(M, <<i, j>>), a, b, i, j)
  BY MergeBoth
<1>4. \A i \in 0 .. m, j \in 1 .. n : \A M : dp[<<i, j>>] = dp[<<i, j - 1>>] /\ Merges(M, a, b, i, j - 1) =>
          Merges(Append(M, <<0, j>>), a, b, i, j)
  BY MergeAdded
<1>5. \A i \in 1 .. m, j \in 0 .. n : \A M : dp[<<i, j>>] = dp[<<i - 1, j>>] /\ Merges(M, a, b, i - 1, j) =>
          Merges(Append(M, <<i, 0>>), a, b, i, j)
  BY MergeRemoved
<1>6. \A i \in 0 .. m, j \in 0 .. n : Adds(a, b, i, j) <=>
          j > 0 /\ (i = 0 \/ dp[<<i, j - 1>>] >= dp[<<i - 1, j>>])
  BY DEF Adds
<1> HIDE DEF m, n, dp, back
<1>10. ASSUME NEW i \in 0 .. m, NEW j \in 0 .. n,
             \A k \in 0 .. m, l \in 0 .. n : k + l < i + j => <<k, l>> \in T
      PROVE  <<i, j>> \in T
  <2>1. /\ back[<<i, j>>] = BackStep(a, b, back, i, j)
        /\ dp[<<i, j>>] = DpStep(a, b, dp, i, j)
    BY <1>2
  <2>2. /\ i > 0 => i \in 1 .. m /\ i - 1 \in 0 .. m /\ (i - 1) + j < i + j
        /\ j > 0 => j \in 1 .. n /\ j - 1 \in 0 .. n /\ i + (j - 1) < i + j
        /\ i > 0 /\ j > 0 => (i - 1) + (j - 1) < i + j
        /\ (i = 0 \/ i > 0) /\ (j = 0 \/ j > 0)
    BY <1>1
  <2>3. Merges(back[<<i, j>>], a, b, i, j)
    <3>1. CASE i = 0 /\ j = 0
      <4>1. back[<<i, j>>] = <<>> /\ dp[<<i, j>>] = 0
        BY <2>1, <3>1 DEF BackStep, DpStep
      <4>. QED  BY <3>1, <4>1, MergeNone DEF Merges, dp
    <3>2. CASE i > 0 /\ j > 0 /\ a[i] = b[j]
      <4>1. back[<<i, j>>] = Append(back[<<i - 1, j - 1>>], <<i, j>>)
        BY <2>1, <3>2, SMTT(30) DEF BackStep
      <4>2. Merges(back[<<i - 1, j - 1>>], a, b, i - 1, j - 1)
        BY <1>10, <2>2, <3>2
      <4>. QED  BY <1>3, <2>2, <3>2, <4>1, <4>2
    <3>3. CASE ~(i > 0 /\ j > 0 /\ a[i] = b[j]) /\ Adds(a, b, i, j)
      <4>1. j > 0 /\ (i = 0 \/ dp[<<i, j - 1>>] >= dp[<<i - 1, j>>])
        BY <1>6, <3>3
      <4>2. back[<<i, j>>] = Append(back[<<i, j - 1>>], <<0, j>>)
        BY <2>1, <3>3, <4>1 DEF BackStep
      <4>3. Merges(back[<<i, j - 1>>], a, b, i, j - 1)
        BY <1>10, <2>2, <4>1
      <4>4. dp[<<i, j>>] = dp[<<i, j - 1>>]
        <5>1. CASE i = 0
          <6>1. dp[<<i, j - 1>>] = DpStep(a, b, dp, i, j - 1)
            BY <1>2, <2>2, <4>1
          <6>. QED  BY <2>1, <5>1, <6>1 DEF DpStep
        <5>2. CASE i > 0
          <6>1. dp[<<i, j - 1>>] \in Nat /\ dp[<<i - 1, j>>] \in Nat
            BY <1>2, <2>2, <4>1, <5>2
          <6>. QED  BY <2>1, <3>3, <4>1, <5>2, <6>1 DEF DpStep
        <5>. QED  BY <2>2, <5>1, <5>2
      <4>. QED  BY <1>4, <2>2, <4>1, <4>2, <4>3, <4>4
    <3>4. CASE ~(i = 0 /\ j = 0) /\ ~(i > 0 /\ j > 0 /\ a[i] = b[j]) /\ ~Adds(a, b, i, j)
      <4>1. i > 0 /\ ~(j > 0 /\ dp[<<i, j - 1>>] >= dp[<<i - 1, j>>])
        BY <1>6, <2>2, <3>4
      <4>2. back[<<i, j>>] = Append(back[<<i - 1, j>>], <<i, 0>>)
        BY <2>1, <3>4 DEF BackStep
      <4>3. Merges(back[<<i - 1, j>>], a, b, i - 1, j)
        BY <1>10, <2>2, <4>1
      <4>4. dp[<<i, j>>] = dp[<<i - 1, j>>]
        <5>1. CASE j = 0
          <6>1. dp[<<i - 1, j>>] = DpStep(a, b, dp, i - 1, j)
            BY <1>2, <2>2, <4>1
          <6>. QED  BY <2>1, <5>1, <6>1 DEF DpStep
        <5>2. CASE j > 0
          <6>1. dp[<<i, j - 1>>] \in Nat /\ dp[<<i - 1, j>>] \in Nat
            BY <1>2, <2>2, <4>1, <5>2
          <6>. QED  BY <2>1, <3>4, <4>1, <5>2, <6>1 DEF DpStep
        <5>. QED  BY <2>2, <5>1, <5>2
      <4>. QED  BY <1>5, <2>2, <4>1, <4>2, <4>3, <4>4
    <3>. QED  BY <3>1, <3>2, <3>3, <3>4
  <2>. QED  BY <2>3
<1>11. \A i \in 0 .. m, j \in 0 .. n : <<i, j>> \in T
  <2> HIDE DEF T
  <2>. QED  BY <1>1, <1>10, OverTable, Zenon
<1>. QED  BY <1>11 DEF m, n, back

(* What diff_compute makes of two texts. *)
LEMMA DiffMerges ==
    ASSUME NEW S, NEW a \in Seq(S), NEW b \in Seq(S)
    PROVE  /\ Merges(diff_compute(a, b), a, b, Len(a), Len(b))
           /\ Len(Unmarked(diff_compute(a, b))) = LcsLength(a, b)
<1>1. Len(a) \in Nat /\ Len(b) \in Nat /\ Len(a) \in 0 .. Len(a) /\ Len(b) \in 0 .. Len(b)
  OBVIOUS
<1>2. Merges(diff_compute(a, b), a, b, Len(a), Len(b))
  BY <1>1, BackMerges DEF diff_compute
<1>. QED  BY <1>2, LcsIsDp DEF Merges

-----------------------------------------------------------------------------
(* The inspector.  Its caches are sound because time stamps and            *)
(* generations are never used twice, although addresses are.               *)

NodeRecord == [topic : {m[1] : m \in ViewMessages}, count : Nat,
               payload : {m[2] : m \in ViewMessages} \cup {<<>>}, ts : Nat, shown_at : Nat]

(* The records of the ring lie in the order of their stamps. *)
InStampOrder(r, now) ==
    /\ \E S : r \in Seq(S)
    /\ \A k \in DOMAIN r : r[k].ts \in Nat /\ r[k].ts <= now
    /\ \A k, l \in DOMAIN r : k < l => r[k].ts < r[l].ts

NodesOk(ns, now) ==
    /\ ns \in Seq(NodeRecord)
    /\ \A n \in DOMAIN ns : ns[n].shown_at <= now

(* Lines in the cache that would be taken for a node's are the node's ... *)
LinesOfNode(cache, ns) ==
    \A n \in DOMAIN ns :
        cache.src = NodeSrc(n) /\ cache.key = ns[n].shown_at /\ ns[n].payload # <<>>
            => cache.lines = ns[n].payload

(* ... and those that would be taken for a record's are the record's. *)
LinesOfRecord(cache, r) ==
    \A k \in DOMAIN r :
        cache.src = RecordSrc(r[k]) /\ cache.key = r[k].ts => cache.lines = r[k].payload

CacheOk(cache, ns, r, now) ==
    /\ cache.key \in Nat /\ cache.key <= now
    /\ LinesOfNode(cache, ns) /\ LinesOfRecord(cache, r)

(* Rows that are not found again are the ones that would be found. *)
RowsOk(h, ns, r, gen) ==
    /\ h = [node |-> h.node, gen |-> h.gen, matches |-> h.matches, expanded |-> h.expanded]
    /\ h.gen \in Int /\ gen \in Int /\ h.gen <= gen
    /\ h.gen = gen /\ h.node \in DOMAIN ns => h.matches = Matches(r, ns[h.node].topic)

(* The inductive invariant of the inspector. *)
ViewInv ==
    /\ stamp \in Nat
    /\ sel # 0 => sel \in DOMAIN node
    /\ InStampOrder(ring, stamp)
    /\ NodesOk(node, stamp)
    /\ CacheOk(pp, node, ring, stamp)
    /\ RowsOk(hist, node, ring, ringGen)

(* Nothing is drawn yet. *)
LEMMA ViewInitInv == ViewInit => ViewInv
<1> SUFFICES ASSUME ViewInit PROVE ViewInv
  OBVIOUS
<1>1. stamp \in Nat /\ sel = 0 /\ ring = <<>> /\ node = <<>> /\ ringGen = 0 /\ stamp = 0
      /\ pp = [src |-> NoSrc, key |-> 0, lines |-> <<>>]
      /\ hist = [node |-> 0, gen |-> -1, matches |-> <<>>, expanded |-> 0]
  BY DEF ViewInit
<1>2. DOMAIN <<>> = {} /\ <<>> \in Seq({})
  OBVIOUS
<1>3. InStampOrder(ring, stamp)
  BY <1>1, <1>2 DEF InStampOrder
<1>4. NodesOk(node, stamp)
  BY <1>1, <1>2 DEF NodesOk
<1>5. CacheOk(pp, node, ring, stamp)
  BY <1>1, <1>2 DEF CacheOk, LinesOfNode, LinesOfRecord
<1>6. RowsOk(hist, node, ring, ringGen)
  BY <1>1, <1>2 DEF RowsOk
<1>. QED  BY <1>1, <1>3, <1>4, <1>5, <1>6 DEF ViewInv

(* No two records have the same stamp. *)
LEMMA SameStamp ==
    ASSUME ViewInv, NEW k \in DOMAIN ring, NEW l \in DOMAIN ring, ring[k].ts = ring[l].ts
    PROVE  k = l
<1>1. DOMAIN ring \subseteq Nat
  BY DEF ViewInv, InStampOrder
<1>2. /\ k < l => ring[k].ts < ring[l].ts
      /\ l < k => ring[l].ts < ring[k].ts
      /\ ring[k].ts \in Nat
  BY DEF ViewInv, InStampOrder
<1>. QED  BY <1>1, <1>2

(* A new record has a stamp of its own. *)
LEMMA PushedOrder ==
    ASSUME NEW now \in Nat, NEW r, InStampOrder(r, now), NEW x, x.ts = now + 1
    PROVE  /\ InStampOrder(Append(r, x), now + 1)
           /\ r # <<>> => InStampOrder(Tail(r), now)
           /\ \A k \in DOMAIN Append(r, x) : \/ \E l \in DOMAIN r : Append(r, x)[k] = r[l]
                                             \/ Append(r, x)[k] = x
           /\ r # <<>> => \A k \in DOMAIN Tail(r) : \E l \in DOMAIN r : Tail(r)[k] = r[l]
<1>1. PICK S : r \in Seq(S)
  BY DEF InStampOrder
<1>2. r \in Seq(S \cup {x}) /\ Len(r) \in Nat /\ DOMAIN r = 1 .. Len(r)
  BY <1>1, SeqMonotonic
<1> DEFINE a == Append(r, x)
<1>3. /\ a \in Seq(S \cup {x}) /\ DOMAIN a = 1 .. (Len(r) + 1) /\ a[Len(r) + 1] = x
      /\ \A k \in 1 .. Len(r) : a[k] = r[k]
  BY <1>2, AppendProperties
<1> HIDE DEF a
<1>4. \A k \in DOMAIN r : r[k].ts \in Nat /\ r[k].ts <= now
  BY DEF InStampOrder
<1>5. \A k, l \in DOMAIN r : k < l => r[k].ts < r[l].ts
  BY DEF InStampOrder
<1>6. \A k \in DOMAIN a : a[k].ts \in Nat /\ a[k].ts <= now + 1
  BY <1>2, <1>3, <1>4
<1>7. ASSUME NEW k \in DOMAIN a, NEW l \in DOMAIN a, k < l PROVE a[k].ts < a[l].ts
  <2>1. CASE l = Len(r) + 1
    <3>1. k \in 1 .. Len(r)
      BY <1>2, <1>3, <1>7, <2>1
    <3>. QED  BY <1>2, <1>3, <1>4, <2>1, <3>1
  <2>2. CASE l # Len(r) + 1
    <3>1. k \in 1 .. Len(r) /\ l \in 1 .. Len(r)
      BY <1>2, <1>3, <1>7, <2>2
    <3>. QED  BY <1>2, <1>3, <1>5, <1>7, <3>1
  <2>. QED  BY <2>1, <2>2
<1>8. InStampOrder(a, now + 1)
  BY <1>3, <1>6, <1>7 DEF InStampOrder
<1>9. \A k \in DOMAIN a : (\E l \in DOMAIN r : a[k] = r[l]) \/ a[k] = x
  BY <1>2, <1>3
<1>10. ASSUME r # <<>>
       PROVE  InStampOrder(Tail(r), now) /\ \A k \in DOMAIN Tail(r) : \E l \in DOMAIN r : Tail(r)[k] = r[l]
  <2>1. /\ Tail(r) \in Seq(S) /\ DOMAIN Tail(r) = 1 .. (Len(r) - 1)
        /\ \A k \in 1 .. (Len(r) - 1) : Tail(r)[k] = r[k + 1]
    BY <1>1, <1>10, HeadTailProperties
  <2>2. \A k \in 1 .. (Len(r) - 1) : k + 1 \in DOMAIN r
    BY <1>2
  <2>3. \A k \in DOMAIN Tail(r) : Tail(r)[k].ts \in Nat /\ Tail(r)[k].ts <= now
    BY <1>4, <2>1, <2>2
  <2>4. ASSUME NEW k \in DOMAIN Tail(r), NEW l \in DOMAIN Tail(r), k < l
        PROVE  Tail(r)[k].ts < Tail(r)[l].ts
    <3>1. k + 1 < l + 1 /\ k + 1 \in DOMAIN r /\ l + 1 \in DOMAIN r
      BY <2>1, <2>2, <2>4, <1>2
    <3>2. r[k + 1].ts < r[l + 1].ts
      BY <1>5, <3>1
    <3>. QED  BY <2>1, <3>2
  <2>5. InStampOrder(Tail(r), now)
    BY <2>1, <2>3, <2>4 DEF InStampOrder
  <2>. QED  BY <2>1, <2>2, <2>5
<1>. QED  BY <1>8, <1>9, <1>10 DEF a

(* Clear History keeps the order; it changes the ring only by making it    *)
(* shorter.                                                                *)
LEMMA ClearedOrder ==
    ASSUME NEW now, NEW r, InStampOrder(r, now), NEW K
    PROVE  /\ InStampOrder(Kept(r, K), now)
           /\ \A k \in DOMAIN Kept(r, K) : \E l \in DOMAIN r : Kept(r, K)[k] = r[l]
           /\ Len(Kept(r, K)) < Len(r) \/ Kept(r, K) = r
<1>1. PICK S : r \in Seq(S)
  BY DEF InStampOrder
<1> DEFINE u == Kept(r, K)
<1>2. u \in Seq(S) /\ (Len(u) < Len(r) \/ u = r)
  BY <1>1, KeptFacts, KeptAll
<1>3. PICK e : Embeds(e, u, r, K, Len(r))
  BY <1>1, KeptFacts
<1>4. DOMAIN r = 1 .. Len(r) /\ DOMAIN u = 1 .. Len(u)
  BY <1>1, <1>2
<1> HIDE DEF u
<1>5. \A k \in DOMAIN u : e[k] \in DOMAIN r /\ u[k] = r[e[k]]
  BY <1>3, <1>4 DEF Embeds
<1>6. \A k, l \in DOMAIN u : k < l => e[k] < e[l]
  BY <1>3, <1>4 DEF Embeds
<1>7. \A k \in DOMAIN u : u[k].ts \in Nat /\ u[k].ts <= now
  BY <1>5 DEF InStampOrder
<1>8. \A k, l \in DOMAIN u : k < l => u[k].ts < u[l].ts
  BY <1>5, <1>6 DEF InStampOrder
<1>9. InStampOrder(u, now)
  BY <1>2, <1>7, <1>8 DEF InStampOrder
<1>. QED  BY <1>2, <1>5, <1>9 DEF u

(* The cache stays sound when records leave and when nodes that would use  *)
(* it stay as they are.                                                    *)
LEMMA FewerRecords ==
    ASSUME NEW cache, NEW r, NEW u, LinesOfRecord(cache, r),
           \A k \in DOMAIN u : \/ \E l \in DOMAIN r : u[k] = r[l]
                               \/ u[k].ts # cache.key
    PROVE  LinesOfRecord(cache, u)
BY DEF LinesOfRecord

(* The rows found lie in the ring. *)
LEMMA RowsInRing ==
    ASSUME NEW S, NEW r \in Seq(S), NEW t
    PROVE  \A k \in DOMAIN Matches(r, t) : Matches(r, t)[k] \in DOMAIN r
<1> DEFINE newest == [k \in DOMAIN r |-> Len(r) + 1 - k]
           K == {k \in DOMAIN newest : r[newest[k]].topic = t}
           all == Kept(newest, K)
           m == IF Len(all) < HistoryMaxRows THEN Len(all) ELSE HistoryMaxRows
<1>1. DOMAIN r = 1 .. Len(r) /\ Len(r) \in Nat
  OBVIOUS
<1>2. newest \in [1 .. Len(r) -> DOMAIN r]
  BY <1>1
<1>3. newest \in Seq(DOMAIN r)
  BY <1>1, <1>2, SeqDef
<1>4. Matches(r, t) = SubSeq(all, 1, m)
  BY DEF Matches
<1> HIDE DEF newest, K
<1>5. all \in Seq(DOMAIN r)
  BY <1>3, KeptFacts
<1> HIDE DEF all
<1>6. m \in Nat /\ m <= Len(all)
  BY <1>5, InspectorAssumption
<1> HIDE DEF m
<1>7. \A k \in 1 .. m : all[k] \in DOMAIN r
  <2>1. \A k \in 1 .. m : k \in 1 .. Len(all)
    BY <1>5, <1>6
  <2>. QED  BY <1>5, <2>1, ElementOfSeq
<1>8. SubSeq(all, 1, m) \in Seq(DOMAIN r)
  BY <1>6, <1>7, SubSeqProperties
<1>. QED  BY <1>4, <1>8

(* What a message makes of the nodes: the one of its topic gets the new    *)
(* payload and stamp, or keeps both.                                       *)
LEMMA MessageNodes ==
    ASSUME ViewInv, NEW m \in ViewMessages, NEW due \in BOOLEAN,
           MessageDrained(m[1], m[2], due)
    PROVE  /\ node' \in Seq(NodeRecord) /\ DOMAIN node \subseteq DOMAIN node'
           /\ \A k \in DOMAIN node' :
                \/ node'[k].shown_at = stamp + 1
                \/ /\ k \in DOMAIN node
                   /\ node'[k].shown_at = node[k].shown_at
                   /\ node'[k].payload = node[k].payload
           /\ \A k \in DOMAIN node' :
                \/ node'[k].ts = stamp + 1
                \/ k \in DOMAIN node /\ node'[k].ts = node[k].ts /\ node'[k].payload = node[k].payload
<1> DEFINE t == m[1]
           p == m[2]
           fresh == [topic |-> t, count |-> 0, payload |-> <<>>, ts |-> 0, shown_at |-> 0]
           all == IF NodeOf(t) = {} THEN Append(node, fresh) ELSE node
           n == CHOOSE i \in DOMAIN all : all[i].topic = t
           show == due \/ all[n].count = 0
<1>0. /\ node \in Seq(NodeRecord) /\ DOMAIN node = 1 .. Len(node) /\ Len(node) \in Nat
  BY DEF ViewInv, NodesOk
<1>1. /\ stamp \in Nat /\ stamp' = stamp + 1
      /\ node' = [all EXCEPT ![n].count = @ + 1, ![n].ts = stamp',
                             ![n].payload = IF show THEN p ELSE @,
                             ![n].shown_at = IF show THEN stamp' ELSE @]
  BY DEF MessageDrained, ViewInv
<1>2. fresh \in NodeRecord
  BY DEF NodeRecord
<1>3. /\ all \in Seq(NodeRecord) /\ DOMAIN node \subseteq DOMAIN all
      /\ \A k \in DOMAIN all : IF k \in DOMAIN node THEN all[k] = node[k] ELSE all[k] = fresh
      /\ \E k \in DOMAIN all : all[k].topic = t
      /\ \A k, l \in DOMAIN all : k \notin DOMAIN node /\ all[l].topic = t => k = l
  <2>1. CASE NodeOf(t) = {}
    <3>1. fresh.topic = t /\ all = Append(node, fresh)
      BY <2>1
    <3> HIDE DEF fresh, all, t
    <3>2. /\ all \in Seq(NodeRecord) /\ DOMAIN all = 1 .. (Len(node) + 1)
          /\ all[Len(node) + 1] = fresh
          /\ \A k \in 1 .. Len(node) : all[k] = node[k]
      BY <1>0, <1>2, <3>1, AppendProperties
    <3>3. \A k \in DOMAIN node : node[k].topic # t
      BY <2>1 DEF NodeOf
    <3>4. \A k \in DOMAIN all : k \in DOMAIN node \/ k = Len(node) + 1
      BY <1>0, <3>2
    <3>5. Len(node) + 1 \in DOMAIN all /\ Len(node) + 1 \notin DOMAIN node
          /\ DOMAIN node \subseteq DOMAIN all
      BY <1>0, <3>2
    <3>6. \A k \in DOMAIN all : IF k \in DOMAIN node THEN all[k] = node[k] ELSE all[k] = fresh
      BY <1>0, <3>2, <3>4
    <3>7. \A k, l \in DOMAIN all : k \notin DOMAIN node /\ all[l].topic = t => k = l
      BY <1>0, <3>2, <3>3, <3>4
    <3>. QED  BY <3>1, <3>2, <3>5, <3>6, <3>7
  <2>2. CASE NodeOf(t) # {}
    <3>1. all = node /\ \E k \in DOMAIN node : node[k].topic = t
      BY <2>2 DEF NodeOf
    <3> HIDE DEF all, fresh
    <3>2. \A k \in DOMAIN all : k \in DOMAIN node /\ all[k] = node[k]
      BY <3>1
    <3>. QED  BY <1>0, <3>1, <3>2, Zenon
  <2>. QED  BY <2>1, <2>2
<1>4. fresh.count = 0
  OBVIOUS
<1> HIDE DEF all, fresh
<1>5. n \in DOMAIN all /\ all[n] \in NodeRecord /\ all[n].topic = t
  BY <1>3
<1>6. n \notin DOMAIN node => show
  BY <1>3, <1>4, <1>5
<1> HIDE DEF n, show
<1>7. p \in {x[2] : x \in ViewMessages} \cup {<<>>}
  OBVIOUS
<1> DEFINE c == [all[n] EXCEPT !.count = @ + 1, !.ts = stamp', !.payload = IF show THEN p ELSE @,
                               !.shown_at = IF show THEN stamp' ELSE @]
<1>8. /\ c \in NodeRecord
      /\ c.shown_at = IF show THEN stamp' ELSE all[n].shown_at
      /\ c.payload = IF show THEN p ELSE all[n].payload
      /\ c.ts = stamp'
  BY <1>1, <1>5, <1>7 DEF NodeRecord
<1>9. node' = [all EXCEPT ![n] = c]
  BY <1>1, <1>5 DEF NodeRecord
<1> HIDE DEF c
<1>10. node' \in Seq(NodeRecord) /\ DOMAIN node' = DOMAIN all
  BY <1>3, <1>5, <1>8, <1>9, ExceptSeq
<1>11. ASSUME NEW k \in DOMAIN node'
       PROVE  \/ node'[k].shown_at = stamp + 1
              \/ /\ k \in DOMAIN node
                 /\ node'[k].shown_at = node[k].shown_at
                 /\ node'[k].payload = node[k].payload
  <2>1. CASE k = n
    <3>1. node'[k] = c
      BY <1>3, <1>5, <1>9, <1>10, <2>1
    <3>2. CASE show
      BY <1>1, <1>8, <3>1, <3>2
    <3>3. CASE ~show
      BY <1>3, <1>6, <1>8, <1>10, <2>1, <3>1, <3>3
    <3>. QED  BY <3>2, <3>3
  <2>2. CASE k # n
    <3>1. node'[k] = all[k]
      BY <1>9, <1>10, <2>2
    <3>2. k \in DOMAIN node
      BY <1>3, <1>5, <1>10, <2>2
    <3>. QED  BY <1>3, <1>10, <2>2, <3>1, <3>2
  <2>. QED  BY <2>1, <2>2
<1>12. ASSUME NEW k \in DOMAIN node'
       PROVE  \/ node'[k].ts = stamp + 1
              \/ k \in DOMAIN node /\ node'[k].ts = node[k].ts /\ node'[k].payload = node[k].payload
  <2>1. CASE k = n
    BY <1>1, <1>3, <1>5, <1>8, <1>9, <1>10, <2>1
  <2>2. CASE k # n
    <3>1. node'[k] = all[k]
      BY <1>9, <1>10, <2>2
    <3>2. k \in DOMAIN node
      BY <1>3, <1>5, <1>10, <2>2
    <3>. QED  BY <1>3, <1>10, <2>2, <3>1, <3>2
  <2>. QED  BY <2>1, <2>2
<1>. QED  BY <1>3, <1>10, <1>11, <1>12

(* What a message makes of the ring: records leave, and one comes with the *)
(* new stamp.                                                              *)
LEMMA MessageRing ==
    ASSUME ViewInv, NEW m \in ViewMessages, NEW due \in BOOLEAN,
           MessageDrained(m[1], m[2], due)
    PROVE  /\ InStampOrder(ring', stamp + 1)
           /\ \A k \in DOMAIN ring' : \/ \E l \in DOMAIN ring : ring'[k] = ring[l]
                                      \/ ring'[k].ts = stamp + 1
<1> DEFINE old == IF Len(ring) = RingCapacity THEN Tail(ring) ELSE ring
           used == {old[i].ptr : i \in DOMAIN old}
           ptr == CHOOSE b \in 1..(RingCapacity + 1) : b \notin used /\ \A c \in 1..(b - 1) : c \in used
           x == [topic |-> m[1], ts |-> stamp', payload |-> m[2], ptr |-> ptr]
<1>1. stamp \in Nat /\ stamp' = stamp + 1 /\ InStampOrder(ring, stamp)
  BY DEF MessageDrained, ViewInv
<1>2. ring' = Append(old, x)
  BY DEF MessageDrained, Remembered
<1>3. x.ts = stamp + 1
  BY <1>1
<1> HIDE DEF x
<1>4. InStampOrder(old, stamp) /\ \A k \in DOMAIN old : \E l \in DOMAIN ring : old[k] = ring[l]
  <2>1. CASE Len(ring) = RingCapacity
    <3>1. ring # <<>>
      BY <2>1, InspectorAssumption
    <3>2. /\ InStampOrder(Tail(ring), stamp)
          /\ \A k \in DOMAIN Tail(ring) : \E l \in DOMAIN ring : Tail(ring)[k] = ring[l]
      BY ONLY <1>1, <1>3, <3>1, PushedOrder
    <3>. QED  BY <2>1, <3>2
  <2>2. CASE Len(ring) # RingCapacity
    BY <1>1, <2>2
  <2>. QED  BY <2>1, <2>2
<1> HIDE DEF old
<1>5. /\ InStampOrder(Append(old, x), stamp + 1)
      /\ \A k \in DOMAIN Append(old, x) : \/ \E l \in DOMAIN old : Append(old, x)[k] = old[l]
                                          \/ Append(old, x)[k] = x
  BY ONLY <1>1, <1>3, <1>4, PushedOrder
<1>6. \A k \in DOMAIN ring' : (\E l \in DOMAIN old : ring'[k] = old[l]) \/ ring'[k] = x
  BY <1>2, <1>5
<1>. QED  BY <1>2, <1>3, <1>4, <1>5, <1>6

(* A drained message leaves no cache entry that could be taken for it. *)
LEMMA MessageView ==
    ASSUME ViewInv, NEW m \in ViewMessages, NEW due \in BOOLEAN,
           MessageDrained(m[1], m[2], due)
    PROVE  ViewInv'
<1>1. /\ stamp \in Nat /\ stamp' = stamp + 1 /\ ringGen' = ringGen + 1
      /\ UNCHANGED <<sel, pp, hist>>
  BY DEF MessageDrained, ViewInv
<1>2. /\ node' \in Seq(NodeRecord) /\ DOMAIN node \subseteq DOMAIN node'
      /\ \A k \in DOMAIN node' :
           \/ node'[k].shown_at = stamp + 1
           \/ /\ k \in DOMAIN node
              /\ node'[k].shown_at = node[k].shown_at
              /\ node'[k].payload = node[k].payload
  BY MessageNodes, Zenon
<1>3. NodesOk(node', stamp')
  <2>1. \A k \in DOMAIN node : node[k].shown_at <= stamp /\ node[k].shown_at \in Nat
    <3>1. \A k \in DOMAIN node : node[k] \in NodeRecord
      BY DEF ViewInv, NodesOk
    <3>. QED  BY <3>1 DEF ViewInv, NodesOk, NodeRecord
  <2>2. \A k \in DOMAIN node' : node'[k].shown_at <= stamp + 1
    BY <1>1, <1>2, <2>1
  <2>. QED  BY <1>1, <1>2, <2>2 DEF NodesOk
<1>4. InStampOrder(ring', stamp')
  BY <1>1, MessageRing
<1>5. pp.key \in Nat /\ pp.key <= stamp + 1 /\ pp.key # stamp + 1
  BY <1>1 DEF ViewInv, CacheOk
<1>6. LinesOfRecord(pp, ring')
  <2>1. LinesOfRecord(pp, ring)
    BY DEF ViewInv, CacheOk
  <2>2. \A k \in DOMAIN ring' : (\E l \in DOMAIN ring : ring'[k] = ring[l]) \/ ring'[k].ts # pp.key
    BY <1>5, MessageRing
  <2>. QED  BY <2>1, <2>2, FewerRecords
<1>7. LinesOfNode(pp, node')
  <2>1. LinesOfNode(pp, node)
    BY DEF ViewInv, CacheOk
  <2>. QED  BY <1>2, <1>5, <2>1 DEF LinesOfNode
<1>8. CacheOk(pp', node', ring', stamp')
  BY <1>1, <1>5, <1>6, <1>7 DEF CacheOk
<1>9. RowsOk(hist', node', ring', ringGen')
  BY <1>1 DEF ViewInv, RowsOk
<1>. QED  BY <1>1, <1>2, <1>3, <1>4, <1>8, <1>9 DEF ViewInv

(* Clear History empties a payload and shifts the ring, and no cache entry *)
(* is taken for what is left.                                              *)
LEMMA ClearView == ASSUME ViewInv, ClearTopic PROVE ViewInv'
<1> DEFINE K == {k \in DOMAIN ring : ring[k].topic # node[sel].topic}
<1>1. /\ stamp \in Nat /\ sel \in DOMAIN node /\ ring' = Kept(ring, K)
      /\ ringGen' = IF Len(ring') < Len(ring) THEN ringGen + 1 ELSE ringGen
      /\ node' = [node EXCEPT ![sel].count = 0, ![sel].payload = <<>>]
      /\ UNCHANGED <<stamp, sel, pp, hist>>
  BY DEF ClearTopic, ViewInv
<1> HIDE DEF K
<1>2. node \in Seq(NodeRecord) /\ \A n \in DOMAIN node : node[n] \in NodeRecord
  BY DEF ViewInv, NodesOk
<1> DEFINE c == [node[sel] EXCEPT !.count = 0, !.payload = <<>>]
<1>3. /\ c \in NodeRecord /\ c.shown_at = node[sel].shown_at /\ c.topic = node[sel].topic
      /\ c.payload = <<>>
  BY <1>1, <1>2 DEF NodeRecord
<1>4. node' = [node EXCEPT ![sel] = c]
  BY <1>1, <1>2 DEF NodeRecord
<1> HIDE DEF c
<1>5. node' \in Seq(NodeRecord) /\ DOMAIN node' = DOMAIN node
  <2>1. sel \in 1 .. Len(node)
    BY <1>1, <1>2
  <2>2. [node EXCEPT ![sel] = c] \in Seq(NodeRecord)
    BY <1>2, <1>3, <2>1, ExceptSeq
  <2>. QED  BY <1>4, <2>2
<1>6. \A n \in DOMAIN node : /\ node'[n].shown_at = node[n].shown_at
                             /\ node'[n].topic = node[n].topic
                             /\ node'[n].payload = node[n].payload \/ node'[n].payload = <<>>
  BY <1>1, <1>2, <1>3, <1>4
<1>7. NodesOk(node', stamp')
  BY <1>1, <1>5, <1>6 DEF NodesOk, ViewInv
<1>8. /\ InStampOrder(ring', stamp')
      /\ \A k \in DOMAIN ring' : \E l \in DOMAIN ring : ring'[k] = ring[l]
      /\ Len(ring') < Len(ring) \/ ring' = ring
  <2>1. InStampOrder(ring, stamp)
    BY DEF ViewInv
  <2>. QED  BY <1>1, <2>1, ClearedOrder
<1>9. CacheOk(pp', node', ring', stamp')
  <2>1. LinesOfRecord(pp, ring) /\ LinesOfNode(pp, node) /\ pp.key \in Nat /\ pp.key <= stamp
    BY DEF ViewInv, CacheOk
  <2>2. LinesOfRecord(pp, ring')
    BY <1>8, <2>1, FewerRecords
  <2>3. LinesOfNode(pp, node')
    BY <1>5, <1>6, <2>1 DEF LinesOfNode
  <2>. QED  BY <1>1, <2>1, <2>2, <2>3 DEF CacheOk
<1>10. RowsOk(hist', node', ring', ringGen')
  <2>1. RowsOk(hist, node, ring, ringGen)
    BY DEF ViewInv
  <2>2. CASE Len(ring') < Len(ring)
    BY <1>1, <2>1, <2>2 DEF RowsOk
  <2>3. CASE ~(Len(ring') < Len(ring))
    <3>1. ring' = ring /\ ringGen' = ringGen
      BY <1>1, <1>8, <2>3
    <3>. QED  BY <1>1, <1>5, <1>6, <2>1, <3>1 DEF RowsOk
  <2>. QED  BY <2>2, <2>3
<1>. QED  BY <1>1, <1>5, <1>7, <1>8, <1>9, <1>10 DEF ViewInv

(* A disconnect leaves the caches behind, but with stamps and a generation *)
(* that are past.                                                          *)
LEMMA FreeView == ASSUME ViewInv, FreeTopics PROVE ViewInv'
<1>1. /\ stamp \in Nat /\ stamp' = stamp + 1 /\ node' = <<>> /\ ring' = <<>>
      /\ ringGen' = ringGen + 1 /\ sel' = 0 /\ UNCHANGED <<pp, hist>>
  BY DEF FreeTopics, ViewInv
<1>2. DOMAIN <<>> = {} /\ <<>> \in Seq({}) /\ <<>> \in Seq(NodeRecord)
  OBVIOUS
<1>3. InStampOrder(ring', stamp') /\ NodesOk(node', stamp')
  BY <1>1, <1>2 DEF InStampOrder, NodesOk
<1>4. CacheOk(pp', node', ring', stamp')
  <2>1. pp.key \in Nat /\ pp.key <= stamp + 1
    BY <1>1 DEF ViewInv, CacheOk
  <2>. QED  BY <1>1, <1>2, <2>1 DEF CacheOk, LinesOfNode, LinesOfRecord
<1>5. RowsOk(hist', node', ring', ringGen')
  BY <1>1, <1>2 DEF ViewInv, RowsOk
<1>. QED  BY <1>1, <1>3, <1>4, <1>5 DEF ViewInv

(* A selection changes no cache. *)
LEMMA SelectView == ASSUME ViewInv, NEW n \in DOMAIN node, SelectTopic(n) PROVE ViewInv'
BY DEF SelectTopic, ViewInv

(* What json_pp_run_cached returns for a node that is shown is its         *)
(* payload, and leaves the cache sound.                                    *)
LEMMA NodeLines ==
    ASSUME ViewInv, sel # 0, node[sel].payload # <<>>
    PROVE  /\ LinesShown.lines = node[sel].payload
           /\ CacheOk(LinesShown, node, ring, stamp)
<1>1. sel \in DOMAIN node /\ CacheOk(pp, node, ring, stamp)
  BY DEF ViewInv
<1>2. CASE pp.src = NodeSrc(sel) /\ pp.key = node[sel].shown_at
  BY <1>1, <1>2 DEF LinesShown, json_pp_run_cached, CacheOk, LinesOfNode
<1>3. CASE ~(pp.src = NodeSrc(sel) /\ pp.key = node[sel].shown_at)
  <2> DEFINE c == [src |-> NodeSrc(sel), key |-> node[sel].shown_at, lines |-> node[sel].payload]
  <2>1. LinesShown = c
    BY <1>3 DEF LinesShown, json_pp_run_cached
  <2>2. c.src = NodeSrc(sel) /\ c.key = node[sel].shown_at /\ c.lines = node[sel].payload
    OBVIOUS
  <2> HIDE DEF c
  <2>3. c.key \in Nat /\ c.key <= stamp
    <3>1. node[sel] \in NodeRecord /\ node[sel].shown_at <= stamp
      BY <1>1 DEF ViewInv, NodesOk
    <3>. QED  BY <2>2, <3>1 DEF NodeRecord
  <2>4. LinesOfNode(c, node)
    BY <2>2 DEF LinesOfNode, NodeSrc
  <2>5. LinesOfRecord(c, ring)
    BY <2>2 DEF LinesOfRecord, NodeSrc, RecordSrc
  <2>. QED  BY <2>1, <2>2, <2>3, <2>4, <2>5 DEF CacheOk
<1>. QED  BY <1>2, <1>3

(* The JSON view and the diff view fill the cache with what they draw. *)
LEMMA JsonView == ASSUME ViewInv, render_json_view \/ render_json_diff_view PROVE ViewInv'
<1>1. /\ sel # 0 /\ node[sel].payload # <<>> /\ pp' = LinesShown
      /\ UNCHANGED <<node, ring, ringGen, stamp, sel, hist>>
  BY DEF render_json_view, render_json_diff_view, Shows
<1>2. CacheOk(pp', node, ring, stamp)
  BY <1>1, NodeLines
<1>. QED  BY <1>1, <1>2 DEF ViewInv

(* The same for a record of the ring: no other record has its stamp. *)
LEMMA RecordLines ==
    ASSUME ViewInv, NEW k \in DOMAIN ring
    PROVE  LET c == json_pp_run_cached(RecordSrc(ring[k]), ring[k].ts, ring[k].payload)
           IN  c.lines = ring[k].payload /\ CacheOk(c, node, ring, stamp)
<1> DEFINE c == json_pp_run_cached(RecordSrc(ring[k]), ring[k].ts, ring[k].payload)
<1> SUFFICES c.lines = ring[k].payload /\ CacheOk(c, node, ring, stamp)
  OBVIOUS
<1>1. CacheOk(pp, node, ring, stamp)
  BY DEF ViewInv
<1>2. CASE pp.src = RecordSrc(ring[k]) /\ pp.key = ring[k].ts
  BY <1>1, <1>2 DEF json_pp_run_cached, CacheOk, LinesOfRecord
<1>3. CASE ~(pp.src = RecordSrc(ring[k]) /\ pp.key = ring[k].ts)
  <2>1. /\ c.src = RecordSrc(ring[k]) /\ c.key = ring[k].ts /\ c.lines = ring[k].payload
    BY <1>3 DEF json_pp_run_cached
  <2> HIDE DEF c
  <2>2. c.key \in Nat /\ c.key <= stamp
    BY <2>1 DEF ViewInv, InStampOrder
  <2>3. \A l \in DOMAIN ring : ring[l].ts = ring[k].ts => l = k
    BY SameStamp
  <2>4. LinesOfRecord(c, ring)
    BY <2>1, <2>3 DEF LinesOfRecord
  <2>5. LinesOfNode(c, node)
    BY <2>1 DEF LinesOfNode, NodeSrc, RecordSrc
  <2>. QED  BY <2>1, <2>2, <2>4, <2>5 DEF CacheOk
<1>. QED  BY <1>2, <1>3

(* To expand a row or to close it leaves the rows as they are. *)
LEMMA ExpandedRows ==
    ASSUME NEW h, NEW ns, NEW r, NEW gen, RowsOk(h, ns, r, gen), NEW ts
    PROVE  RowsOk([h EXCEPT !.expanded = ts], ns, r, gen)
<1> DEFINE g == [h EXCEPT !.expanded = ts]
<1>1. h = [node |-> h.node, gen |-> h.gen, matches |-> h.matches, expanded |-> h.expanded]
  BY DEF RowsOk
<1>2. /\ g.node = h.node /\ g.gen = h.gen /\ g.matches = h.matches
      /\ g = [node |-> g.node, gen |-> g.gen, matches |-> g.matches, expanded |-> g.expanded]
  BY <1>1
<1> HIDE DEF g
<1>3. RowsOk(g, ns, r, gen)
  BY <1>2 DEF RowsOk
<1>. QED  BY <1>3 DEF g

(* What the history view draws. *)
LEMMA HistoryView ==
    ASSUME ViewInv, render_history_view
    PROVE  /\ ViewInv'
           /\ ring # <<>> =>
                /\ hist'.matches = Matches(ring, node[sel].topic)
                /\ \A i \in DOMAIN hist'.matches :
                     LET r == ring[hist'.matches[i]]
                     IN  r.ts = hist'.expanded /\ r.payload # <<>> => pp'.lines = r.payload
<1> DEFINE expanded == IF hist.node = sel THEN hist.expanded ELSE 0
           now == IF RowsAreCurrent THEN hist
                  ELSE [node |-> sel, gen |-> ringGen, matches |-> Matches(ring, node[sel].topic),
                        expanded |-> expanded]
           open == {i \in DOMAIN now.matches : /\ now.matches[i] \in DOMAIN ring
                                               /\ ring[now.matches[i]].ts = expanded}
           k == now.matches[CHOOSE i \in open : TRUE]
           c == json_pp_run_cached(RecordSrc(ring[k]), ring[k].ts, ring[k].payload)
<1>1. /\ sel \in DOMAIN node /\ UNCHANGED <<node, ring, ringGen, stamp, sel>>
      /\ hist' = IF ring = <<>> THEN [hist EXCEPT !.expanded = expanded] ELSE now
      /\ pp' = IF ring = <<>> \/ open = {} THEN pp
               ELSE IF ring[k].payload = <<>> THEN pp ELSE c
  BY DEF render_history_view, Shows, ViewInv
<1>2. RowsOk(hist, node, ring, ringGen)
  BY DEF ViewInv
<1>3. now.matches = Matches(ring, node[sel].topic) /\ now.expanded = expanded
  <2>1. CASE RowsAreCurrent
    BY <1>1, <1>2, <2>1 DEF RowsAreCurrent, RowsOk
  <2>2. CASE ~RowsAreCurrent
    BY <2>2
  <2>. QED  BY <2>1, <2>2
<1>4. RowsOk(now, node, ring, ringGen)
  <2>1. CASE RowsAreCurrent
    BY <1>2, <2>1
  <2>2. CASE ~RowsAreCurrent
    BY <1>2, <2>2 DEF RowsOk
  <2>. QED  BY <2>1, <2>2
<1>5. RowsOk(hist', node', ring', ringGen')
  <2>1. CASE ring = <<>>
    <3>1. RowsOk([hist EXCEPT !.expanded = expanded], node, ring, ringGen)
      BY <1>2, ExpandedRows
    <3>. QED  BY <1>1, <2>1, <3>1
  <2>2. CASE ring # <<>>
    BY <1>1, <1>4, <2>2
  <2>. QED  BY <2>1, <2>2
<1>6. open # {} => k \in DOMAIN ring /\ ring[k].ts = expanded
  OBVIOUS
<1>7. k \in DOMAIN ring => c.lines = ring[k].payload /\ CacheOk(c, node, ring, stamp)
  BY RecordLines
<1> HIDE DEF k, c
<1>8. CacheOk(pp', node', ring', stamp')
  <2>1. CacheOk(pp, node, ring, stamp)
    BY DEF ViewInv
  <2>. QED  BY <1>1, <1>6, <1>7, <2>1
<1>9. ViewInv'
  BY <1>1, <1>5, <1>8 DEF ViewInv
<1>10. ASSUME ring # <<>>, NEW i \in DOMAIN now.matches, ring[now.matches[i]].ts = expanded,
              ring[now.matches[i]].payload # <<>>
       PROVE  pp'.lines = ring[now.matches[i]].payload
  <2>1. now.matches[i] \in DOMAIN ring
    BY <1>3, <1>10, RowsInRing DEF ViewInv, InStampOrder
  <2>2. i \in open
    BY <1>10, <2>1
  <2>3. k \in DOMAIN ring /\ ring[k].ts = ring[now.matches[i]].ts
    BY <1>6, <1>10, <2>2
  <2>4. k = now.matches[i]
    BY <2>1, <2>3, SameStamp
  <2>. QED  BY <1>1, <1>7, <1>10, <2>2, <2>3, <2>4
<1>11. ASSUME ring # <<>>
       PROVE  /\ hist'.matches = Matches(ring, node[sel].topic)
              /\ \A i \in DOMAIN hist'.matches :
                   LET r == ring[hist'.matches[i]]
                   IN  r.ts = hist'.expanded /\ r.payload # <<>> => pp'.lines = r.payload
  <2>1. hist' = now
    BY <1>1, <1>11
  <2>. QED  BY <1>3, <1>10, <1>11, <2>1
<1>. QED  BY <1>9, <1>11

(* A click on a row changes only which one is expanded. *)
LEMMA ExpandView == ASSUME ViewInv, NEW i, ExpandRow(i) PROVE ViewInv'
<1>1. PICK ts : hist' = [hist EXCEPT !.expanded = ts]
  BY DEF ExpandRow
<1>2. UNCHANGED <<node, ring, ringGen, stamp, sel, pp>>
  BY DEF ExpandRow
<1>3. RowsOk(hist, node, ring, ringGen)
  BY DEF ViewInv
<1>4. RowsOk(hist', node', ring', ringGen')
  BY <1>1, <1>2, <1>3, ExpandedRows
<1>. QED  BY <1>2, <1>4 DEF ViewInv

(* Every step keeps the invariant: one step of the proof per action. *)
LEMMA ViewStepInv == ViewInv /\ [ViewNext]_viewVars => ViewInv'
<1> SUFFICES ASSUME ViewInv, [ViewNext]_viewVars PROVE ViewInv'
  OBVIOUS
<1>1. ASSUME NEW m \in ViewMessages, NEW due \in BOOLEAN, MessageDrained(m[1], m[2], due)
      PROVE  ViewInv'
  BY <1>1, MessageView
<1>2. CASE ClearTopic
  BY <1>2, ClearView
<1>3. CASE FreeTopics
  BY <1>3, FreeView
<1>4. ASSUME NEW n \in DOMAIN node, SelectTopic(n) PROVE ViewInv'
  BY <1>4, SelectView
<1>5. CASE render_json_view \/ render_json_diff_view
  BY <1>5, JsonView
<1>6. CASE render_history_view
  BY <1>6, HistoryView
<1>7. ASSUME NEW i, ExpandRow(i) PROVE ViewInv'
  BY <1>7, ExpandView
<1>8. CASE UNCHANGED viewVars
  BY <1>8 DEF viewVars, ViewInv
<1>. QED  BY <1>1, <1>2, <1>3, <1>4, <1>5, <1>6, <1>7, <1>8 DEF ViewNext

(* The invariant holds in every reachable state of the inspector. *)
LEMMA ViewAlwaysInv == ViewSpec => []ViewInv
BY ViewInitInv, ViewStepInv, PTL DEF ViewSpec

(* The history view draws the newest records of the topic, and under an    *)
(* expanded row the lines of its record (inspector_widget.c:498), for      *)
(* every capacity of the ring and number of rows.                          *)
THEOREM RowsAreFresh == ViewSpec => HistoryIsFresh
<1>1. ViewInv => [render_history_view /\ ring # <<>> =>
         /\ hist'.matches = Matches(ring, node[sel].topic)
         /\ \A i \in DOMAIN hist'.matches :
              LET r == ring[hist'.matches[i]]
              IN  r.ts = hist'.expanded /\ r.payload # <<>> => pp'.lines = r.payload]_viewVars
  BY HistoryView
<1>. QED  BY <1>1, ViewAlwaysInv, PTL DEF HistoryIsFresh

-----------------------------------------------------------------------------
(* The diff view.  Its baseline is the payload the node showed with the    *)
(* stamp kept beside it, and its merged lines were made for that payload.  *)

Texts == {m[2] : m \in ViewMessages} \cup {<<>>}
TextLines == UNION {{m[2][k] : k \in DOMAIN m[2]} : m \in ViewMessages}

(* A baseline with the stamp of the node is the payload the node shows. *)
IsBaseline(d, ns) ==
    d.node \in DOMAIN ns /\ d.ts = ns[d.node].ts /\ ns[d.node].payload # <<>>
        => d.payload = ns[d.node].payload

(* Merged lines are those of some payload and the baseline. *)
IsMerged(d) ==
    d.merged = <<>> \/ \E a \in Texts :
        d.merged = diff_compute(Formatted(Head256(a)), Formatted(Head256(d.payload)))

DiffOk(d, ns, now) ==
    /\ d.ts \in Nat /\ d.ts <= now /\ d.payload \in Texts
    /\ \A n \in DOMAIN ns : ns[n].ts <= now
    /\ IsBaseline(d, ns) /\ IsMerged(d)

DiffInv == ViewInv /\ DiffOk(diff, node, stamp)

(* Payloads and what a diff looks at of them are texts. *)
LEMMA TextFacts ==
    ASSUME NEW t \in Texts
    PROVE  /\ t \in Seq(TextLines) /\ Head256(t) \in Seq(TextLines)
           /\ Len(Head256(t)) <= Len(t) /\ \A k \in 1 .. Len(Head256(t)) : Head256(t)[k] = t[k]
<1>1. t \in Seq(TextLines)
  <2>1. CASE t = <<>>
    BY <2>1
  <2>2. CASE t # <<>>
    <3>1. PICK m \in ViewMessages : t = m[2]
      BY <2>2 DEF Texts
    <3> DEFINE R == {t[k] : k \in DOMAIN t}
    <3>2. t \in Seq(R)
      BY <3>1, InspectorAssumption
    <3>3. R \subseteq TextLines
      BY <3>1 DEF TextLines
    <3>4. Len(t) \in Nat /\ DOMAIN t = 1 .. Len(t) /\ t = [k \in 1 .. Len(t) |-> t[k]]
      BY <3>2
    <3>5. \A k \in 1 .. Len(t) : t[k] \in TextLines
      BY <3>3, <3>4
    <3>6. t \in [1 .. Len(t) -> TextLines]
      BY <3>4, <3>5
    <3>. QED  BY <3>4, <3>6, SeqDef
  <2>. QED  BY <2>1, <2>2
<1> DEFINE n == IF Len(t) < DiffMaxLines THEN Len(t) ELSE DiffMaxLines
<1>2. n \in Nat /\ n <= Len(t) /\ Len(t) \in Nat
  BY <1>1, InspectorAssumption
<1>3. Head256(t) = SubSeq(t, 1, n)
  BY DEF Head256
<1> HIDE DEF n
<1>4. /\ SubSeq(t, 1, n) \in Seq(TextLines) /\ Len(SubSeq(t, 1, n)) = n
      /\ \A k \in 1 .. n : SubSeq(t, 1, n)[k] = t[k]
  BY <1>1, <1>2
<1>. QED  BY <1>1, <1>2, <1>3, <1>4

(* The payload a node shows is a text. *)
LEMMA NodeTexts == ViewInv => \A n \in DOMAIN node : node[n].payload \in Texts /\ node[n].ts \in Nat
<1> SUFFICES ASSUME ViewInv, NEW n \in DOMAIN node PROVE node[n].payload \in Texts /\ node[n].ts \in Nat
  OBVIOUS
<1>1. node[n] \in NodeRecord
  BY DEF ViewInv, NodesOk
<1>. QED  BY <1>1 DEF NodeRecord, Texts

(* What the lines of a text are compared by, one for one. *)
KeptLines == {diff_format_line(l) : l \in TextLines}

LEMMA FormattedFacts ==
    ASSUME NEW s \in Seq(TextLines)
    PROVE  /\ Formatted(s) \in Seq(KeptLines) /\ Len(Formatted(s)) = Len(s)
           /\ DOMAIN Formatted(s) = 1 .. Len(s)
           /\ \A k \in 1 .. Len(s) : Formatted(s)[k] = diff_format_line(s[k])
<1>1. Len(s) \in Nat /\ DOMAIN s = 1 .. Len(s) /\ \A k \in 1 .. Len(s) : s[k] \in TextLines
  OBVIOUS
<1>2. Formatted(s) = [k \in 1 .. Len(s) |-> diff_format_line(s[k])]
  BY <1>1 DEF Formatted
<1>3. \A k \in 1 .. Len(s) : diff_format_line(s[k]) \in KeptLines
  BY <1>1 DEF KeptLines
<1>4. Formatted(s) \in [1 .. Len(s) -> KeptLines]
  BY <1>2, <1>3
<1>5. Formatted(s) \in Seq(KeptLines)
  BY <1>1, <1>4, SeqDef
<1>. QED  BY <1>1, <1>2, <1>4, <1>5

(* The lines a diff draws for one side are those of the text of that side. *)
LEMMA SidesDrawn ==
    ASSUME NEW p \in Texts, NEW q \in Texts, NEW M,
           M = diff_compute(Formatted(Head256(p)), Formatted(Head256(q)))
    PROVE  /\ Prev(M, Formatted(Head256(p))) = Formatted(Head256(p)) /\ Curr(M, q) = Head256(q)
           /\ \A k \in DOMAIN Unmarked(M) :
                Formatted(Head256(p))[Unmarked(M)[k][1]]
                  = diff_format_line(Head256(q)[Unmarked(M)[k][2]])
           /\ Len(Unmarked(M)) = LcsLength(Formatted(Head256(p)), Formatted(Head256(q)))
<1> DEFINE h == Head256(q)
           a == Formatted(Head256(p))
           b == Formatted(h)
<1>1. /\ a \in Seq(KeptLines) /\ Len(a) \in Nat /\ DOMAIN a = 1 .. Len(a)
      /\ b \in Seq(KeptLines) /\ Len(b) \in Nat /\ Len(b) = Len(h)
      /\ \A k \in 1 .. Len(b) : b[k] = diff_format_line(h[k])
      /\ h \in Seq(TextLines) /\ \A k \in 1 .. Len(h) : h[k] = q[k]
  <2>1. Head256(p) \in Seq(TextLines) /\ h \in Seq(TextLines) /\ \A k \in 1 .. Len(h) : h[k] = q[k]
    BY TextFacts
  <2> HIDE DEF h
  <2>2. /\ a \in Seq(KeptLines) /\ b \in Seq(KeptLines) /\ Len(b) = Len(h)
        /\ \A k \in 1 .. Len(h) : b[k] = diff_format_line(h[k])
    BY <2>1, FormattedFacts
  <2> HIDE DEF a, b
  <2>. QED  BY <2>1, <2>2
<1>2. M = diff_compute(a, b)
  OBVIOUS
<1> HIDE DEF a, b, h
<1>3. Merges(M, a, b, Len(a), Len(b)) /\ Len(Unmarked(M)) = LcsLength(a, b)
  BY <1>1, <1>2, DiffMerges
<1> DEFINE P == (0 .. Len(a)) \X (0 .. Len(b))
<1>4. InCurr(M) \in Seq(P) /\ InPrev(M) \in Seq(P) /\ Unmarked(M) \in Seq(P)
  <2>1. M \in Seq(P)
    BY <1>3 DEF Merges
  <2>. QED  BY <2>1, KeptFacts DEF InCurr, InPrev, Unmarked
<1> HIDE DEF P
<1>5. Curr(M, q) = h
  <2>1. DOMAIN InCurr(M) = 1 .. Len(b) /\ \A k \in 1 .. Len(b) : InCurr(M)[k][2] = k
    BY <1>3, <1>4 DEF Merges
  <2>2. Curr(M, q) = [k \in 1 .. Len(b) |-> q[k]]
    BY <2>1 DEF Curr
  <2>. QED  BY <1>1, <2>2
<1>6. Prev(M, a) = a
  <2>1. DOMAIN InPrev(M) = 1 .. Len(a) /\ \A k \in 1 .. Len(a) : InPrev(M)[k][1] = k
    BY <1>3, <1>4 DEF Merges
  <2>2. Prev(M, a) = [k \in 1 .. Len(a) |-> a[k]]
    BY <2>1 DEF Prev
  <2>. QED  BY <1>1, <2>2
<1>7. \A k \in DOMAIN Unmarked(M) :
          a[Unmarked(M)[k][1]] = diff_format_line(h[Unmarked(M)[k][2]])
  <2>1. DOMAIN Unmarked(M) = 1 .. Len(Unmarked(M))
    BY <1>4
  <2>2. \A k \in DOMAIN Unmarked(M) :
            Unmarked(M)[k][2] \in 1 .. Len(b) /\ a[Unmarked(M)[k][1]] = b[Unmarked(M)[k][2]]
    BY <1>3, <2>1 DEF Merges
  <2>. QED  BY <1>1, <2>2
<1>. QED  BY <1>3, <1>5, <1>6, <1>7 DEF a, b, h

(* What the diff view keeps and draws. *)
LEMMA DiffDrawn ==
    ASSUME DiffInv, render_json_diff_view
    PROVE  DiffOk(diff', node', stamp') /\ DrawsDiff
<1> DEFINE p == node[sel].payload
<1>1. /\ sel # 0 /\ sel \in DOMAIN node /\ p # <<>> /\ p \in Texts /\ node[sel].ts \in Nat
      /\ UNCHANGED <<node, stamp>> /\ pp' = LinesShown /\ ViewInv
  BY NodeTexts DEF render_json_diff_view, Shows, DiffInv, ViewInv
<1>2. pp'.lines = p
  BY <1>1, NodeLines
<1>3. DiffOk(diff, node, stamp)
  BY DEF DiffInv
<1>4. node[sel].ts <= stamp
  BY <1>1, <1>3 DEF DiffOk
<1> HIDE DEF p
<1>5. CASE diff.node # sel
  <2>1. diff' = [node |-> sel, ts |-> node[sel].ts, payload |-> p, merged |-> <<>>]
    BY <1>5 DEF render_json_diff_view, NewBaseline, p
  <2>2. diff'.node = sel /\ diff'.ts = node[sel].ts /\ diff'.payload = p /\ diff'.merged = <<>>
    BY <2>1
  <2>3. DiffOk(diff', node', stamp')
    BY <1>1, <1>3, <1>4, <2>2 DEF DiffOk, IsBaseline, IsMerged, p
  <2>. QED  BY <2>2, <2>3 DEF DrawsDiff
<1>6. CASE diff.node = sel /\ diff.ts # node[sel].ts
  <2> DEFINE was == Formatted(Head256(diff.payload))
             M == diff_compute(was, Formatted(Head256(p)))
  <2>1. diff' = [node |-> sel, ts |-> node[sel].ts, payload |-> p, merged |-> M]
    BY <1>2, <1>6 DEF render_json_diff_view, p
  <2>2. diff'.node = sel /\ diff'.ts = node[sel].ts /\ diff'.payload = p /\ diff'.merged = M
    BY <2>1
  <2>3. diff.payload \in Texts
    BY <1>3 DEF DiffOk
  <2>4. /\ Prev(M, was) = was /\ Curr(M, p) = Head256(p)
        /\ \A k \in DOMAIN Unmarked(M) :
             was[Unmarked(M)[k][1]] = diff_format_line(Head256(p)[Unmarked(M)[k][2]])
        /\ Len(Unmarked(M)) = LcsLength(was, Formatted(Head256(p)))
    BY <1>1, <2>3, SidesDrawn
  <2>5. IsMerged(diff')
    BY <2>2, <2>3 DEF IsMerged
  <2> HIDE DEF M
  <2>6. DiffOk(diff', node', stamp')
    BY <1>1, <1>3, <1>4, <2>2, <2>5 DEF DiffOk, IsBaseline, p
  <2>. QED  BY <1>2, <2>2, <2>4, <2>6 DEF DrawsDiff, p
<1>7. CASE diff.node = sel /\ diff.ts = node[sel].ts
  <2>1. diff' = diff
    BY <1>7 DEF render_json_diff_view
  <2>2. diff.payload = p
    BY <1>1, <1>3, <1>7 DEF DiffOk, IsBaseline, p
  <2>3. diff.merged # <<>> => Curr(diff.merged, p) = Head256(p)
    <3>1. IsMerged(diff)
      BY <1>3 DEF DiffOk
    <3>2. ASSUME diff.merged # <<>> PROVE Curr(diff.merged, p) = Head256(p)
      <4>1. PICK a \in Texts :
               diff.merged = diff_compute(Formatted(Head256(a)), Formatted(Head256(p)))
        BY <2>2, <3>1, <3>2 DEF IsMerged
      <4>. QED  BY <1>1, <4>1, SidesDrawn
    <3>. QED  BY <3>2
  <2>4. DiffOk(diff', node', stamp')
    BY <1>1, <1>3, <2>1
  <2>. QED  BY <1>2, <2>1, <2>3, <2>4 DEF DrawsDiff, p
<1>. QED  BY <1>5, <1>6, <1>7

(* A message changes a payload only together with its stamp, and no stamp  *)
(* comes twice: the baseline of an address that is used again is not       *)
(* taken for the new node's.                                               *)
LEMMA MessageDiff ==
    ASSUME DiffInv, NEW m \in ViewMessages, NEW due \in BOOLEAN,
           MessageDrained(m[1], m[2], due)
    PROVE  DiffOk(diff', node', stamp')
<1>1. /\ ViewInv /\ stamp \in Nat /\ stamp' = stamp + 1 /\ diff' = diff /\ DiffOk(diff, node, stamp)
  BY DEF MessageDrained, ViewInv, DiffInv
<1>2. \A k \in DOMAIN node' :
          \/ node'[k].ts = stamp + 1
          \/ k \in DOMAIN node /\ node'[k].ts = node[k].ts /\ node'[k].payload = node[k].payload
  BY <1>1, MessageNodes
<1>3. \A k \in DOMAIN node : node[k].ts \in Nat /\ node[k].ts <= stamp
  BY <1>1, NodeTexts DEF DiffOk
<1>4. \A k \in DOMAIN node' : node'[k].ts <= stamp + 1
  BY <1>1, <1>2, <1>3
<1>5. IsBaseline(diff, node')
  <2>1. diff.ts # stamp + 1 /\ IsBaseline(diff, node)
    BY <1>1 DEF DiffOk
  <2>. QED  BY <1>2, <2>1 DEF IsBaseline
<1>. QED  BY <1>1, <1>4, <1>5 DEF DiffOk

(* Clear History empties the payload and leaves its stamp. *)
LEMMA ClearDiff == ASSUME DiffInv, ClearTopic PROVE DiffOk(diff', node', stamp')
<1>1. /\ ViewInv /\ DiffOk(diff, node, stamp) /\ sel \in DOMAIN node
      /\ node' = [node EXCEPT ![sel].count = 0, ![sel].payload = <<>>]
      /\ UNCHANGED <<stamp, diff>>
  BY DEF ClearTopic, DiffInv, ViewInv
<1>2. node[sel] \in NodeRecord /\ DOMAIN node' = DOMAIN node
  BY <1>1 DEF ViewInv, NodesOk
<1>3. \A n \in DOMAIN node : /\ node'[n].ts = node[n].ts
                             /\ node'[n].payload = node[n].payload \/ node'[n].payload = <<>>
  BY <1>1, <1>2 DEF NodeRecord
<1>4. IsBaseline(diff, node')
  BY <1>1, <1>2, <1>3 DEF DiffOk, IsBaseline
<1>. QED  BY <1>1, <1>2, <1>3, <1>4 DEF DiffOk

(* A disconnect leaves the baseline behind, and no node to take it for. *)
LEMMA FreeDiff == ASSUME DiffInv, FreeTopics PROVE DiffOk(diff', node', stamp')
<1>1. /\ DiffOk(diff, node, stamp) /\ stamp \in Nat /\ stamp' = stamp + 1 /\ node' = <<>> /\ diff' = diff
  BY DEF FreeTopics, DiffInv, ViewInv
<1>2. DOMAIN node' = {}
  BY <1>1
<1>. QED  BY <1>1, <1>2 DEF DiffOk, IsBaseline

(* Every step keeps the invariant of the diff view. *)
LEMMA DiffStepInv == DiffInv /\ [ViewNext]_viewVars => DiffInv'
<1> SUFFICES ASSUME DiffInv, [ViewNext]_viewVars PROVE DiffOk(diff', node', stamp')
  BY ViewStepInv DEF DiffInv
<1>0. DiffOk(diff, node, stamp)
  BY DEF DiffInv
<1>1. ASSUME NEW m \in ViewMessages, NEW due \in BOOLEAN, MessageDrained(m[1], m[2], due)
      PROVE  DiffOk(diff', node', stamp')
  BY <1>1, MessageDiff
<1>2. CASE ClearTopic
  BY <1>2, ClearDiff
<1>3. CASE FreeTopics
  BY <1>3, FreeDiff
<1>4. ASSUME NEW n \in DOMAIN node, SelectTopic(n) PROVE DiffOk(diff', node', stamp')
  BY <1>0, <1>4 DEF SelectTopic
<1>5. CASE render_json_view \/ render_history_view
  BY <1>0, <1>5 DEF render_json_view, render_history_view
<1>6. CASE render_json_diff_view
  BY <1>6, DiffDrawn
<1>7. ASSUME NEW i, ExpandRow(i) PROVE DiffOk(diff', node', stamp')
  BY <1>0, <1>7 DEF ExpandRow
<1>8. CASE UNCHANGED viewVars
  BY <1>0, <1>8 DEF viewVars
<1>. QED  BY <1>1, <1>2, <1>3, <1>4, <1>5, <1>6, <1>7, <1>8 DEF ViewNext

(* Nothing is compared yet. *)
LEMMA DiffInitInv == ViewInit => DiffInv
<1> SUFFICES ASSUME ViewInit PROVE DiffOk(diff, node, stamp)
  BY ViewInitInv DEF DiffInv
<1>1. /\ node = <<>> /\ stamp = 0
      /\ diff = [node |-> 0, ts |-> 0, payload |-> <<>>, merged |-> <<>>]
  BY DEF ViewInit
<1>2. DOMAIN node = {} /\ diff.ts = 0 /\ diff.payload = <<>> /\ diff.merged = <<>>
  BY <1>1
<1>. QED  BY <1>1, <1>2 DEF DiffOk, IsBaseline, IsMerged, Texts

(* What a frame draws is the payload the node shows, whatever the shared   *)
(* cache was filled with before, plain or merged with the baseline that is *)
(* kept for the node's address: each line of both once and in order, and   *)
(* unmarked exactly as many as the two have in common as far as lines are  *)
(* compared (inspector_widget.c:51), for every two texts, every number of  *)
(* lines and length of line compared and whatever came before.             *)
THEOREM DiffsAreExact == ViewSpec => DiffIsExact
<1>1. DiffInv => [DrawsPayload /\ DrawsDiff]_viewVars
  <2> SUFFICES ASSUME DiffInv PROVE DrawsPayload /\ DrawsDiff
    OBVIOUS
  <2>1. DrawsPayload
    BY NodeLines DEF DiffInv, DrawsPayload, render_json_view, render_json_diff_view, Shows
  <2>2. CASE render_json_diff_view
    BY <2>1, <2>2, DiffDrawn
  <2>3. CASE ~render_json_diff_view
    BY <2>1, <2>3 DEF DrawsDiff
  <2>. QED  BY <2>2, <2>3
<1>. QED  BY <1>1, DiffInitInv, DiffStepInv, PTL DEF ViewSpec, DiffIsExact

-----------------------------------------------------------------------------
(* The formatter.  A sequence is known by its length, for its elements are *)
(* records of several shapes.                                              *)

IsSeq(s) == Len(s) \in Nat /\ s = [k \in 1 .. Len(s) |-> s[k]]

(* A sequence known by its length is one over its elements. *)
LEMMA IsSeqIn == ASSUME NEW s, IsSeq(s) PROVE s \in Seq({s[k] : k \in 1 .. Len(s)}) /\ DOMAIN s = 1 .. Len(s)
<1> DEFINE R == {s[k] : k \in 1 .. Len(s)}
           n == Len(s)
<1>1. n \in Nat /\ s = [k \in 1 .. n |-> s[k]] /\ \A k \in 1 .. n : s[k] \in R
  BY DEF IsSeq
<1> HIDE DEF R, n
<1>2. s \in [1 .. n -> R] /\ DOMAIN s = 1 .. n
  BY <1>1
<1>3. s \in Seq(R)
  BY <1>1, <1>2, SeqDef
<1>. QED  BY <1>2, <1>3 DEF R, n

(* Every sequence is one by its length and elements. *)
LEMMA IsSeqFrom == ASSUME NEW S, NEW s \in Seq(S) PROVE IsSeq(s)
BY DEF IsSeq

(* A sequence with one more element. *)
LEMMA SeqAppended ==
    ASSUME NEW s, IsSeq(s), NEW x
    PROVE  /\ IsSeq(Append(s, x)) /\ Len(Append(s, x)) = Len(s) + 1
           /\ Append(s, x)[Len(s) + 1] = x
           /\ \A k \in 1 .. Len(s) : Append(s, x)[k] = s[k]
<1> DEFINE S == {s[k] : k \in 1 .. Len(s)} \cup {x}
<1>1. \A k \in 1 .. Len(s) : s[k] \in S
  OBVIOUS
<1>2. x \in S
  OBVIOUS
<1> HIDE DEF S
<1>3. s \in Seq(S)
  BY <1>1, SeqDef DEF IsSeq
<1>4. Append(s, x) \in Seq(S) /\ Len(Append(s, x)) = Len(s) + 1 /\ Append(s, x)[Len(s) + 1] = x
      /\ \A k \in 1 .. Len(s) : Append(s, x)[k] = s[k]
  BY <1>2, <1>3, AppendProperties
<1>. QED  BY <1>4, IsSeqFrom

(* A sequence without its last element. *)
LEMMA SeqShortened ==
    ASSUME NEW s, IsSeq(s), s # <<>>
    PROVE  LET t == SubSeq(s, 1, Len(s) - 1)
           IN  /\ IsSeq(t) /\ Len(t) = Len(s) - 1
               /\ \A k \in 1 .. (Len(s) - 1) : t[k] = s[k]
<1> DEFINE S == {s[k] : k \in 1 .. Len(s)}
           t == SubSeq(s, 1, Len(s) - 1)
<1>1. s \in Seq(S)
  BY IsSeqIn
<1> HIDE DEF S
<1>2. Len(s) \in Nat /\ Len(s) > 0
  BY <1>1, EmptySeq
<1>3. t \in Seq(S) /\ Len(t) = Len(s) - 1 /\ \A k \in 1 .. (Len(s) - 1) : t[k] = s[k]
  <2> DEFINE n == Len(s) - 1
  <2>1. n \in Nat /\ n <= Len(s)
    BY <1>2
  <2> HIDE DEF n
  <2>2. /\ SubSeq(s, 1, n) \in Seq(S) /\ Len(SubSeq(s, 1, n)) = n
        /\ \A k \in 1 .. n : SubSeq(s, 1, n)[k] = s[k]
    BY <1>1, <1>2, <2>1
  <2>. QED  BY <2>2 DEF n
<1>. QED  BY <1>3, IsSeqFrom

(* A sequence is not empty when it has a length. *)
LEMMA SeqNotEmpty == ASSUME NEW s, IsSeq(s) PROVE s # <<>> <=> Len(s) > 0
<1>1. s \in Seq({s[k] : k \in 1 .. Len(s)})
  BY IsSeqIn
<1>. QED  BY <1>1, EmptySeq

Replaced(s, i, x) == [s EXCEPT ![i] = x]

(* A sequence with another element in one place. *)
LEMMA SeqReplaced ==
    ASSUME NEW s, IsSeq(s), NEW i \in 1 .. Len(s), NEW x
    PROVE  /\ IsSeq(Replaced(s, i, x)) /\ Len(Replaced(s, i, x)) = Len(s) /\ Replaced(s, i, x)[i] = x
           /\ \A k \in 1 .. Len(s) : k # i => Replaced(s, i, x)[k] = s[k]
<1> DEFINE t == Replaced(s, i, x)
           S == {s[k] : k \in 1 .. Len(s)} \cup {x}
           n == Len(s)
<1>1. n \in Nat /\ s = [k \in 1 .. n |-> s[k]] /\ DOMAIN s = 1 .. n
  BY IsSeqIn DEF IsSeq
<1>2. \A k \in 1 .. n : s[k] \in S
  OBVIOUS
<1>3. x \in S
  OBVIOUS
<1> HIDE DEF S, n
<1>4. t \in [1 .. n -> S] /\ t[i] = x /\ \A k \in 1 .. n : k # i => t[k] = s[k]
  BY <1>1, <1>2, <1>3 DEF n, Replaced
<1> HIDE DEF t
<1>5. t \in Seq(S) /\ DOMAIN t = 1 .. n
  BY <1>1, <1>4, SeqDef
<1>6. Len(t) = n
  BY <1>1, <1>5, LenProperties
<1>. QED  BY <1>4, <1>5, <1>6, IsSeqFrom DEF n, t

-----------------------------------------------------------------------------
(* The cursor.                                                             *)

IsFrame(f, n) ==
    /\ DOMAIN f = {"kind", "idx", "key", "mark", "before"}
    /\ f.kind \in {"{", "["}
    /\ f.before \in Nat /\ f.before <= n + 1

JsonTypes ==
    /\ IsSeq(src) /\ pos \in Nat /\ 1 <= pos /\ pos <= Len(src) + 2
    /\ IsSeq(frames) /\ \A d \in 1 .. Len(frames) : IsFrame(frames[d], Len(src))
    /\ ppStep \in {"idle", "value", "after", "loop", "done"}
    /\ ppStep = "loop" => frames # <<>>
    /\ ppStep \in {"idle", "done"} => frames = <<>>

(* Containers entered began before the cursor, the innermost one perhaps   *)
(* at it.                                                                  *)
CursorPast ==
    /\ \A d \in 1 .. (Len(frames) - 1) : frames[d].before < pos
    /\ ppStep \in {"value", "after"} /\ frames # <<>> => Top.before <= pos

CursorInv == JsonTypes /\ CursorPast

(* A step that keeps the containers or changes the innermost one only. *)
LEMMA SameFrames ==
    ASSUME CursorInv, UNCHANGED <<src, frames>>, ppStep \in {"value", "after"},
           ppStep' \in {"value", "after"}, pos' \in Nat, pos <= pos', pos' <= Len(src) + 2
    PROVE  CursorInv'
<1>1. Len(frames) \in Nat /\ \A d \in 1 .. Len(frames) : frames[d].before \in Nat
  BY DEF CursorInv, JsonTypes, IsSeq, IsFrame
<1>2. frames # <<>> => Len(frames) \in 1 .. Len(frames)
  BY <1>1, SeqNotEmpty DEF CursorInv, JsonTypes
<1>3. pos \in Nat /\ 1 <= pos
  BY DEF CursorInv, JsonTypes
<1>4. CursorPast'
  BY <1>1, <1>2, <1>3 DEF CursorInv, CursorPast, Top
<1>5. JsonTypes'
  <2>1. /\ IsSeq(src) /\ IsSeq(frames) /\ \A d \in 1 .. Len(frames) : IsFrame(frames[d], Len(src))
    BY DEF CursorInv, JsonTypes
  <2>. QED  BY <1>3, <2>1 DEF JsonTypes
<1>. QED  BY <1>4, <1>5 DEF CursorInv

(* A step that changes the innermost container. *)
LEMMA TopReplaced ==
    ASSUME CursorInv, frames # <<>>, NEW f, IsFrame(f, Len(src)), UNCHANGED src,
           frames' = [frames EXCEPT ![Len(frames)] = f],
           ppStep' \in {"value", "loop"}, ppStep' = "value" => f.before <= pos',
           pos' \in Nat, pos <= pos', pos' <= Len(src) + 2
    PROVE  CursorInv' /\ Len(frames') = Len(frames) /\ Top' = f /\ frames' # <<>>
<1> DEFINE n == Len(frames)
<1>1. n \in Nat /\ n > 0 /\ \A d \in 1 .. n : IsFrame(frames[d], Len(src))
  BY SeqNotEmpty DEF CursorInv, JsonTypes, IsSeq
<1>2. /\ IsSeq(frames') /\ Len(frames') = n /\ frames'[n] = f
      /\ \A d \in 1 .. n : d # n => frames'[d] = frames[d]
  <2>1. IsSeq(frames) /\ n \in 1 .. n
    BY <1>1 DEF CursorInv, JsonTypes
  <2>2. frames' = Replaced(frames, n, f)
    BY DEF Replaced
  <2>. QED  BY ONLY <2>1, <2>2, SeqReplaced DEF n
<1> HIDE DEF n
<1>3. \A d \in 1 .. n : IsFrame(frames'[d], Len(src))
  BY <1>1, <1>2
<1>4. frames' # <<>>
  BY <1>1, <1>2, SeqNotEmpty
<1>5. pos \in Nat /\ 1 <= pos
  BY DEF CursorInv, JsonTypes
<1>6. JsonTypes'
  BY <1>2, <1>3, <1>4, <1>5 DEF CursorInv, JsonTypes
<1>7. \A d \in 1 .. (n - 1) : frames'[d].before < pos'
  <2>1. \A d \in 1 .. (n - 1) : d \in 1 .. n /\ d # n
    BY <1>1
  <2>2. \A d \in 1 .. (n - 1) : frames[d].before < pos /\ frames[d].before \in Nat
    BY <1>1, <2>1 DEF CursorInv, CursorPast, IsFrame, n
  <2>. QED  BY <1>2, <1>5, <2>1, <2>2
<1>8. CursorPast'
  BY <1>2, <1>7 DEF CursorPast, Top
<1>. QED  BY <1>2, <1>4, <1>6, <1>8 DEF CursorInv, Top, n

(* The innermost container is one. *)
LEMMA TopFacts ==
    ASSUME CursorInv, frames # <<>>
    PROVE  /\ Len(frames) \in Nat /\ Len(frames) > 0 /\ IsFrame(Top, Len(src))
           /\ Len(frames) \in 1 .. Len(frames)
BY SeqNotEmpty DEF CursorInv, JsonTypes, IsSeq, Top

(* The end of a string or atom lies in the input. *)
LEMMA ScannedFacts ==
    ASSUME CursorInv, pos <= Len(src)
    PROVE  Scanned \in Nat /\ pos < Scanned /\ Scanned <= Len(src) + 1
BY DEF CursorInv, JsonTypes, IsSeq, Scanned

(* A frame with other fields is a frame. *)
Member(f, x, y, b) == [f EXCEPT !.key = x, !.mark = y, !.before = b]
Element(f, y, b) == [f EXCEPT !.mark = y, !.before = b]

(* The frame of an object at its next member. *)
LEMMA FrameMember ==
    ASSUME NEW f, NEW n, IsFrame(f, n), NEW x, NEW y, NEW b \in Nat, b <= n + 1
    PROVE  /\ IsFrame(Member(f, x, y, b), n) /\ Member(f, x, y, b).before = b
           /\ Member(f, x, y, b).kind = f.kind /\ Member(f, x, y, b).mark = y
<1> DEFINE g == Member(f, x, y, b)
           D == {"kind", "idx", "key", "mark", "before"}
<1>1. DOMAIN f = D /\ f.kind \in {"{", "["}
  BY DEF IsFrame
<1>2. DOMAIN g = D
  BY ONLY <1>1 DEF g, D, Member
<1>3. g.kind = f.kind /\ g.before = b /\ g.mark = y
  BY ONLY <1>1 DEF g, D, Member
<1> HIDE DEF g
<1>4. IsFrame(g, n)
  BY <1>1, <1>2, <1>3 DEF IsFrame
<1>. QED  BY <1>3, <1>4 DEF g

(* The frame of an array at its next element. *)
LEMMA FrameElement ==
    ASSUME NEW f, NEW n, IsFrame(f, n), NEW y, NEW b \in Nat, b <= n + 1
    PROVE  /\ IsFrame(Element(f, y, b), n) /\ Element(f, y, b).before = b
           /\ Element(f, y, b).kind = f.kind /\ Element(f, y, b).mark = y
<1> DEFINE g == Element(f, y, b)
           D == {"kind", "idx", "key", "mark", "before"}
<1>1. DOMAIN f = D /\ f.kind \in {"{", "["}
  BY DEF IsFrame
<1>2. DOMAIN g = D
  BY ONLY <1>1 DEF g, D, Element
<1>3. g.kind = f.kind /\ g.before = b /\ g.mark = y
  BY ONLY <1>1 DEF g, D, Element
<1> HIDE DEF g
<1>4. IsFrame(g, n)
  BY <1>1, <1>2, <1>3 DEF IsFrame
<1>. QED  BY <1>3, <1>4 DEF g

(* The frame of an array behind an element. *)
LEMMA FrameIdx ==
    ASSUME NEW f, NEW n, IsFrame(f, n), NEW e
    PROVE  LET g == [f EXCEPT !.idx = e]
           IN  IsFrame(g, n) /\ g.before = f.before /\ g.kind = f.kind /\ g.mark = f.mark
<1> DEFINE g == [f EXCEPT !.idx = e]
           D == {"kind", "idx", "key", "mark", "before"}
<1>1. DOMAIN f = D
  BY DEF IsFrame
<1>2. DOMAIN g = D /\ g.before = f.before /\ g.kind = f.kind /\ g.mark = f.mark
  BY ONLY <1>1
<1> HIDE DEF g
<1>3. IsFrame(g, n)
  BY <1>2 DEF IsFrame
<1>. QED  BY <1>2, <1>3 DEF g

(* A cursor that has moved on, and one token further. *)
LEMMA Passed == ASSUME NEW p \in Nat, NEW q \in Nat, p <= q PROVE p \in Int /\ q + 1 \in Int /\ p + 1 <= q + 1
OBVIOUS

(* A step within a value, or into a container, takes from what is left of it. *)
LEMMA LessOfValue ==
    ASSUME NEW l \in Nat, NEW n \in Nat, NEW r \in Int, NEW s \in Int, r <= s
    PROVE  /\ 4 * (l + 2 - s) + 2 * n + 1 < 4 * (l + 2 - r) + 2 * n + 3
           /\ 4 * (l + 2 - s) + 2 * (n + 1) + 0 < 4 * (l + 2 - r) + 2 * n + 3
           /\ 4 * (l + 2 - s) + 2 * n + 0 < 4 * (l + 2 - r) + 2 * n + 1
OBVIOUS

(* A token read weighs more than the value it begins. *)
LEMMA LessOfInput ==
    ASSUME NEW l \in Nat, NEW n \in Nat, NEW r \in Int, NEW s \in Int, r + 1 <= s
    PROVE  4 * (l + 2 - s) + 2 * n + 3 < 4 * (l + 2 - r) + 2 * n + 0
OBVIOUS

(* A container left weighs more than the value it ends. *)
LEMMA LessOfFrames ==
    ASSUME NEW l \in Nat, NEW n \in Nat, NEW r \in Int, NEW s \in Int, r <= s
    PROVE  4 * (l + 2 - s) + 2 * (n - 1) + 1 < 4 * (l + 2 - r) + 2 * n + 0
OBVIOUS

(* What is left, and what is left after a step, are such numbers. *)
LEMMA RemainingIs ==
    /\ Remaining = 4 * (Len(src) + 2 - Read) + 2 * Len(frames) + LeftOfValue
    /\ Remaining' = 4 * (Len(src') + 2 - Read') + 2 * Len(frames') + LeftOfValue'
BY DEF Remaining

(* What is read, before and after a step. *)
LEMMA ReadIs ==
    /\ Read = IF ppStep \in {"value", "after"} /\ frames # <<>> /\ pos = Top.before THEN pos + 1 ELSE pos
    /\ Read' = IF ppStep' \in {"value", "after"} /\ frames' # <<>> /\ pos' = (Top').before
              THEN pos' + 1 ELSE pos'
BY DEF Read

(* A value with no container inside it. *)
LEMMA ValueStep ==
    ASSUME CursorInv, ValueNone \/ ValueScalar
    PROVE  /\ CursorInv' /\ Remaining' < Remaining
           /\ UNCHANGED <<src, frames>> /\ ppStep = "value" /\ ppStep' = "after"
<1>1. /\ UNCHANGED <<src, frames>> /\ ppStep = "value" /\ ppStep' = "after"
      /\ pos' = pos \/ (pos <= Len(src) /\ pos' = Scanned)
  BY DEF ValueNone, ValueScalar
<1>2. /\ pos \in Nat /\ pos' \in Nat /\ pos <= pos' /\ pos' <= Len(src) + 2
      /\ Len(src) \in Nat /\ Len(frames) \in Nat
  BY <1>1, ScannedFacts DEF CursorInv, JsonTypes, IsSeq
<1>3. CursorInv'
  BY <1>1, <1>2, SameFrames
<1>4. Read' \in Nat /\ Read \in Nat /\ Read <= Read'
  <2>1. Top' = Top
    BY <1>1 DEF Top
  <2>2. CASE pos' = pos
    BY <1>1, <1>2, <2>1, <2>2, ReadIs
  <2>3. CASE pos' # pos
    <3>1. pos + 1 <= pos'
      BY <1>2, <2>3
    <3>2. (Read = pos \/ Read = pos + 1) /\ (Read' = pos' \/ Read' = pos' + 1)
      BY ReadIs
    <3>3. Read \in Nat /\ Read' \in Nat /\ Read <= pos + 1 /\ pos' <= Read' /\ pos \in Nat /\ pos' \in Nat
      BY <1>2, <3>2
    <3>. QED  BY <3>1, <3>3
  <2>. QED  BY <2>2, <2>3
<1>5. LeftOfValue = 3 /\ LeftOfValue' = 1 /\ Len(src') = Len(src) /\ Len(frames') = Len(frames)
  BY <1>1 DEF LeftOfValue
<1>6. Remaining' < Remaining
  <2>1. Len(src) \in Nat /\ Len(frames) \in Nat /\ Read \in Int /\ Read' \in Int /\ Read <= Read'
    BY <1>2, <1>4
  <2>2. 4 * (Len(src) + 2 - Read') + 2 * Len(frames) + 1 < 4 * (Len(src) + 2 - Read) + 2 * Len(frames) + 3
    BY ONLY <2>1, LessOfValue
  <2>. QED  BY ONLY <1>5, <2>2, RemainingIs
<1>. QED  BY <1>1, <1>3, <1>6

(* A container is entered. *)
LEMMA OpenStep ==
    ASSUME CursorInv, ValueOpens
    PROVE  CursorInv' /\ Remaining' < Remaining
<1> DEFINE n == Len(frames)
           f == [kind |-> src[pos], idx |-> 0, key |-> "", mark |-> path, before |-> 0]
<1>1. /\ src' = src /\ ppStep = "value" /\ ppStep' = "loop" /\ frames' = Append(frames, f)
      /\ src[pos] \in {"{", "["}
  BY DEF ValueOpens
<1>0. pos' = pos + 1 /\ pos <= Len(src)
  BY DEF ValueOpens
<1>2. pos \in Nat /\ 1 <= pos /\ Len(src) \in Nat /\ n \in Nat /\ IsSeq(frames) /\ IsSeq(src)
  BY DEF CursorInv, JsonTypes, IsSeq
<1>3. IsFrame(f, Len(src))
  <2>1. f.kind = src[pos] /\ f.before = 0 /\ DOMAIN f = {"kind", "idx", "key", "mark", "before"}
    OBVIOUS
  <2> HIDE DEF f
  <2>2. f.kind \in {"{", "["}
    BY <1>1, <2>1
  <2>3. 0 <= Len(src) + 1 /\ 0 \in Nat
    BY <1>2
  <2>. QED  BY ONLY <2>1, <2>2, <2>3 DEF IsFrame
<1> HIDE DEF f
<1>4. /\ IsSeq(frames') /\ Len(frames') = n + 1 /\ frames'[n + 1] = f
      /\ \A d \in 1 .. n : frames'[d] = frames[d]
  <2>1. IsSeq(frames) /\ frames' = Append(frames, f)
    BY <1>1, <1>2
  <2>. QED  BY ONLY <2>1, SeqAppended DEF n
<1>5. \A d \in 1 .. n : IsFrame(frames[d], Len(src)) /\ frames[d].before \in Nat /\ frames[d].before <= pos
  <2>1. \A d \in 1 .. n : IsFrame(frames[d], Len(src)) /\ frames[d].before \in Nat
    BY DEF CursorInv, JsonTypes, IsFrame
  <2>2. \A d \in 1 .. (n - 1) : frames[d].before < pos
    BY DEF CursorInv, CursorPast
  <2>3. n > 0 => frames[n].before <= pos
    BY <1>1, <1>2, SeqNotEmpty DEF CursorInv, CursorPast, Top
  <2>. QED  BY <1>2, <2>1, <2>2, <2>3
<1>6. frames' # <<>>
  BY <1>2, <1>4, SeqNotEmpty
<1>7. \A d \in 1 .. (n + 1) : IsFrame(frames'[d], Len(src))
  BY <1>2, <1>3, <1>4, <1>5
<1>8. JsonTypes'
  <2>0. pos' \in Nat /\ 1 <= pos' /\ pos' <= Len(src) + 2
    BY <1>0, <1>2
  <2>1. IsSeq(src') /\ pos' \in Nat /\ 1 <= pos' /\ pos' <= Len(src') + 2 /\ Len(src') = Len(src)
    BY <1>1, <1>2, <2>0
  <2>2. \A d \in 1 .. Len(frames') : IsFrame(frames'[d], Len(src'))
    BY <1>4, <1>7, <2>1
  <2>3. ppStep' = "loop"
    BY <1>1
  <2> HIDE DEF n
  <2>. QED  BY <1>4, <1>6, <2>1, <2>2, <2>3 DEF JsonTypes
<1>9. CursorPast'
  <2>1. pos' = pos + 1 /\ pos \in Nat /\ n \in Nat /\ n + 1 - 1 = n
    BY <1>0, <1>2
  <2>2. \A d \in 1 .. n : frames'[d].before < pos'
    <3> SUFFICES ASSUME NEW d \in 1 .. n PROVE frames'[d].before < pos'
      OBVIOUS
    <3> DEFINE b == frames[d].before
    <3>1. b \in Nat /\ b <= pos /\ frames'[d].before = b
      BY <1>4, <1>5
    <3> HIDE DEF b
    <3>. QED  BY <2>1, <3>1
  <2>3. \A d \in 1 .. (Len(frames') - 1) : frames'[d].before < pos'
    BY <1>4, <2>1, <2>2
  <2>4. ppStep' = "loop"
    BY <1>1
  <2>. QED  BY <2>3, <2>4 DEF CursorPast
<1>10. Read' = pos + 1 /\ Read \in Nat /\ Read <= pos + 1
  <2>1. Read' = pos' /\ (Read = pos \/ Read = pos + 1)
    BY <1>1, ReadIs
  <2>. QED  BY <1>0, <1>2, <2>1
<1>11. LeftOfValue = 3 /\ LeftOfValue' = 0
  BY <1>1 DEF LeftOfValue
<1>12. Remaining' < Remaining
  <2>1. Len(src) \in Nat /\ Len(frames) \in Nat /\ Len(src') = Len(src) /\ Len(frames') = Len(frames) + 1
        /\ Read \in Int /\ Read' \in Int /\ Read <= Read'
    <3>1. pos \in Nat
      BY <1>2
    <3>2. Read \in Int /\ Read' \in Int /\ Read <= Read'
      BY ONLY <1>10, <3>1
    <3>. QED  BY <1>1, <1>2, <1>4, <3>2
  <2>2. 4 * (Len(src) + 2 - Read') + 2 * (Len(frames) + 1) + 0
          < 4 * (Len(src) + 2 - Read) + 2 * Len(frames) + 3
    BY ONLY <2>1, LessOfValue
  <2>. QED  BY ONLY <2>1, <1>11, <2>2, RemainingIs
<1>. QED  BY <1>8, <1>9, <1>12 DEF CursorInv

(* A value returns to its container. *)
LEMMA ReturnStep ==
    ASSUME CursorInv, ValueReturns
    PROVE  CursorInv' /\ Remaining' < Remaining
<1> DEFINE e == IF Top.kind = "[" /\ Top.idx < Len(src) THEN Top.idx + 1 ELSE Top.idx
           f == [Top EXCEPT !.idx = e]
<1>1. /\ UNCHANGED src /\ ppStep = "after" /\ ppStep' = "loop" /\ frames # <<>>
      /\ pos' = IF AtToken(PastValue, ",") THEN PastValue + 1 ELSE PastValue
  BY DEF ValueReturns
<1>2. /\ pos \in Nat /\ 1 <= pos /\ pos <= Len(src) + 2 /\ Len(src) \in Nat
      /\ IsFrame(Top, Len(src)) /\ Len(frames) \in Nat /\ Len(frames) \in 1 .. Len(frames)
  BY <1>1, TopFacts DEF CursorInv, JsonTypes, IsSeq
<1>3. frames' = [frames EXCEPT ![Len(frames)] = f]
  <2>1. DOMAIN frames = 1 .. Len(frames)
    BY IsSeqIn DEF CursorInv, JsonTypes
  <2>2. frames' = [frames EXCEPT ![Len(frames)].idx =
                       IF Top.kind = "[" /\ @ < Len(src) THEN @ + 1 ELSE @]
    BY DEF ValueReturns
  <2>. QED  BY <1>2, <2>1, <2>2 DEF IsFrame, Top
<1>4. IsFrame(f, Len(src)) /\ f.before = Top.before
  BY <1>2, FrameIdx
<1>5. Top.before <= Len(src) + 1 /\ Top.before \in Nat
  BY <1>2 DEF IsFrame
<1>6. /\ PastValue \in Nat /\ pos <= PastValue /\ PastValue <= Len(src) + 2 /\ Read = PastValue
      /\ Read \in Nat
  <2>1. PastValue = IF pos = Top.before THEN pos + 1 ELSE pos
    BY DEF PastValue
  <2>2. Read = PastValue
    BY <1>1, <2>1, ReadIs
  <2>3. CASE pos = Top.before
    BY <1>2, <1>5, <2>1, <2>2, <2>3
  <2>4. CASE pos # Top.before
    BY <1>2, <2>1, <2>2, <2>4
  <2>. QED  BY <2>3, <2>4
<1>7. pos' \in Nat /\ Read <= pos' /\ pos <= pos' /\ pos' <= Len(src) + 2
  <2>1. (pos' = PastValue + 1 /\ PastValue <= Len(src)) \/ pos' = PastValue
    BY <1>1 DEF AtToken
  <2>2. Len(src) \in Nat /\ pos \in Nat
    BY <1>2
  <2>. QED  BY <2>1, <2>2, <1>6
<1> HIDE DEF f
<1>8. CursorInv' /\ Len(frames') = Len(frames)
  <2>1. ppStep' \in {"value", "loop"} /\ ~(ppStep' = "value")
    BY <1>1
  <2>. QED  BY <1>1, <1>3, <1>4, <1>7, <2>1, TopReplaced
<1>9. Read' = pos' /\ LeftOfValue = 1 /\ LeftOfValue' = 0
  BY <1>1 DEF Read, LeftOfValue
<1>10. Remaining' < Remaining
  <2>1. Len(src) \in Nat /\ Len(frames) \in Nat /\ Len(src') = Len(src) /\ Len(frames') = Len(frames)
        /\ Read \in Int /\ Read' \in Int /\ Read <= Read'
    <3>1. Read \in Nat /\ pos' \in Int /\ Read <= pos' /\ Read' = pos'
      BY <1>6, <1>7, <1>9
    <3>2. Read \in Int /\ Read' \in Int /\ Read <= Read'
      BY ONLY <3>1
    <3>. QED  BY <1>1, <1>2, <1>8, <3>2
  <2>2. LeftOfValue = 1 /\ LeftOfValue' = 0
    BY <1>9
  <2>3. 4 * (Len(src) + 2 - Read') + 2 * Len(frames) + 0 < 4 * (Len(src) + 2 - Read) + 2 * Len(frames) + 1
    BY ONLY <2>1, LessOfValue
  <2>. QED  BY ONLY <2>1, <2>2, <2>3, RemainingIs
<1>. QED  BY <1>8, <1>10

(* The next member or element. *)
LEMMA NextStep ==
    ASSUME CursorInv, NextMember \/ NextElement
    PROVE  CursorInv' /\ Remaining' < Remaining
<1>1. /\ UNCHANGED src /\ ppStep = "loop" /\ ppStep' = "value" /\ frames # <<>> /\ pos <= Len(src)
  BY DEF NextMember, NextElement, Goes, CursorInv, JsonTypes
<1>2. /\ pos \in Nat /\ 1 <= pos /\ Len(src) \in Nat
      /\ IsFrame(Top, Len(src)) /\ Len(frames) \in Nat /\ Len(frames) \in 1 .. Len(frames)
  BY <1>1, TopFacts DEF CursorInv, JsonTypes, IsSeq
<1>3. DOMAIN frames = 1 .. Len(frames)
  BY IsSeqIn DEF CursorInv, JsonTypes
<1>4. \E f : /\ frames' = [frames EXCEPT ![Len(frames)] = f] /\ IsFrame(f, Len(src)) /\ f.before = pos'
             /\ pos' \in Nat /\ pos <= pos' /\ pos' <= Len(src) + 1
  <2>1. CASE NextMember
    <3> DEFINE behind == IF IsString(src[pos]) THEN Scanned ELSE pos
               at == IF AtToken(behind, ":") THEN behind + 1 ELSE behind
               f == Member(Top, KeyAt(pos), path, at)
    <3>1. pos' = at /\ frames' = [frames EXCEPT ![Len(frames)] = f]
      BY <2>1, <1>2, <1>3 DEF NextMember, Top, Member
    <3>2. behind \in Nat /\ pos <= behind /\ behind <= Len(src) + 1
      BY <1>1, <1>2, ScannedFacts
    <3>3. at \in Nat /\ pos <= at /\ at <= Len(src) + 1
      BY <1>2, <3>2 DEF AtToken
    <3> HIDE DEF at
    <3>4. IsFrame(f, Len(src)) /\ f.before = at
      <4>1. IsFrame(Top, Len(src)) /\ at \in Nat /\ at <= Len(src) + 1
        BY <1>2, <3>3
      <4>. QED  BY ONLY <4>1, FrameMember DEF f
    <3> HIDE DEF f
    <3>5. pos' \in Nat /\ pos <= pos' /\ pos' <= Len(src) + 1
      BY <3>1, <3>3
    <3>. QED  BY <3>1, <3>4, <3>5
  <2>2. CASE NextElement
    <3> DEFINE f == Element(Top, path, pos)
    <3>1. pos' = pos /\ frames' = [frames EXCEPT ![Len(frames)] = f]
      BY <2>2, <1>2, <1>3 DEF NextElement, Top, Element
    <3>2. IsFrame(f, Len(src)) /\ f.before = pos
      <4>1. IsFrame(Top, Len(src)) /\ pos \in Nat /\ pos <= Len(src) + 1
        BY <1>1, <1>2
      <4>. QED  BY ONLY <4>1, FrameElement DEF f
    <3> HIDE DEF f
    <3>3. pos' \in Nat /\ pos <= pos' /\ pos' <= Len(src) + 1
      BY <1>1, <1>2, <3>1
    <3>. QED  BY <3>1, <3>2, <3>3
  <2>. QED  BY <2>1, <2>2
<1>5. PICK f : /\ frames' = [frames EXCEPT ![Len(frames)] = f] /\ IsFrame(f, Len(src)) /\ f.before = pos'
               /\ pos' \in Nat /\ pos <= pos' /\ pos' <= Len(src) + 1
  BY <1>4
<1>6. CursorInv' /\ Len(frames') = Len(frames) /\ Top' = f /\ frames' # <<>>
  <2>1. ppStep' \in {"value", "loop"} /\ f.before <= pos' /\ pos' <= Len(src) + 2
    BY <1>1, <1>2, <1>5
  <2>. QED  BY <1>1, <1>5, <2>1, TopReplaced
<1>7. Read' = pos' + 1 /\ Read = pos /\ LeftOfValue = 0 /\ LeftOfValue' = 3
  BY <1>1, <1>5, <1>6 DEF Read, LeftOfValue
<1>8. Remaining' < Remaining
  <2>1. Len(src) \in Nat /\ Len(frames) \in Nat /\ Len(src') = Len(src) /\ Len(frames') = Len(frames)
        /\ Read \in Int /\ Read' \in Int /\ Read + 1 <= Read'
    <3>1. pos' \in Nat /\ pos <= pos' /\ pos \in Nat
      BY <1>2, <1>5
    <3>2. Read' = pos' + 1 /\ Read = pos
      BY <1>7
    <3>3. Read \in Int /\ Read' \in Int /\ Read + 1 <= Read'
      BY ONLY <3>1, <3>2, Passed
    <3>. QED  BY <1>1, <1>2, <1>6, <3>3
  <2>2. LeftOfValue = 0 /\ LeftOfValue' = 3
    BY <1>7
  <2>3. 4 * (Len(src) + 2 - Read') + 2 * Len(frames) + 3 < 4 * (Len(src) + 2 - Read) + 2 * Len(frames) + 0
    BY ONLY <2>1, LessOfInput
  <2>. QED  BY ONLY <2>1, <2>2, <2>3, RemainingIs
<1>. QED  BY <1>6, <1>8

(* A container ends. *)
LEMMA EndStep ==
    ASSUME CursorInv, ContainerEnds
    PROVE  CursorInv' /\ Remaining' < Remaining
<1> DEFINE n == Len(frames)
<1>1. /\ UNCHANGED src /\ ppStep = "loop" /\ ppStep' = "after" /\ frames # <<>>
      /\ pos' = IF AtToken(pos, Close(Top.kind)) THEN pos + 1 ELSE pos
      /\ frames' = SubSeq(frames, 1, n - 1)
  BY DEF ContainerEnds, CursorInv, JsonTypes
<1>2. /\ pos \in Nat /\ 1 <= pos /\ pos <= Len(src) + 2 /\ Len(src) \in Nat /\ n \in Nat /\ n > 0
      /\ IsSeq(frames)
  BY <1>1, TopFacts DEF CursorInv, JsonTypes, IsSeq
<1>3. IsSeq(frames') /\ Len(frames') = n - 1 /\ \A d \in 1 .. (n - 1) : frames'[d] = frames[d]
  BY <1>1, <1>2, SeqShortened
<1>4. pos' \in Nat /\ pos <= pos' /\ pos' <= Len(src) + 2
  BY <1>1, <1>2 DEF AtToken
<1>5. \A d \in 1 .. (n - 1) : IsFrame(frames'[d], Len(src)) /\ frames'[d].before < pos'
  <2>1. \A d \in 1 .. (n - 1) : d \in 1 .. n
    BY <1>2
  <2>2. \A d \in 1 .. (n - 1) : IsFrame(frames[d], Len(src)) /\ frames[d].before < pos
    BY <2>1 DEF CursorInv, JsonTypes, CursorPast
  <2>3. \A d \in 1 .. (n - 1) : frames[d].before \in Nat
    BY <2>2 DEF IsFrame
  <2>4. pos \in Nat /\ pos' \in Nat /\ pos <= pos'
    BY <1>2, <1>4
  <2> SUFFICES ASSUME NEW d \in 1 .. (n - 1)
               PROVE  IsFrame(frames'[d], Len(src)) /\ frames'[d].before < pos'
    OBVIOUS
  <2> DEFINE b == frames[d].before
  <2>5. b \in Nat /\ b < pos /\ frames'[d] = frames[d] /\ IsFrame(frames[d], Len(src))
    BY <1>3, <2>2, <2>3
  <2> HIDE DEF b
  <2>6. b < pos'
    BY ONLY <2>4, <2>5
  <2>. QED  BY ONLY <2>5, <2>6 DEF b
<1>6. JsonTypes'
  BY <1>1, <1>2, <1>3, <1>4, <1>5 DEF JsonTypes, CursorInv
<1>7. CursorPast'
  <2>1. \A d \in 1 .. (Len(frames') - 1) : frames'[d].before < pos'
    BY <1>2, <1>3, <1>5
  <2>2. frames' # <<>> => Len(frames') \in 1 .. (n - 1)
    BY <1>2, <1>3, SeqNotEmpty
  <2>3. frames' # <<>> => (Top').before < pos' /\ (Top').before \in Nat
    <3>1. Top' = frames'[Len(frames')]
      BY DEF Top
    <3>. QED  BY <1>5, <2>2, <3>1 DEF IsFrame
  <2>. QED  BY <1>4, <2>1, <2>3 DEF CursorPast
<1>8. Read' \in Nat /\ pos' <= Read' /\ Read = pos /\ LeftOfValue = 0 /\ LeftOfValue' = 1
  BY <1>1, <1>4 DEF Read, LeftOfValue
<1>9. Remaining' < Remaining
  <2>1. Len(src) \in Nat /\ Len(frames) \in Nat /\ Len(src') = Len(src) /\ Len(frames') = Len(frames) - 1
        /\ Read \in Int /\ Read' \in Int /\ Read <= Read'
    BY <1>1, <1>2, <1>3, <1>4, <1>8
  <2>2. LeftOfValue = 0 /\ LeftOfValue' = 1
    BY <1>8
  <2>3. 4 * (Len(src) + 2 - Read') + 2 * (Len(frames) - 1) + 1
          < 4 * (Len(src) + 2 - Read) + 2 * Len(frames) + 0
    BY ONLY <2>1, LessOfFrames
  <2>. QED  BY ONLY <2>1, <2>2, <2>3, RemainingIs
<1>. QED  BY <1>6, <1>7, <1>9 DEF CursorInv

(* The run ends. *)
LEMMA RunEndStep ==
    ASSUME CursorInv, RunEnds
    PROVE  CursorInv' /\ Remaining' < Remaining
<1>1. /\ UNCHANGED <<src, pos, frames>> /\ ppStep = "after" /\ ppStep' = "done" /\ frames = <<>>
  BY DEF RunEnds
<1>2. /\ pos \in Nat /\ Len(src) \in Nat /\ Len(frames) = 0
  BY <1>1 DEF CursorInv, JsonTypes, IsSeq
<1>3. CursorInv'
  BY <1>1, <1>2 DEF CursorInv, JsonTypes, CursorPast, IsFrame
<1>4. Read' = Read /\ Read \in Nat /\ LeftOfValue = 1 /\ LeftOfValue' = 0
  BY <1>1, <1>2 DEF Read, LeftOfValue
<1>5. Remaining' < Remaining
  <2>1. Len(src) \in Nat /\ Len(frames) \in Nat /\ Len(src') = Len(src) /\ Len(frames') = Len(frames)
        /\ Read \in Int /\ Read' \in Int /\ Read <= Read' /\ LeftOfValue = 1 /\ LeftOfValue' = 0
    BY <1>1, <1>2, <1>4
  <2>2. 4 * (Len(src) + 2 - Read') + 2 * Len(frames) + 0 < 4 * (Len(src) + 2 - Read) + 2 * Len(frames) + 1
    BY ONLY <2>1, LessOfValue
  <2>. QED  BY ONLY <2>1, <2>2, RemainingIs
<1>. QED  BY <1>3, <1>5

(* What is left is a number. *)
LEMMA RemainingNat == CursorInv => Remaining \in Nat
<1> SUFFICES ASSUME CursorInv PROVE Remaining \in Nat
  OBVIOUS
<1>1. pos \in Nat /\ pos <= Len(src) + 2 /\ Len(src) \in Nat /\ Len(frames) \in Nat
  BY DEF CursorInv, JsonTypes, IsSeq
<1>2. frames # <<>> => Top.before <= Len(src) + 1 /\ Top.before \in Nat
  BY TopFacts DEF IsFrame
<1>3. Read \in Nat /\ Read <= Len(src) + 2
  BY <1>1, <1>2 DEF Read
<1>4. LeftOfValue \in Nat
  BY DEF LeftOfValue
<1>. QED  BY <1>1, <1>3, <1>4 DEF Remaining

(* Every step of the formatter. *)
LEMMA StepCursor == CursorInv /\ JsonStep => CursorInv' /\ Remaining' < Remaining
BY ValueStep, OpenStep, ReturnStep, NextStep, EndStep, RunEndStep DEF JsonStep

(* A run begins. *)
LEMMA RunCursor ==
    ASSUME NEW t \in JsonInputs, json_pp_run(t) PROVE CursorInv'
<1>1. src' = t /\ pos' = 1 /\ frames' = <<>> /\ ppStep' = "value"
  BY DEF json_pp_run
<1>2. IsSeq(src')
  BY <1>1, JsonAssumption, IsSeqFrom
<1>3. IsSeq(<<>>) /\ Len(<<>>) = 0
  BY DEF IsSeq
<1>. QED  BY <1>1, <1>2, <1>3 DEF CursorInv, JsonTypes, CursorPast, IsSeq

(* The invariant of the cursor is inductive ... *)
LEMMA CursorStepInv == CursorInv /\ [JsonNext]_jsonVars => CursorInv'
<1> SUFFICES ASSUME CursorInv, [JsonNext]_jsonVars PROVE CursorInv'
  OBVIOUS
<1>1. CASE JsonStep
  BY <1>1, StepCursor
<1>2. CASE \E t \in JsonInputs : json_pp_run(t)
  BY <1>2, RunCursor
<1>3. CASE UNCHANGED jsonVars
  BY <1>3 DEF jsonVars, CursorInv, JsonTypes, CursorPast, IsFrame, Top
<1>. QED  BY <1>1, <1>2, <1>3 DEF JsonNext

(* ... and holds before the first run. *)
LEMMA CursorInitInv == JsonInit => CursorInv
<1> SUFFICES ASSUME JsonInit PROVE CursorInv
  OBVIOUS
<1>1. src = <<>> /\ pos = 1 /\ frames = <<>> /\ ppStep = "idle"
  BY DEF JsonInit
<1>2. IsSeq(<<>>) /\ Len(<<>>) = 0
  BY DEF IsSeq
<1>. QED  BY <1>1, <1>2 DEF CursorInv, JsonTypes, CursorPast

(* Whatever the input and however long, every step of the formatter lowers *)
(* what is left to do, a number: it ends (json_pp.c:94).                   *)
THEOREM FormatterProgresses == JsonSpec => JsonProgress
<1>1. CursorInv /\ (Remaining \in Nat)' => [JsonStep => Remaining' >= 0 /\ Remaining' < Remaining]_jsonVars
  <2> SUFFICES ASSUME CursorInv, (Remaining \in Nat)', JsonStep
               PROVE Remaining' >= 0 /\ Remaining' < Remaining
    OBVIOUS
  <2>1. Remaining' < Remaining
    BY StepCursor
  <2>2. Remaining' \in Nat
    OBVIOUS
  <2>. QED  BY ONLY <2>1, <2>2
<1>. QED  BY <1>1, RemainingNat, CursorInitInv, CursorStepInv, PTL DEF JsonSpec, JsonProgress

-----------------------------------------------------------------------------
(* The lines.  The facts are about a sequence of lines s and the containers *)
(* fr that are entered, which the steps of the formatter replace.          *)

IsLine(l) == DOMAIN l = {"key", "val", "depth", "path", "comma"}

(* Brackets and DepthFollows of the lines s. *)
Pair(s, o, c) ==
    /\ o < c /\ OpensLine(s[o]) /\ s[c].val = Close(s[o].val)
    /\ s[c].depth = s[o].depth /\ s[c].path = s[o].path
    /\ \A k \in (o + 1) .. (c - 1) : s[k].depth > s[o].depth

Under(l) == IF OpensLine(l) THEN l.depth + 1 ELSE l.depth
Over(l) == IF ClosesLine(l) THEN l.depth + 1 ELSE l.depth

(* The lines are indented as a tree and the closing ones have partners. *)
Tree(s) ==
    /\ \A k \in 1 .. Len(s) : IsLine(s[k]) /\ s[k].depth \in Nat /\ s[k].depth < JsonMaxDepth
    /\ Len(s) > 0 => s[1].depth = 0
    /\ \A k \in 1 .. (Len(s) - 1) : Over(s[k + 1]) = Under(s[k])
    /\ \A c \in 1 .. Len(s) : ClosesLine(s[c]) => \E o \in 1 .. Len(s) : Pair(s, o, c)

(* Line o opened the container f at depth d, and all lines since are in it. *)
Opened(s, f, d, o) ==
    /\ s[o].val = f.kind /\ s[o].depth = d - 1 /\ s[o].path = f.mark
    /\ \A k \in (o + 1) .. Len(s) : s[k].depth >= d

Entered(s, fr) == \A d \in 1 .. Len(fr) : \E o \in 1 .. Len(s) : Opened(s, fr[d], d, o)

(* Every opening line is closed, or its container is entered still. *)
Paired(s, fr) ==
    \A o \in 1 .. Len(s) : OpensLine(s[o]) =>
        \/ \E c \in 1 .. Len(s) : Pair(s, o, c)
        \/ \E d \in 1 .. Len(fr) : Opened(s, fr[d], d, o)

(* Where the next line goes. *)
AtDepth(s, n) == Len(s) > 0 => Under(s[Len(s)]) = n

LineInv ==
    /\ IsSeq(ppLines) /\ Len(frames) <= JsonMaxDepth
    /\ Tree(ppLines) /\ Entered(ppLines, frames)
    /\ ~Full => AtDepth(ppLines, Len(frames)) /\ Paired(ppLines, frames)
    /\ ppStep = "loop" => path = Top.mark

(* Lines that differ in their keys and commas only. *)
Alike(s, t, n) ==
    \A k \in 1 .. n : t[k].val = s[k].val /\ t[k].depth = s[k].depth /\ t[k].path = s[k].path

(* t is s with one more line x. *)
Grown(s, t, x) ==
    /\ IsSeq(s) /\ IsSeq(t) /\ Len(t) = Len(s) + 1 /\ t[Len(s) + 1] = x
    /\ \A k \in 1 .. Len(s) : t[k] = s[k]

(* Partners stay partners when only commas change. *)
LEMMA PairAlike ==
    ASSUME NEW s, NEW t, NEW n \in Nat, Alike(s, t, n), NEW o \in 1 .. n, NEW c \in 1 .. n, Pair(s, o, c)
    PROVE  Pair(t, o, c)
<1>1. \A k \in (o + 1) .. (c - 1) : k \in 1 .. n
  OBVIOUS
<1>2. /\ t[o].val = s[o].val /\ t[o].depth = s[o].depth /\ t[o].path = s[o].path
      /\ t[c].val = s[c].val /\ t[c].depth = s[c].depth /\ t[c].path = s[c].path
      /\ \A k \in (o + 1) .. (c - 1) : t[k].depth = s[k].depth
  BY <1>1 DEF Alike
<1>. QED  BY <1>2 DEF Pair, OpensLine

(* So does the line that opened a container. *)
LEMMA OpenedAlike ==
    ASSUME NEW s, NEW t, Len(s) \in Nat, Len(t) = Len(s), Alike(s, t, Len(s)), NEW o \in 1 .. Len(s),
           NEW f, NEW g, g.kind = f.kind, g.mark = f.mark, NEW d, Opened(s, f, d, o)
    PROVE  Opened(t, g, d, o)
<1>1. \A k \in (o + 1) .. Len(s) : k \in 1 .. Len(s)
  OBVIOUS
<1>2. /\ t[o].val = s[o].val /\ t[o].depth = s[o].depth /\ t[o].path = s[o].path
      /\ \A k \in (o + 1) .. Len(s) : t[k].depth = s[k].depth
  BY <1>1 DEF Alike
<1>. QED  BY <1>2 DEF Opened

(* What a change of commas, and of the fields kept for the next item, leaves. *)
LEMMA AllAlike ==
    ASSUME NEW s, NEW t, Len(s) \in Nat, Len(t) = Len(s), Alike(s, t, Len(s)),
           \A k \in 1 .. Len(t) : IsLine(t[k]), NEW fr, NEW gr, Len(gr) = Len(fr), NEW n,
           \A d \in 1 .. Len(fr) : gr[d].kind = fr[d].kind /\ gr[d].mark = fr[d].mark
    PROVE  /\ Tree(s) => Tree(t)
           /\ Entered(s, fr) => Entered(t, gr)
           /\ Paired(s, fr) => Paired(t, gr)
           /\ AtDepth(s, n) => AtDepth(t, n)
<1>1. \A k \in 1 .. Len(s) : /\ t[k].val = s[k].val /\ t[k].depth = s[k].depth
                             /\ Under(t[k]) = Under(s[k]) /\ Over(t[k]) = Over(s[k])
                             /\ (OpensLine(t[k]) <=> OpensLine(s[k]))
                             /\ (ClosesLine(t[k]) <=> ClosesLine(s[k]))
  BY DEF Alike, Under, Over, OpensLine, ClosesLine
<1>2. \A o, c \in 1 .. Len(s) : Pair(s, o, c) => Pair(t, o, c)
  BY PairAlike
<1>3. \A o \in 1 .. Len(s) : \A d \in 1 .. Len(fr) : Opened(s, fr[d], d, o) => Opened(t, gr[d], d, o)
  BY OpenedAlike
<1>4. ASSUME Tree(s) PROVE Tree(t)
  <2>1. \A k \in 1 .. Len(t) : IsLine(t[k]) /\ t[k].depth \in Nat /\ t[k].depth < JsonMaxDepth
    BY <1>1, <1>4 DEF Tree
  <2>2. Len(t) > 0 => t[1].depth = 0
    BY <1>1, <1>4 DEF Tree
  <2>3. \A k \in 1 .. (Len(t) - 1) : Over(t[k + 1]) = Under(t[k])
    <3>1. \A k \in 1 .. (Len(t) - 1) : k \in 1 .. Len(s) /\ k + 1 \in 1 .. Len(s)
      OBVIOUS
    <3>2. \A k \in 1 .. (Len(s) - 1) : Over(s[k + 1]) = Under(s[k])
      BY <1>4 DEF Tree
    <3>. QED  BY <1>1, <3>1, <3>2
  <2>4. \A c \in 1 .. Len(t) : ClosesLine(t[c]) => \E o \in 1 .. Len(t) : Pair(t, o, c)
    <3>1. \A c \in 1 .. Len(s) : ClosesLine(s[c]) => \E o \in 1 .. Len(s) : Pair(s, o, c)
      BY <1>4 DEF Tree
    <3>. QED  BY <1>1, <1>2, <3>1
  <2>. QED  BY <2>1, <2>2, <2>3, <2>4 DEF Tree
<1>5. Entered(s, fr) => Entered(t, gr)
  BY <1>3 DEF Entered
<1>6. Paired(s, fr) => Paired(t, gr)
  BY <1>1, <1>2, <1>3 DEF Paired
<1>7. AtDepth(s, n) => AtDepth(t, n)
  BY <1>1 DEF AtDepth
<1>. QED  BY <1>4, <1>5, <1>6, <1>7

(* A line more leaves the others. *)
LEMMA GrownAlike ==
    ASSUME NEW s, NEW t, NEW x, Grown(s, t, x)
    PROVE  Len(s) \in Nat /\ Alike(s, t, Len(s))
BY DEF Grown, Alike, IsSeq

(* A deeper line more is in the container. *)
LEMMA OpenedGrown ==
    ASSUME NEW s, NEW t, NEW x, Grown(s, t, x), NEW d \in Nat, x.depth \in Nat, d <= x.depth,
           NEW o \in 1 .. Len(s), NEW f, Opened(s, f, d, o)
    PROVE  Opened(t, f, d, o)
<1>1. Len(s) \in Nat /\ Len(t) = Len(s) + 1 /\ t[Len(s) + 1] = x /\ \A k \in 1 .. Len(s) : t[k] = s[k]
  BY DEF Grown, IsSeq
<1>2. \A k \in (o + 1) .. Len(t) : (k \in (o + 1) .. Len(s) /\ k \in 1 .. Len(s)) \/ k = Len(s) + 1
  BY <1>1
<1>3. \A k \in (o + 1) .. Len(s) : s[k].depth >= d
  BY DEF Opened
<1>4. \A k \in (o + 1) .. Len(t) : t[k].depth >= d
  BY <1>1, <1>2, <1>3
<1>. QED  BY <1>1, <1>4 DEF Opened

(* The last line opens a container. *)
LEMMA OpenedNow ==
    ASSUME NEW t, NEW f, NEW n \in Nat, NEW m \in Nat, Len(t) = m + 1,
           t[m + 1].val = f.kind, t[m + 1].depth = n, t[m + 1].path = f.mark
    PROVE  Opened(t, f, n + 1, m + 1)
BY DEF Opened

(* A closing line is the partner of the line that opened its container. *)
LEMMA ClosedGrown ==
    ASSUME NEW s, NEW t, NEW x, Grown(s, t, x), NEW d \in Nat, NEW o \in 1 .. Len(s), NEW f,
           Opened(s, f, d, o), \A k \in 1 .. Len(s) : s[k].depth \in Nat,
           f.kind \in {"{", "["}, x.val = Close(f.kind), x.depth = d - 1, x.path = f.mark
    PROVE  Pair(t, o, Len(s) + 1)
<1> DEFINE n == Len(s)
<1>1. n \in Nat /\ o \in 1 .. n
  BY DEF Grown, IsSeq
<1>2. t[n + 1] = x /\ \A k \in 1 .. n : t[k] = s[k]
  BY DEF Grown
<1>3. \A k \in (o + 1) .. n : s[k].depth >= d
  BY DEF Opened
<1>4. \A k \in 1 .. n : s[k].depth \in Nat
  OBVIOUS
<1>5. s[o].val = f.kind /\ s[o].depth = d - 1 /\ s[o].path = f.mark
  BY DEF Opened
<1> HIDE DEF n
<1>6. t[o] = s[o]
  BY ONLY <1>1, <1>2
<1>7. \A k \in (o + 1) .. (n + 1 - 1) : t[k].depth > t[o].depth
  <2> SUFFICES ASSUME NEW k \in (o + 1) .. (n + 1 - 1) PROVE t[k].depth > t[o].depth
    OBVIOUS
  <2>1. k \in (o + 1) .. n /\ k \in 1 .. n
    BY ONLY <1>1, k \in (o + 1) .. (n + 1 - 1)
  <2> DEFINE a == s[k].depth
             b == s[o].depth
  <2>2. a \in Nat /\ a >= d /\ b = d - 1 /\ t[k].depth = a /\ t[o].depth = b
    BY <1>2, <1>3, <1>4, <1>5, <1>6, <2>1
  <2> HIDE DEF a, b
  <2>3. a > b
    BY ONLY <2>2, d \in Nat
  <2>. QED  BY ONLY <2>2, <2>3
<1>8. o < n + 1
  BY ONLY <1>1
<1>9. t[n + 1].val = Close(t[o].val) /\ t[n + 1].depth = t[o].depth /\ t[n + 1].path = t[o].path
  BY <1>2, <1>5, <1>6
<1>10. OpensLine(t[o])
  BY <1>5, <1>6 DEF OpensLine
<1>11. Pair(t, o, n + 1)
  BY ONLY <1>1, <1>7, <1>8, <1>9, <1>10 DEF Pair
<1>. QED  BY <1>11 DEF n

(* One more line where it belongs. *)
LEMMA TreeGrown ==
    ASSUME NEW s, NEW t, NEW x, Grown(s, t, x), IsLine(x), x.depth \in Nat, x.depth < JsonMaxDepth,
           Len(s) = 0 => x.depth = 0, Len(s) > 0 => Over(x) = Under(s[Len(s)]),
           ClosesLine(x) => \E o \in 1 .. Len(s) : Pair(t, o, Len(s) + 1), Tree(s)
    PROVE  Tree(t)
<1>1. Len(s) \in Nat /\ Len(t) = Len(s) + 1 /\ t[Len(s) + 1] = x /\ \A k \in 1 .. Len(s) : t[k] = s[k]
  BY DEF Grown, IsSeq
<1>2. \A k \in 1 .. Len(t) : k \in 1 .. Len(s) \/ k = Len(s) + 1
  BY <1>1
<1>3. \A k \in 1 .. Len(s) : IsLine(s[k]) /\ s[k].depth \in Nat /\ s[k].depth < JsonMaxDepth
  BY DEF Tree
<1>4. \A k \in 1 .. Len(t) : IsLine(t[k]) /\ t[k].depth \in Nat /\ t[k].depth < JsonMaxDepth
  BY <1>1, <1>2, <1>3
<1>5. Len(t) > 0 => t[1].depth = 0
  <2>1. CASE Len(s) = 0
    BY <1>1, <2>1
  <2>2. CASE Len(s) > 0
    BY <1>1, <2>2 DEF Tree
  <2>. QED  BY <1>1, <2>1, <2>2
<1>6. \A k \in 1 .. (Len(t) - 1) : Over(t[k + 1]) = Under(t[k])
  <2> SUFFICES ASSUME NEW k \in 1 .. (Len(t) - 1) PROVE Over(t[k + 1]) = Under(t[k])
    OBVIOUS
  <2>1. CASE k = Len(s)
    <3>1. Len(s) > 0 /\ t[k] = s[Len(s)] /\ t[k + 1] = x
      BY <1>1, <2>1
    <3>. QED  BY <3>1
  <2>2. CASE k # Len(s)
    <3>1. k \in 1 .. (Len(s) - 1) /\ k \in 1 .. Len(s) /\ k + 1 \in 1 .. Len(s)
      BY <1>1, <2>2
    <3>2. Over(s[k + 1]) = Under(s[k])
      BY <3>1 DEF Tree
    <3>. QED  BY <1>1, <3>1, <3>2
  <2>. QED  BY <2>1, <2>2
<1>7. \A c \in 1 .. Len(t) : ClosesLine(t[c]) => \E o \in 1 .. Len(t) : Pair(t, o, c)
  <2> SUFFICES ASSUME NEW c \in 1 .. Len(t), ClosesLine(t[c]) PROVE \E o \in 1 .. Len(t) : Pair(t, o, c)
    OBVIOUS
  <2>0. \A o \in 1 .. Len(s) : o \in 1 .. Len(t)
    BY <1>1
  <2>1. CASE c = Len(s) + 1
    BY <1>1, <2>0, <2>1
  <2>2. CASE c \in 1 .. Len(s)
    <3>1. PICK o \in 1 .. Len(s) : Pair(s, o, c)
      BY <1>1, <2>2 DEF Tree
    <3>2. Pair(t, o, c)
      BY <2>2, <3>1, GrownAlike, PairAlike
    <3>. QED  BY <2>0, <3>2
  <2>. QED  BY <1>2, <2>1, <2>2
<1>. QED  BY <1>4, <1>5, <1>6, <1>7 DEF Tree

(* The containers fr, of which gr are entered behind the line. *)
LEMMA EnteredGrown ==
    ASSUME NEW s, NEW t, NEW x, Grown(s, t, x), NEW fr, NEW n \in Nat, Entered(s, fr),
           Len(fr) \in Nat, n <= Len(fr), x.depth \in Nat, n <= x.depth
    PROVE  \A d \in 1 .. n : \E o \in 1 .. Len(t) : Opened(t, fr[d], d, o)
<1> SUFFICES ASSUME NEW d \in 1 .. n PROVE \E o \in 1 .. Len(t) : Opened(t, fr[d], d, o)
  OBVIOUS
<1>1. d \in 1 .. Len(fr) /\ d \in Nat /\ d <= x.depth
  OBVIOUS
<1>2. PICK o \in 1 .. Len(s) : Opened(s, fr[d], d, o)
  BY <1>1 DEF Entered
<1>3. o \in 1 .. Len(t)
  BY DEF Grown, IsSeq
<1>4. Opened(t, fr[d], d, o)
  BY <1>1, <1>2, OpenedGrown
<1>. QED  BY <1>3, <1>4

(* Every opening line has a partner or a container, with one line more. *)
LEMMA PairedGrown ==
    ASSUME NEW s, NEW t, NEW x, Grown(s, t, x), NEW fr, NEW gr, Paired(s, fr),
           \A d \in 1 .. Len(fr) :
               \/ /\ d \in 1 .. Len(gr)
                  /\ \A o \in 1 .. Len(s) : Opened(s, fr[d], d, o) => Opened(t, gr[d], d, o)
               \/ \A o \in 1 .. Len(s) : Opened(s, fr[d], d, o) => Pair(t, o, Len(s) + 1),
           OpensLine(x) => \E d \in 1 .. Len(gr) : Opened(t, gr[d], d, Len(s) + 1)
    PROVE  Paired(t, gr)
<1> SUFFICES ASSUME NEW o \in 1 .. Len(t), OpensLine(t[o])
             PROVE  \/ \E c \in 1 .. Len(t) : Pair(t, o, c)
                    \/ \E d \in 1 .. Len(gr) : Opened(t, gr[d], d, o)
  BY DEF Paired
<1>1. Len(s) \in Nat /\ Len(t) = Len(s) + 1 /\ t[Len(s) + 1] = x /\ \A k \in 1 .. Len(s) : t[k] = s[k]
  BY DEF Grown, IsSeq
<1>2. o \in 1 .. Len(s) \/ o = Len(s) + 1
  BY <1>1
<1>3. \A c \in 1 .. Len(s) : c \in 1 .. Len(t)
  BY <1>1
<1>4. Len(s) + 1 \in 1 .. Len(t)
  BY <1>1
<1>5. CASE o = Len(s) + 1
  BY <1>1, <1>5
<1>6. CASE o \in 1 .. Len(s)
  <2>1. CASE \E c \in 1 .. Len(s) : Pair(s, o, c)
    BY <1>3, <1>6, <2>1, GrownAlike, PairAlike
  <2>2. CASE \E d \in 1 .. Len(fr) : Opened(s, fr[d], d, o)
    <3>1. PICK d \in 1 .. Len(fr) : Opened(s, fr[d], d, o)
      BY <2>2
    <3>. QED  BY <1>4, <1>6, <3>1
  <2>. QED  BY <1>1, <1>6, <2>1, <2>2 DEF Paired
<1>. QED  BY <1>2, <1>5, <1>6

-----------------------------------------------------------------------------
(* The steps of the formatter. *)

(* No line is added. *)
LEMMA AlikeStep ==
    ASSUME LineInv, Len(ppLines') = Len(ppLines), IsSeq(ppLines'), Alike(ppLines, ppLines', Len(ppLines)),
           \A k \in 1 .. Len(ppLines') : IsLine(ppLines'[k]), Len(frames') = Len(frames),
           \A d \in 1 .. Len(frames) : frames'[d].kind = frames[d].kind /\ frames'[d].mark = frames[d].mark,
           ppStep' = "loop" => path' = (Top').mark
    PROVE  LineInv'
<1>1. Len(ppLines) \in Nat
  BY DEF LineInv, IsSeq
<1>2. /\ Tree(ppLines) => Tree(ppLines')
      /\ Entered(ppLines, frames) => Entered(ppLines', frames')
      /\ Paired(ppLines, frames) => Paired(ppLines', frames')
      /\ AtDepth(ppLines, Len(frames)) => AtDepth(ppLines', Len(frames))
  BY <1>1, AllAlike
<1>3. Full' <=> Full
  BY DEF Full
<1>. QED  BY <1>2, <1>3 DEF LineInv

(* The lines stay. *)
LEMMA SameLines ==
    ASSUME LineInv, ppLines' = ppLines, Len(frames') = Len(frames),
           \A d \in 1 .. Len(frames) : frames'[d].kind = frames[d].kind /\ frames'[d].mark = frames[d].mark,
           ppStep' = "loop" => path' = (Top').mark
    PROVE  LineInv'
<1>1. Len(ppLines') = Len(ppLines) /\ IsSeq(ppLines') /\ \A k \in 1 .. Len(ppLines') : IsLine(ppLines'[k])
  BY DEF LineInv, Tree
<1>2. Alike(ppLines, ppLines', Len(ppLines))
  BY DEF Alike
<1>. QED  BY <1>1, <1>2, AlikeStep

(* The comma behind the last line. *)
Marked(l) == [l EXCEPT !.comma = TRUE]

(* A line with a comma is the same line else. *)
LEMMA LineMarked ==
    ASSUME NEW l, IsLine(l)
    PROVE  IsLine(Marked(l)) /\ Marked(l).val = l.val /\ Marked(l).depth = l.depth /\ Marked(l).path = l.path
BY DEF IsLine, Marked

(* The comma behind the last line leaves the shape of the lines. *)
LEMMA LastMarked ==
    ASSUME NEW s, IsSeq(s), \A k \in 1 .. Len(s) : IsLine(s[k]), Len(s) > 0,
           NEW t, t = Replaced(s, Len(s), Marked(s[Len(s)]))
    PROVE  IsSeq(t) /\ Len(t) = Len(s) /\ Alike(s, t, Len(s)) /\ \A k \in 1 .. Len(t) : IsLine(t[k])
<1> DEFINE n == Len(s)
<1>1. n \in 1 .. n
  BY DEF IsSeq
<1>2. IsSeq(t) /\ Len(t) = n /\ t[n] = Marked(s[n]) /\ \A k \in 1 .. n : k # n => t[k] = s[k]
  BY <1>1, SeqReplaced
<1> HIDE DEF n
<1>3. \A k \in 1 .. n : k # n => /\ IsLine(t[k]) /\ t[k].val = s[k].val /\ t[k].depth = s[k].depth
                                 /\ t[k].path = s[k].path
  BY <1>2 DEF n
<1>4. IsLine(t[n]) /\ t[n].val = s[n].val /\ t[n].depth = s[n].depth /\ t[n].path = s[n].path
  BY <1>1, <1>2, LineMarked DEF n
<1>5. \A k \in 1 .. n : /\ IsLine(t[k]) /\ t[k].val = s[k].val /\ t[k].depth = s[k].depth
                        /\ t[k].path = s[k].path
  BY <1>3, <1>4
<1>. QED  BY <1>2, <1>5 DEF n, Alike

(* A line that is written. *)
LEMMA Emitted ==
    ASSUME IsSeq(ppLines), ~Full, NEW key, NEW val, NEW depth, ppLines' = json_pp_emit(key, val, depth)
    PROVE  \E x : /\ Grown(ppLines, ppLines', x) /\ IsLine(x)
                  /\ x.val = val /\ x.depth = depth /\ x.path = path
<1> DEFINE x == [key |-> key, val |-> val, depth |-> depth, path |-> path, comma |-> FALSE]
<1>1. ppLines' = Append(ppLines, x)
  BY DEF json_pp_emit
<1>2. IsLine(x) /\ x.val = val /\ x.depth = depth /\ x.path = path
  BY DEF IsLine
<1> HIDE DEF x
<1>3. Grown(ppLines, ppLines', x)
  BY <1>1, SeqAppended DEF Grown
<1>. QED  BY <1>2, <1>3

(* What the invariants say of the lengths and depths. *)
LEMMA LineFacts ==
    ASSUME CursorInv, LineInv
    PROVE  /\ IsSeq(ppLines) /\ Len(ppLines) \in Nat /\ IsSeq(frames) /\ Len(frames) \in Nat
           /\ \A d \in 1 .. Len(frames) : frames[d].kind \in {"{", "["}
           /\ Len(frames) > 0 => Len(ppLines) > 0
           /\ Len(frames) <= JsonMaxDepth /\ JsonMaxDepth \in Nat
           /\ \A k \in 1 .. Len(ppLines) : IsLine(ppLines[k]) /\ ppLines[k].depth \in Nat
<1>1. /\ IsSeq(ppLines) /\ Len(ppLines) \in Nat /\ IsSeq(frames) /\ Len(frames) \in Nat
      /\ \A d \in 1 .. Len(frames) : frames[d].kind \in {"{", "["}
  BY DEF CursorInv, JsonTypes, LineInv, IsSeq, IsFrame
<1>2. Len(frames) > 0 => Len(ppLines) > 0
  <2> SUFFICES ASSUME Len(frames) > 0 PROVE Len(ppLines) > 0
    OBVIOUS
  <2>0. Len(frames) \in Nat /\ Len(ppLines) \in Nat
    BY <1>1
  <2>1. 1 \in 1 .. Len(frames)
    BY ONLY <2>0, Len(frames) > 0
  <2>2. \E o \in 1 .. Len(ppLines) : Opened(ppLines, frames[1], 1, o)
    BY <2>1 DEF LineInv, Entered
  <2>3. PICK o \in 1 .. Len(ppLines) : TRUE
    BY <2>2
  <2>. QED  BY ONLY <2>0, <2>3
<1>3. Len(frames) <= JsonMaxDepth /\ JsonMaxDepth \in Nat
  BY JsonAssumption DEF LineInv
<1>4. \A k \in 1 .. Len(ppLines) : IsLine(ppLines[k]) /\ ppLines[k].depth \in Nat
  BY DEF LineInv, Tree
<1>. QED  BY <1>1, <1>2, <1>3, <1>4

(* A string, an atom or nothing where a value is due. *)
LEMMA ScalarLines == ASSUME CursorInv, LineInv, ValueScalar PROVE LineInv'
<1> DEFINE s == ppLines
           t == ppLines'
           n == Len(frames)
           v == IF src[pos] \in Punctuation THEN "" ELSE src[pos]
<1>1. /\ ~Full /\ ppStep' = "after" /\ frames' = frames /\ t = json_pp_emit(KeyOf, v, n)
      /\ v \notin {"{", "[", "}", "]"}
  BY DEF ValueScalar, Punctuation
<1>2. n < JsonMaxDepth
  BY DEF ValueScalar
<1>3. /\ IsSeq(s) /\ Len(s) \in Nat /\ n \in Nat /\ (n > 0 => Len(s) > 0)
      /\ JsonMaxDepth \in Nat /\ n <= JsonMaxDepth
  BY LineFacts
<1>4. /\ Tree(s) /\ Entered(s, frames) /\ AtDepth(s, n) /\ Paired(s, frames)
  BY <1>1 DEF LineInv
<1> HIDE DEF v
<1>5. PICK x : /\ Grown(s, t, x) /\ IsLine(x) /\ x.val = v /\ x.depth = n /\ x.path = path
  <2>1. IsSeq(ppLines) /\ ~Full /\ ppLines' = json_pp_emit(KeyOf, v, n)
    BY <1>1, <1>3
  <2>. QED  BY ONLY <2>1, Emitted DEF s, t
<1> HIDE DEF s, t, n
<1>6. ~OpensLine(x) /\ ~ClosesLine(x) /\ Over(x) = n /\ Under(x) = n
  BY <1>1, <1>5 DEF OpensLine, ClosesLine, Over, Under
<1>7. /\ (Len(s) = 0 => x.depth = 0) /\ (Len(s) > 0 => Over(x) = Under(s[Len(s)]))
      /\ x.depth \in Nat /\ x.depth < JsonMaxDepth
  <2>1. Len(s) = 0 => n = 0
    BY ONLY <1>3
  <2>2. Len(s) > 0 => n = Under(s[Len(s)])
    BY <1>4 DEF AtDepth
  <2>. QED  BY <1>2, <1>3, <1>5, <1>6, <2>1, <2>2
<1>8. Tree(t)
  BY <1>4, <1>5, <1>6, <1>7, TreeGrown
<1>9. Entered(t, frames)
  <2>1. n <= Len(frames) /\ Len(frames) \in Nat /\ n <= x.depth
    BY <1>3, <1>5 DEF n
  <2>2. \A d \in 1 .. n : \E o \in 1 .. Len(t) : Opened(t, frames[d], d, o)
    BY <1>3, <1>4, <1>5, <1>7, <2>1, EnteredGrown
  <2>. QED  BY <2>2 DEF Entered, n
<1>10. Paired(t, frames)
  <2>1. \A d \in 1 .. Len(frames) : \A o \in 1 .. Len(s) :
            Opened(s, frames[d], d, o) => Opened(t, frames[d], d, o)
    <3> SUFFICES ASSUME NEW d \in 1 .. Len(frames), NEW o \in 1 .. Len(s), Opened(s, frames[d], d, o)
                 PROVE  Opened(t, frames[d], d, o)
      OBVIOUS
    <3>1. d \in Nat /\ d <= x.depth /\ x.depth \in Nat
      BY <1>3, <1>5, <1>7 DEF n
    <3>. QED  BY <1>5, <3>1, OpenedGrown
  <2>. QED  BY <1>4, <1>5, <1>6, <2>1, PairedGrown
<1>11. AtDepth(t, n)
  <2>1. Len(t) = Len(s) + 1 /\ t[Len(s) + 1] = x
    BY <1>5 DEF Grown
  <2>. QED  BY <1>6, <2>1 DEF AtDepth
<1>12. IsSeq(t) /\ frames' = frames /\ ppStep' = "after" /\ n <= JsonMaxDepth
  BY <1>1, <1>3, <1>5 DEF Grown
<1>. QED  BY <1>8, <1>9, <1>10, <1>11, <1>12 DEF LineInv, s, t, n

(* An opening bracket. *)
LEMMA OpenLines == ASSUME CursorInv, LineInv, ValueOpens PROVE LineInv'
<1> DEFINE s == ppLines
           t == ppLines'
           n == Len(frames)
           gr == frames'
           f == [kind |-> src[pos], idx |-> 0, key |-> "", mark |-> path, before |-> 0]
<1>1. /\ ~Full /\ ppStep' = "loop" /\ path' = path /\ t = json_pp_emit(KeyOf, src[pos], n)
      /\ src[pos] \in {"{", "["} /\ gr = Append(frames, f)
  BY DEF ValueOpens
<1>2. n < JsonMaxDepth
  BY DEF ValueOpens
<1>3. /\ IsSeq(s) /\ Len(s) \in Nat /\ n \in Nat /\ (n > 0 => Len(s) > 0)
      /\ JsonMaxDepth \in Nat /\ IsSeq(frames)
  BY LineFacts
<1>4. /\ Tree(s) /\ Entered(s, frames) /\ AtDepth(s, n) /\ Paired(s, frames)
  BY <1>1 DEF LineInv
<1>5. PICK x : /\ Grown(s, t, x) /\ IsLine(x) /\ x.val = src[pos] /\ x.depth = n /\ x.path = path
  <2>1. IsSeq(ppLines) /\ ~Full /\ ppLines' = json_pp_emit(KeyOf, src[pos], n)
    BY <1>1, <1>3
  <2>. QED  BY ONLY <2>1, Emitted DEF s, t
<1>6. f.kind = src[pos] /\ f.mark = path
  OBVIOUS
<1> HIDE DEF f
<1>7. Len(gr) = n + 1 /\ gr[n + 1] = f /\ \A d \in 1 .. n : gr[d] = frames[d]
  <2>1. IsSeq(frames) /\ gr = Append(frames, f)
    BY <1>1, <1>3
  <2>. QED  BY ONLY <2>1, SeqAppended DEF n
<1> HIDE DEF s, t, n, gr
<1>8. OpensLine(x) /\ ~ClosesLine(x) /\ Over(x) = n /\ Under(x) = n + 1
  BY <1>1, <1>5 DEF OpensLine, ClosesLine, Over, Under
<1>9. /\ (Len(s) = 0 => x.depth = 0) /\ (Len(s) > 0 => Over(x) = Under(s[Len(s)]))
      /\ x.depth \in Nat /\ x.depth < JsonMaxDepth
  <2>1. Len(s) = 0 => n = 0
    BY ONLY <1>3
  <2>2. Len(s) > 0 => n = Under(s[Len(s)])
    BY <1>4 DEF AtDepth
  <2>. QED  BY <1>2, <1>3, <1>5, <1>8, <2>1, <2>2
<1>10. Tree(t)
  BY <1>4, <1>5, <1>8, <1>9, TreeGrown
<1>11. Len(t) = Len(s) + 1 /\ t[Len(s) + 1] = x /\ IsSeq(t)
  BY <1>5 DEF Grown
<1>12. Len(s) + 1 \in 1 .. Len(t) /\ n + 1 \in 1 .. Len(gr) /\ Len(gr) <= JsonMaxDepth
       /\ \A d \in 1 .. Len(gr) : d \in 1 .. n \/ d = n + 1
  BY <1>2, <1>3, <1>7, <1>11
<1>13. Opened(t, gr[n + 1], n + 1, Len(s) + 1)
  <2>1. t[Len(s) + 1].val = gr[n + 1].kind /\ t[Len(s) + 1].depth = n /\ t[Len(s) + 1].path = gr[n + 1].mark
    BY <1>5, <1>6, <1>7, <1>11
  <2>2. Len(s) \in Nat /\ n \in Nat /\ Len(t) = Len(s) + 1
    BY <1>3, <1>11
  <2>. QED  BY ONLY <2>1, <2>2, OpenedNow
<1>14. Entered(t, gr)
  <2>1. n <= Len(frames) /\ Len(frames) \in Nat /\ n <= x.depth
    BY <1>3, <1>5 DEF n
  <2>2. \A d \in 1 .. n : \E o \in 1 .. Len(t) : Opened(t, frames[d], d, o)
    BY <1>3, <1>4, <1>5, <1>9, <2>1, EnteredGrown
  <2>. QED  BY <1>7, <1>12, <1>13, <2>2 DEF Entered
<1>15. Paired(t, gr)
  <2>1. \A d \in 1 .. Len(frames) :
            d \in 1 .. Len(gr) /\ \A o \in 1 .. Len(s) : Opened(s, frames[d], d, o) => Opened(t, gr[d], d, o)
    <3> SUFFICES ASSUME NEW d \in 1 .. Len(frames)
                 PROVE  /\ d \in 1 .. Len(gr)
                        /\ \A o \in 1 .. Len(s) : Opened(s, frames[d], d, o) => Opened(t, gr[d], d, o)
      OBVIOUS
    <3>1. d \in Nat /\ d <= x.depth /\ x.depth \in Nat /\ d \in 1 .. n /\ d \in 1 .. Len(gr)
      BY <1>3, <1>5, <1>7, <1>9 DEF n
    <3>2. gr[d] = frames[d]
      BY <1>7, <3>1
    <3>. QED  BY <1>5, <3>1, <3>2, OpenedGrown
  <2>. QED  BY <1>4, <1>5, <1>12, <1>13, <2>1, PairedGrown
<1>16. AtDepth(t, Len(gr))
  BY <1>7, <1>8, <1>11 DEF AtDepth
<1>17. path' = (Top').mark
  <2>1. Top' = gr[Len(gr)]
    BY DEF Top, gr
  <2>. QED  BY <1>1, <1>6, <1>7, <2>1
<1>. QED  BY <1>10, <1>11, <1>12, <1>14, <1>15, <1>16, <1>17 DEF LineInv, s, t, gr

(* A container ends: a closing bracket, if there is room. *)
LEMMA EndLines == ASSUME CursorInv, LineInv, ContainerEnds PROVE LineInv'
<1> DEFINE s == ppLines
           t == ppLines'
           n == Len(frames)
           gr == frames'
<1>1. /\ ppStep = "loop" /\ ppStep' = "after" /\ path' = path /\ gr = SubSeq(frames, 1, n - 1)
      /\ frames # <<>> /\ path = Top.mark
      /\ t = json_pp_emit("", Close(Top.kind), n - 1)
  BY DEF ContainerEnds, CursorInv, JsonTypes, LineInv
<1>2. /\ IsSeq(s) /\ Len(s) \in Nat /\ n \in Nat /\ n > 0 /\ Len(s) > 0
      /\ JsonMaxDepth \in Nat /\ n <= JsonMaxDepth /\ IsSeq(frames)
  BY <1>1, LineFacts, SeqNotEmpty
<1>3. Len(gr) = n - 1 /\ \A d \in 1 .. (n - 1) : gr[d] = frames[d]
  BY <1>1, <1>2, SeqShortened
<1>4. Tree(s) /\ Entered(s, frames) /\ (~Full => AtDepth(s, n) /\ Paired(s, frames))
  BY DEF LineInv
<1>5. Top = frames[n] /\ Top.kind \in {"{", "["}
  <2>1. n \in 1 .. n
    BY ONLY <1>2
  <2>. QED  BY <2>1, LineFacts DEF Top
<1>6. n - 1 \in Nat /\ n - 1 <= JsonMaxDepth /\ n - 1 < JsonMaxDepth /\ n - 1 <= n
  BY ONLY <1>2
<1>7. CASE Full
  <2>1. t = s
    BY <1>1, <1>7 DEF json_pp_emit
  <2>2. Full'
    BY <1>7, <2>1 DEF Full
  <2>3. \A d \in 1 .. (n - 1) : d \in 1 .. n
    BY ONLY <1>2
  <2>4. Entered(t, gr)
    BY <1>3, <1>4, <2>1, <2>3 DEF Entered
  <2>. QED  BY <1>1, <1>2, <1>3, <1>4, <1>6, <2>1, <2>2, <2>4 DEF LineInv
<1>8. CASE ~Full
  <2>1. PICK x : /\ Grown(s, t, x) /\ IsLine(x) /\ x.val = Close(Top.kind) /\ x.depth = n - 1 /\ x.path = path
    <3>1. IsSeq(ppLines) /\ ~Full /\ ppLines' = json_pp_emit("", Close(Top.kind), n - 1)
      BY <1>1, <1>2, <1>8
    <3> DEFINE m == n - 1
               v == Close(Top.kind)
               y == ""
    <3>2. IsSeq(ppLines) /\ ~Full /\ ppLines' = json_pp_emit(y, v, m)
      BY ONLY <3>1 DEF m, v, y
    <3> HIDE DEF m, v, y
    <3>3. \E x : /\ Grown(s, t, x) /\ IsLine(x) /\ x.val = v /\ x.depth = m /\ x.path = path
      BY ONLY <3>2, Emitted DEF s, t
    <3>. QED  BY <3>3 DEF m, v
  <2>2. AtDepth(s, n) /\ Paired(s, frames)
    BY <1>4, <1>8
  <2>3. Len(frames) = n /\ n <= Len(frames) /\ \A k \in 1 .. Len(s) : s[k].depth \in Nat
    <3>1. \A k \in 1 .. Len(s) : s[k].depth \in Nat
      BY LineFacts
    <3>2. n <= n
      BY ONLY <1>2
    <3>. QED  BY <3>1, <3>2
  <2> HIDE DEF s, t, n, gr
  <2>4. ~OpensLine(x) /\ ClosesLine(x) /\ Over(x) = n /\ Under(x) = n - 1
    <3>1. x.val \in {"}", "]"}
      BY <1>5, <2>1 DEF Close
    <3>2. ~OpensLine(x) /\ ClosesLine(x)
      BY <3>1 DEF OpensLine, ClosesLine
    <3>3. n - 1 + 1 = n
      BY ONLY <1>2
    <3>. QED  BY <2>1, <3>2, <3>3 DEF Over, Under
  <2>5. \A o \in 1 .. Len(s) : Opened(s, frames[n], n, o) => Pair(t, o, Len(s) + 1)
    <3>1. frames[n].kind \in {"{", "["} /\ x.val = Close(frames[n].kind) /\ x.path = frames[n].mark
      BY <1>1, <1>5, <2>1
    <3>. QED  BY <1>2, <2>1, <2>3, <3>1, ClosedGrown
  <2>6. \E o \in 1 .. Len(s) : Pair(t, o, Len(s) + 1)
    <3>1. n \in 1 .. Len(frames)
      BY <1>2, <2>3
    <3>. QED  BY <1>4, <2>5, <3>1 DEF Entered
  <2>7. Tree(t)
    <3>1. Over(x) = Under(s[Len(s)]) /\ x.depth \in Nat /\ x.depth < JsonMaxDepth /\ ~(Len(s) = 0)
      BY <1>2, <1>6, <2>1, <2>2, <2>4 DEF AtDepth
    <3>. QED  BY <1>4, <2>1, <2>6, <3>1, TreeGrown
  <2>8. Entered(t, gr)
    <3>1. x.depth \in Nat /\ n - 1 <= x.depth /\ n - 1 \in Nat /\ n - 1 <= Len(frames) /\ Len(frames) \in Nat
      BY <1>2, <1>6, <2>1, <2>3
    <3>2. \A d \in 1 .. (n - 1) : \E o \in 1 .. Len(t) : Opened(t, frames[d], d, o)
      BY <1>4, <2>1, <3>1, EnteredGrown
    <3>. QED  BY <1>3, <3>2 DEF Entered
  <2>9. Paired(t, gr)
    <3>1. \A d \in 1 .. Len(frames) :
              \/ /\ d \in 1 .. Len(gr)
                 /\ \A o \in 1 .. Len(s) : Opened(s, frames[d], d, o) => Opened(t, gr[d], d, o)
              \/ \A o \in 1 .. Len(s) : Opened(s, frames[d], d, o) => Pair(t, o, Len(s) + 1)
      <4> SUFFICES ASSUME NEW d \in 1 .. Len(frames)
                   PROVE  \/ /\ d \in 1 .. Len(gr)
                             /\ \A o \in 1 .. Len(s) : Opened(s, frames[d], d, o) => Opened(t, gr[d], d, o)
                          \/ \A o \in 1 .. Len(s) : Opened(s, frames[d], d, o) => Pair(t, o, Len(s) + 1)
        OBVIOUS
      <4>1. CASE d = n
        BY <2>5, <4>1
      <4>2. CASE d # n
        <5>1. d \in 1 .. (n - 1) /\ d \in Nat /\ d <= n - 1
          BY ONLY <1>2, <2>3, <4>2, d \in 1 .. Len(frames)
        <5>2. gr[d] = frames[d] /\ d \in 1 .. Len(gr)
          BY <1>3, <5>1
        <5>3. x.depth \in Nat /\ d <= x.depth
          BY <1>6, <2>1, <5>1
        <5>. QED  BY <2>1, <5>1, <5>2, <5>3, OpenedGrown
      <4>. QED  BY <4>1, <4>2
    <3>. QED  BY <2>1, <2>2, <2>4, <3>1, PairedGrown
  <2>10. AtDepth(t, Len(gr))
    <3>1. Len(t) = Len(s) + 1 /\ t[Len(s) + 1] = x
      BY <2>1 DEF Grown
    <3>. QED  BY <1>3, <2>4, <3>1 DEF AtDepth
  <2>11. IsSeq(t) /\ Len(gr) <= JsonMaxDepth /\ ppStep' = "after"
    BY <1>1, <1>3, <1>6, <2>1 DEF Grown
  <2>. QED  BY <2>7, <2>8, <2>9, <2>10, <2>11 DEF LineInv, t, gr
<1>. QED  BY <1>7, <1>8

(* A value returns to its container. *)
LEMMA ReturnLines == ASSUME CursorInv, LineInv, ValueReturns PROVE LineInv'
<1> DEFINE n == Len(frames)
           e == IF Top.kind = "[" /\ Top.idx < Len(src) THEN Top.idx + 1 ELSE Top.idx
           f == [Top EXCEPT !.idx = e]
<1>1. /\ ppStep' = "loop" /\ path' = Top.mark /\ frames # <<>>
      /\ \/ ppLines' = ppLines
         \/ Len(ppLines) > 0 /\ ppLines' = [ppLines EXCEPT ![Len(ppLines)].comma = TRUE]
  BY DEF ValueReturns, json_pp_path_pop
<1>2. IsFrame(Top, Len(src)) /\ n \in 1 .. n /\ IsSeq(frames) /\ Top = frames[n]
  BY <1>1, TopFacts, LineFacts DEF Top
<1>3. frames' = Replaced(frames, n, f)
  <2>1. DOMAIN frames = 1 .. n
    BY <1>2, IsSeqIn
  <2>2. frames' = [frames EXCEPT ![Len(frames)].idx =
                       IF Top.kind = "[" /\ @ < Len(src) THEN @ + 1 ELSE @]
    BY DEF ValueReturns
  <2>. QED  BY <1>2, <2>1, <2>2 DEF IsFrame, Top, Replaced
<1>4. f.kind = Top.kind /\ f.mark = Top.mark
  BY <1>2, FrameIdx
<1> HIDE DEF f
<1>5. Len(frames') = n /\ frames'[n] = f /\ \A d \in 1 .. n : d # n => frames'[d] = frames[d]
  BY ONLY <1>2, <1>3, SeqReplaced DEF n
<1>6. \A d \in 1 .. n : frames'[d].kind = frames[d].kind /\ frames'[d].mark = frames[d].mark
  BY ONLY <1>2, <1>4, <1>5
<1>7. path' = (Top').mark
  <2>1. Top' = frames'[Len(frames')]
    BY DEF Top
  <2>. QED  BY <1>1, <1>4, <1>5, <2>1
<1>8. CASE ppLines' = ppLines
  BY <1>5, <1>6, <1>7, <1>8, SameLines
<1>9. CASE Len(ppLines) > 0 /\ ppLines' = [ppLines EXCEPT ![Len(ppLines)].comma = TRUE]
  <2>1. ppLines' = Replaced(ppLines, Len(ppLines), Marked(ppLines[Len(ppLines)]))
    BY <1>9 DEF Replaced, Marked
  <2>2. /\ IsSeq(ppLines') /\ Len(ppLines') = Len(ppLines) /\ Alike(ppLines, ppLines', Len(ppLines))
        /\ \A k \in 1 .. Len(ppLines') : IsLine(ppLines'[k])
    <3>1. IsSeq(ppLines) /\ Len(ppLines) > 0 /\ \A k \in 1 .. Len(ppLines) : IsLine(ppLines[k])
      BY <1>9, LineFacts
    <3>. QED  BY ONLY <2>1, <3>1, LastMarked
  <2>. QED  BY <1>5, <1>6, <1>7, <2>2, AlikeStep
<1>. QED  BY <1>1, <1>8, <1>9

(* The next member or element. *)
LEMMA NextLines == ASSUME CursorInv, LineInv, NextMember \/ NextElement PROVE LineInv'
<1> DEFINE n == Len(frames)
<1>1. /\ ppStep = "loop" /\ ppStep' = "value" /\ frames # <<>> /\ pos <= Len(src) /\ ppLines' = ppLines
      /\ path = Top.mark
  BY DEF NextMember, NextElement, Goes, CursorInv, JsonTypes, LineInv
<1>2. /\ pos \in Nat /\ Len(src) \in Nat /\ IsFrame(Top, Len(src)) /\ n \in 1 .. n
      /\ Top = frames[n] /\ IsSeq(frames)
      /\ DOMAIN frames = 1 .. n
  BY <1>1, TopFacts, IsSeqIn DEF CursorInv, JsonTypes, IsSeq, Top
<1>3. \E f : frames' = Replaced(frames, n, f) /\ f.kind = Top.kind /\ f.mark = path
  <2>1. CASE NextMember
    <3>1. PICK y, b : frames' = Replaced(frames, n, Member(Top, y, path, b))
      <4> DEFINE behind == IF IsString(src[pos]) THEN Scanned ELSE pos
                 at == IF AtToken(behind, ":") THEN behind + 1 ELSE behind
      <4>1. frames' = Replaced(frames, n, Member(Top, KeyAt(pos), path, at))
        BY <2>1, <1>2 DEF NextMember, Top, Member, Replaced
      <4> HIDE DEF at
      <4>. QED  BY <4>1
    <3>2. Member(Top, y, path, b).kind = Top.kind /\ Member(Top, y, path, b).mark = path
      BY <1>2 DEF IsFrame, Member
    <3>. QED  BY <3>1, <3>2
  <2>2. CASE NextElement
    <3>1. frames' = Replaced(frames, n, Element(Top, path, pos))
      BY <2>2, <1>2 DEF NextElement, Top, Element, Replaced
    <3>2. Element(Top, path, pos).kind = Top.kind /\ Element(Top, path, pos).mark = path
      BY <1>2 DEF IsFrame, Element
    <3>. QED  BY <3>1, <3>2
  <2>. QED  BY <2>1, <2>2
<1>4. PICK f : frames' = Replaced(frames, n, f) /\ f.kind = Top.kind /\ f.mark = path
  BY <1>3
<1>5. Len(frames') = n /\ frames'[n] = f /\ \A d \in 1 .. n : d # n => frames'[d] = frames[d]
  <2>1. IsSeq(frames) /\ n \in 1 .. n /\ frames' = Replaced(frames, n, f)
    BY <1>2, <1>4
  <2>. QED  BY ONLY <2>1, SeqReplaced DEF n
<1>6. \A d \in 1 .. n : frames'[d].kind = frames[d].kind /\ frames'[d].mark = frames[d].mark
  BY ONLY <1>1, <1>2, <1>4, <1>5
<1>. QED  BY <1>1, <1>5, <1>6, SameLines

(* Every step of the formatter keeps the tree. *)
LEMMA StepLines == CursorInv /\ LineInv /\ JsonStep => LineInv'
<1> SUFFICES ASSUME CursorInv, LineInv, JsonStep PROVE LineInv'
  OBVIOUS
<1>1. CASE ValueNone
  BY <1>1, SameLines DEF ValueNone
<1>2. CASE RunEnds
  BY <1>2, SameLines DEF RunEnds
<1>. QED  BY <1>1, <1>2, ScalarLines, OpenLines, EndLines, ReturnLines, NextLines DEF JsonStep

(* Before the first line. *)
LEMMA NoLines ==
    ASSUME NEW s, s = <<>>
    PROVE  IsSeq(s) /\ Len(s) = 0 /\ Tree(s) /\ Entered(s, s) /\ AtDepth(s, 0) /\ Paired(s, s)
<1>1. IsSeq(s) /\ Len(s) = 0
  BY DEF IsSeq
<1>. QED  BY <1>1 DEF Tree, Entered, AtDepth, Paired

(* The invariant of the lines holds at first ... *)
LEMMA LineInitInv == JsonInit => LineInv
<1> SUFFICES ASSUME JsonInit PROVE LineInv
  OBVIOUS
<1>1. ppLines = <<>> /\ frames = ppLines /\ ppStep = "idle"
  BY DEF JsonInit
<1>2. IsSeq(ppLines) /\ Len(ppLines) = 0 /\ Tree(ppLines) /\ Entered(ppLines, ppLines)
      /\ AtDepth(ppLines, 0) /\ Paired(ppLines, ppLines)
  BY <1>1, NoLines
<1>. QED  BY <1>1, <1>2, JsonAssumption DEF LineInv

(* ... when a run begins ... *)
LEMMA RunLines == ASSUME NEW t \in JsonInputs, json_pp_run(t) PROVE LineInv'
<1>1. ppLines' = <<>> /\ frames' = ppLines' /\ ppStep' = "value"
  BY DEF json_pp_run
<1>2. IsSeq(ppLines') /\ Len(ppLines') = 0 /\ Tree(ppLines') /\ Entered(ppLines', ppLines')
      /\ AtDepth(ppLines', 0) /\ Paired(ppLines', ppLines')
  BY <1>1, NoLines
<1>3. Len(frames') <= JsonMaxDepth
  BY <1>1, <1>2, JsonAssumption
<1>. QED  BY <1>1, <1>2, <1>3 DEF LineInv

(* ... and is inductive, given the one of the cursor. *)
LEMMA LineStepInv == CursorInv /\ LineInv /\ [JsonNext]_jsonVars => LineInv'
<1> SUFFICES ASSUME CursorInv, LineInv, [JsonNext]_jsonVars PROVE LineInv'
  OBVIOUS
<1>1. CASE JsonStep
  BY <1>1, StepLines
<1>2. CASE \E t \in JsonInputs : json_pp_run(t)
  BY <1>2, RunLines
<1>3. CASE UNCHANGED jsonVars
  BY <1>3 DEF jsonVars, LineInv, Full, Top
<1>. QED  BY <1>1, <1>2, <1>3 DEF JsonNext

(* The lines of the invariant nest. *)
LEMMA LinesInvNest == CursorInv /\ LineInv => LinesNest
<1> SUFFICES ASSUME CursorInv, LineInv PROVE LinesNest
  OBVIOUS
<1> DEFINE s == ppLines
<1>1. IsSeq(s) /\ DOMAIN s = 1 .. Len(s) /\ (s # <<>> <=> Len(s) > 0) /\ Len(s) \in Nat
  BY IsSeqIn, SeqNotEmpty DEF LineInv, IsSeq
<1>2. \A o, c : Brackets(o, c) <=> Pair(s, o, c)
  BY DEF Brackets, Pair
<1>3. \A k \in 1 .. Len(s) : s[k].depth \in Nat /\ s[k].depth < JsonMaxDepth
  BY DEF LineInv, Tree
<1>4. \A k \in DOMAIN s : s[k].depth \in 0 .. (JsonMaxDepth - 1)
  BY <1>1, <1>3, JsonAssumption
<1>5. s # <<>> => s[1].depth = 0
  BY <1>1 DEF LineInv, Tree
<1>6. \A k \in 1 .. (Len(s) - 1) : DepthFollows(k)
  <2> SUFFICES ASSUME NEW k \in 1 .. (Len(s) - 1) PROVE DepthFollows(k)
    OBVIOUS
  <2> DEFINE a == s[k]
             b == s[k + 1]
  <2>1. Over(b) = Under(a)
    BY DEF LineInv, Tree
  <2>2. a.depth \in Nat /\ b.depth \in Nat
    BY <1>1, <1>3
  <2>3. DepthFollows(k) <=>
            b.depth = a.depth + (IF OpensLine(a) THEN 1 ELSE 0) - (IF ClosesLine(b) THEN 1 ELSE 0)
    BY DEF DepthFollows
  <2> HIDE DEF a, b
  <2>. QED  BY <2>1, <2>2, <2>3 DEF Over, Under
<1>7. \A c \in DOMAIN s : ClosesLine(s[c]) => \E o \in DOMAIN s : Brackets(o, c)
  BY <1>1, <1>2 DEF LineInv, Tree
<1>8. ASSUME ppStep = "done", ~Full
      PROVE  \A o \in DOMAIN s : OpensLine(s[o]) => \E c \in DOMAIN s : Brackets(o, c)
  <2>1. Paired(s, frames)
    BY <1>8 DEF LineInv
  <2>2. Len(frames) = 0
    BY <1>8 DEF CursorInv, JsonTypes
  <2>. QED  BY <1>1, <1>2, <2>1, <2>2 DEF Paired
<1>. QED  BY <1>4, <1>5, <1>6, <1>7, <1>8 DEF LinesNest

(* Whatever the input, the lines form a tree: every closing bracket has    *)
(* its opening one, and unless the lines ran out all are closed.           *)
THEOREM LinesFormATree == JsonSpec => []LinesNest
<1>. QED  BY CursorInitInv, CursorStepInv, LineInitInv, LineStepInv, LinesInvNest, PTL DEF JsonSpec
=============================================================================
