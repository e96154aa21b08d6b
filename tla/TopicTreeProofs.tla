-------------------------- MODULE TopicTreeProofs --------------------------
(***************************************************************************)
(* Proofs about TopicTree, for every set of topics, every bound on the     *)
(* children of a node and any number of messages and disconnects.          *)
(***************************************************************************)
EXTENDS TopicTree, SubsequenceProofs, FiniteSetTheorems, SequenceTheorems, TLAPS

-----------------------------------------------------------------------------
(* The recursive functions of the model.                                   *)

(* The sums are the ones their definition says. *)
SumSolves(h, f, m) == h = [k \in 0 .. m |-> IF k = 0 THEN 0 ELSE h[k - 1] + f[k]]

(* The recursion of SumUpTo has a solution, which is the sum. *)
LEMMA SumRecursion ==
    ASSUME NEW f, NEW n \in Nat
    PROVE  /\ SumUpTo(f, n)[0] = 0
           /\ \A k \in 1 .. n : SumUpTo(f, n)[k] = SumUpTo(f, n)[k - 1] + f[k]
<1> DEFINE T == {m \in Nat : \E h : SumSolves(h, f, m)}
<1>1. 0 \in T
  <2>1. SumSolves([k \in 0 .. 0 |-> 0], f, 0)
    BY DEF SumSolves
  <2>. QED  BY <2>1
<1>2. ASSUME NEW m \in 1 .. n, m - 1 \in T PROVE m \in T
  <2>1. PICK h : SumSolves(h, f, m - 1)
    BY <1>2
  <2> DEFINE g == [k \in 0 .. m |-> IF k < m THEN h[k] ELSE h[m - 1] + f[m]]
  <2>2. ASSUME NEW k \in 0 .. m PROVE g[k] = IF k = 0 THEN 0 ELSE g[k - 1] + f[k]
    <3>1. CASE k = m
      <4>1. g[k - 1] = h[m - 1]
        BY <3>1
      <4>. QED  BY <3>1, <4>1
    <3>2. CASE k < m
      <4>1. h[k] = IF k = 0 THEN 0 ELSE h[k - 1] + f[k]
        BY <2>1, <3>2 DEF SumSolves
      <4>2. k # 0 => g[k - 1] = h[k - 1]
        BY <3>2
      <4>. QED  BY <3>2, <4>1, <4>2
    <3>. QED  BY <3>1, <3>2
  <2>3. SumSolves(g, f, m)
    BY <2>2 DEF SumSolves
  <2>. QED  BY <2>3
<1>3. n \in T
  <2> HIDE DEF T
  <2>. QED  BY <1>1, <1>2, UpTo
<1>4. PICK h : SumSolves(h, f, n)
  BY <1>3
<1>5. SumUpTo(f, n) = CHOOSE h2 : SumSolves(h2, f, n)
  BY DEF SumUpTo, SumSolves
<1>6. SumSolves(SumUpTo(f, n), f, n)
  BY <1>4, <1>5
<1>. QED  BY <1>6 DEF SumSolves

(* So are the turns of topic_tree_insert ... *)
WalkStart(t) == [tree |-> t, node |-> 0, full |-> FALSE]

WalkSolves(h, t, tokens, m) ==
    h = [k \in 0 .. m |-> IF k = 0 THEN WalkStart(t) ELSE Descend(h[k - 1], tokens[k])]

(* The loop of topic_tree_insert has a state after every token. *)
LEMMA WalkRecursion ==
    ASSUME NEW t, NEW tokens, Len(tokens) \in Nat
    PROVE  /\ Walk(t, tokens)[0] = WalkStart(t)
           /\ \A k \in 1 .. Len(tokens) :
                  Walk(t, tokens)[k] = Descend(Walk(t, tokens)[k - 1], tokens[k])
<1> DEFINE n == Len(tokens)
           T == {m \in Nat : \E h : WalkSolves(h, t, tokens, m)}
<1>0. n \in Nat
  OBVIOUS
<1> HIDE DEF n
<1>1. 0 \in T
  <2>1. WalkSolves([k \in 0 .. 0 |-> WalkStart(t)], t, tokens, 0)
    BY DEF WalkSolves
  <2>. QED  BY <2>1
<1>2. ASSUME NEW m \in 1 .. n, m - 1 \in T PROVE m \in T
  <2>0. m \in Nat /\ m - 1 \in Nat
    BY <1>0
  <2>1. PICK h : WalkSolves(h, t, tokens, m - 1)
    BY <1>2
  <2> DEFINE g == [k \in 0 .. m |-> IF k < m THEN h[k] ELSE Descend(h[m - 1], tokens[m])]
  <2>2. ASSUME NEW k \in 0 .. m
        PROVE  g[k] = IF k = 0 THEN WalkStart(t) ELSE Descend(g[k - 1], tokens[k])
    <3>1. CASE k = m
      <4>1. g[k - 1] = h[m - 1]
        BY <3>1
      <4>. QED  BY <3>1, <4>1
    <3>2. CASE k < m
      <4>1. h[k] = IF k = 0 THEN WalkStart(t) ELSE Descend(h[k - 1], tokens[k])
        BY <2>0, <2>1, <3>2 DEF WalkSolves
      <4>2. k # 0 => g[k - 1] = h[k - 1]
        BY <3>2
      <4>. QED  BY <3>2, <4>1, <4>2
    <3>. QED  BY <3>1, <3>2
  <2>3. WalkSolves(g, t, tokens, m)
    BY <2>2 DEF WalkSolves
  <2>. QED  BY <2>0, <2>3
<1>3. n \in T
  <2> HIDE DEF T
  <2>. QED  BY <1>0, <1>1, <1>2, UpTo
<1>4. PICK h : WalkSolves(h, t, tokens, n)
  BY <1>3
<1>5. Walk(t, tokens) = CHOOSE h2 : WalkSolves(h2, t, tokens, n)
  BY DEF Walk, WalkSolves, WalkStart, n
<1>6. WalkSolves(Walk(t, tokens), t, tokens, n)
  BY <1>4, <1>5
<1>. QED  BY <1>0, <1>6 DEF WalkSolves, n

(* ... and the way up to the root, in a tree whose nodes come after their  *)
(* parents.                                                                *)
Ordered(t) == Len(t) \in Nat /\ \A k \in 1 .. Len(t) : t[k].parent \in 0 .. (k - 1)

PathStep(k, above) == IF k = 0 THEN {} ELSE {k} \cup above

PathSolves(h, t, m) == h = [k \in 0 .. m |-> PathStep(k, h[t[k].parent])]

(* The walk to the root ends, since a node comes after its parent. *)
LEMMA PathRecursion ==
    ASSUME NEW t, Ordered(t)
    PROVE  /\ Path(t, 0) = {}
           /\ \A k \in 1 .. Len(t) : Path(t, k) = {k} \cup Path(t, t[k].parent)
<1> DEFINE n == Len(t)
           T == {m \in Nat : \E h : PathSolves(h, t, m)}
<1>0. n \in Nat /\ \A k \in 1 .. n : t[k].parent \in 0 .. (k - 1)
  BY DEF Ordered
<1> HIDE DEF n
<1>1. 0 \in T
  <2>1. PathSolves([k \in 0 .. 0 |-> {}], t, 0)
    BY DEF PathSolves, PathStep
  <2>. QED  BY <2>1
<1>2. ASSUME NEW m \in 1 .. n, m - 1 \in T PROVE m \in T
  <2>0. m \in Nat /\ m - 1 \in Nat
    BY <1>0
  <2>1. PICK h : PathSolves(h, t, m - 1)
    BY <1>2
  <2> DEFINE g == [k \in 0 .. m |-> IF k < m THEN h[k] ELSE PathStep(m, h[t[m].parent])]
  <2>2. ASSUME NEW k \in 0 .. m
        PROVE  g[k] = PathStep(k, g[t[k].parent])
    <3>1. CASE k = m
      <4>1. t[m].parent \in 0 .. (m - 1)
        BY <1>0
      <4>2. g[t[k].parent] = h[t[m].parent]
        BY <2>0, <3>1, <4>1
      <4>. QED  BY <2>0, <3>1, <4>2
    <3>2. CASE k < m
      <4>1. h[k] = PathStep(k, h[t[k].parent])
        BY <2>0, <2>1, <3>2 DEF PathSolves
      <4>2. k # 0 => g[t[k].parent] = h[t[k].parent]
        <5>1. k # 0 => t[k].parent \in 0 .. (k - 1)
          BY <1>0
        <5>. QED  BY <3>2, <5>1
      <4>3. g[k] = h[k]
        BY <3>2
      <4>4. CASE k = 0
        BY <4>1, <4>3, <4>4 DEF PathStep
      <4>5. CASE k # 0
        BY <4>1, <4>2, <4>3, <4>5
      <4>. QED  BY <4>4, <4>5
    <3>. QED  BY <3>1, <3>2
  <2>3. PathSolves(g, t, m)
    BY <2>2 DEF PathSolves
  <2>. QED  BY <2>0, <2>3
<1>3. n \in T
  <2> HIDE DEF T
  <2>. QED  BY <1>0, <1>1, <1>2, UpTo
<1>4. PICK h : PathSolves(h, t, n)
  BY <1>3
<1> DEFINE up == CHOOSE h2 : PathSolves(h2, t, n)
<1>5. PathSolves(up, t, n)
  BY <1>4
<1>6. \A k : Path(t, k) = up[k]
  BY DEF Path, PathSolves, PathStep, n
<1> HIDE DEF up
<1>7. up[0] = {} /\ \A k \in 1 .. n : up[k] = {k} \cup up[t[k].parent]
  BY <1>0, <1>5 DEF PathSolves, PathStep
<1>. QED  BY <1>6, <1>7 DEF n

-----------------------------------------------------------------------------
(* What the sums and the paths do.                                         *)

(* A sum of numbers is a number. *)
LEMMA SumIsNat ==
    ASSUME NEW n \in Nat, NEW f, \A k \in 1 .. n : f[k] \in Nat
    PROVE  \A k \in 0 .. n : SumUpTo(f, n)[k] \in Nat
<1> DEFINE sum == SumUpTo(f, n)
           T == {k \in Nat : sum[k] \in Nat}
<1>1. sum[0] = 0 /\ \A k \in 1 .. n : sum[k] = sum[k - 1] + f[k]
  BY SumRecursion
<1> HIDE DEF sum
<1>2. 0 \in T
  BY <1>1
<1>3. ASSUME NEW k \in 1 .. n, k - 1 \in T PROVE k \in T
  BY <1>1, <1>3
<1>4. \A k \in 0 .. n : k \in T
  <2> HIDE DEF T
  <2>. QED  BY <1>2, <1>3, UpTo
<1>. QED  BY <1>4 DEF sum

(* One number grows by d, and so does the sum. *)
Grown(f, g, n, c, d) ==
    /\ c \in 1 .. n /\ d \in Int /\ \A k \in 1 .. n : f[k] \in Nat
    /\ g[c] = f[c] + d /\ \A k \in 1 .. n : k # c => g[k] = f[k]

(* A sum changes by what its one changed term does. *)
LEMMA SumShift ==
    ASSUME NEW n \in Nat, NEW f, NEW g, NEW c, NEW d, Grown(f, g, n, c, d)
    PROVE  SumUpTo(g, n)[n] = SumUpTo(f, n)[n] + d
<1> DEFINE sf == SumUpTo(f, n)
           sg == SumUpTo(g, n)
           T == {k \in Nat : sg[k] = sf[k] + (IF k < c THEN 0 ELSE d)}
<1>0. /\ c \in 1 .. n /\ d \in Int /\ \A k \in 1 .. n : f[k] \in Nat
      /\ g[c] = f[c] + d /\ \A k \in 1 .. n : k # c => g[k] = f[k]
  BY DEF Grown
<1>1. sf[0] = 0 /\ \A k \in 1 .. n : sf[k] = sf[k - 1] + f[k]
  BY SumRecursion
<1>2. sg[0] = 0 /\ \A k \in 1 .. n : sg[k] = sg[k - 1] + g[k]
  BY SumRecursion
<1>3. \A k \in 0 .. n : sf[k] \in Nat
  BY <1>0, SumIsNat
<1> HIDE DEF sf, sg
<1>4. 0 \in T
  BY <1>0, <1>1, <1>2
<1>5. ASSUME NEW k \in 1 .. n, k - 1 \in T PROVE k \in T
  <2>1. /\ sg[k] = sg[k - 1] + g[k] /\ sf[k] = sf[k - 1] + f[k]
        /\ sf[k - 1] \in Nat /\ f[k] \in Nat /\ (k = c => g[k] = f[k] + d)
        /\ (k # c => g[k] = f[k])
    BY <1>0, <1>1, <1>2, <1>3
  <2>2. sg[k - 1] = sf[k - 1] + (IF k - 1 < c THEN 0 ELSE d)
    BY <1>5
  <2>3. CASE k < c
    BY <1>0, <2>1, <2>2, <2>3
  <2>4. CASE k = c
    BY <1>0, <2>1, <2>2, <2>4
  <2>5. CASE k > c
    BY <1>0, <2>1, <2>2, <2>5
  <2>. QED  BY <1>0, <2>3, <2>4, <2>5
<1>6. n \in T
  <2> HIDE DEF T
  <2>. QED  BY <1>4, <1>5, UpTo
<1>. QED  BY <1>0, <1>6 DEF sf, sg

(* No number is greater than the sum. *)
LEMMA SumBounds ==
    ASSUME NEW n \in Nat, NEW f, \A k \in 1 .. n : f[k] \in Nat, NEW c \in 1 .. n
    PROVE  f[c] <= SumUpTo(f, n)[n]
<1> DEFINE g == [k \in 1 .. n |-> IF k = c THEN 0 ELSE f[k]]
           sf == SumUpTo(f, n)[n]
           sg == SumUpTo(g, n)[n]
<1>1. \A k \in 1 .. n : g[k] \in Nat /\ (k # c => g[k] = f[k])
  OBVIOUS
<1>2. f[c] \in Nat /\ 0 - f[c] \in Int /\ g[c] = f[c] + (0 - f[c])
  OBVIOUS
<1> HIDE DEF g
<1>3. sg = sf + (0 - f[c])
  <2>1. Grown(f, g, n, c, 0 - f[c])
    BY <1>1, <1>2 DEF Grown
  <2>. QED  BY <2>1, SumShift
<1>4. sg \in Nat /\ sf \in Nat
  BY <1>1, SumIsNat
<1> HIDE DEF sg, sf
<1>5. f[c] <= sf
  BY <1>2, <1>3, <1>4
<1>. QED  BY <1>5 DEF sf

(* One more number at the end. *)
LEMMA SumExtends ==
    ASSUME NEW n \in Nat, NEW f, NEW g,
           \A k \in 1 .. n : f[k] \in Nat /\ g[k] = f[k], g[n + 1] = 0
    PROVE  SumUpTo(g, n + 1)[n + 1] = SumUpTo(f, n)[n]
<1> DEFINE sf == SumUpTo(f, n)
           sg == SumUpTo(g, n + 1)
           T == {k \in Nat : sg[k] = sf[k]}
<1>1. sf[0] = 0 /\ \A k \in 1 .. n : sf[k] = sf[k - 1] + f[k]
  BY SumRecursion
<1>2. sg[0] = 0 /\ \A k \in 1 .. (n + 1) : sg[k] = sg[k - 1] + g[k]
  BY SumRecursion
<1>3. \A k \in 0 .. n : sf[k] \in Nat
  BY SumIsNat
<1> HIDE DEF sf, sg
<1>4. 0 \in T
  BY <1>1, <1>2
<1>5. ASSUME NEW k \in 1 .. n, k - 1 \in T PROVE k \in T
  <2>1. sg[k] = sg[k - 1] + g[k] /\ sf[k] = sf[k - 1] + f[k] /\ g[k] = f[k]
    BY <1>1, <1>2
  <2>. QED  BY <1>5, <2>1
<1>6. n \in T
  <2> HIDE DEF T
  <2>. QED  BY <1>4, <1>5, UpTo
<1>7. sg[n + 1] = sg[n] + 0 /\ sg[n] = sf[n] /\ sf[n] \in Nat
  <2>1. n + 1 \in 1 .. (n + 1) /\ (n + 1) - 1 = n
    OBVIOUS
  <2>2. sg[n + 1] = sg[(n + 1) - 1] + g[n + 1]
    BY <1>2, <2>1
  <2>. QED  BY <1>3, <1>6, <2>1, <2>2
<1>8. sg[n + 1] = sf[n]
  BY <1>7
<1>. QED  BY <1>8 DEF sf, sg

(* Equal numbers, equal sums. *)
LEMMA SumSameEq ==
    ASSUME NEW n \in Nat, NEW f, NEW g, \A k \in 1 .. n : f[k] \in Nat /\ g[k] = f[k]
    PROVE  SumUpTo(g, n)[n] = SumUpTo(f, n)[n]
<1>1. CASE n = 0
  BY <1>1, SumRecursion
<1>2. CASE n # 0
  <2>1. 1 \in 1 .. n /\ 0 \in Int
    BY <1>2
  <2>2. g[1] = f[1] + 0
    BY <2>1
  <2>3. SumUpTo(g, n)[n] = SumUpTo(f, n)[n] + 0
    <3>1. Grown(f, g, n, 1, 0)
      BY <2>1, <2>2 DEF Grown
    <3>. QED  BY <3>1, SumShift
  <2>4. SumUpTo(f, n)[n] \in Nat
    BY SumIsNat
  <2>. QED  BY <2>3, <2>4
<1>. QED  BY <1>1, <1>2

(* Nothing adds up to nothing. *)
LEMMA SumOfZeros ==
    ASSUME NEW n \in Nat, NEW f, \A k \in 1 .. n : f[k] = 0
    PROVE  SumUpTo(f, n)[n] = 0
<1> DEFINE sum == SumUpTo(f, n)
           T == {k \in Nat : sum[k] = 0}
<1>1. sum[0] = 0 /\ \A k \in 1 .. n : sum[k] = sum[k - 1] + f[k]
  BY SumRecursion
<1> HIDE DEF sum
<1>2. 0 \in T
  BY <1>1
<1>3. ASSUME NEW k \in 1 .. n, k - 1 \in T PROVE k \in T
  BY <1>1, <1>3
<1>4. n \in T
  <2> HIDE DEF T
  <2>. QED  BY <1>2, <1>3, UpTo
<1>. QED  BY <1>4 DEF sum

(* A path is a chain from the root to n: each of its nodes but n has one   *)
(* child on it.                                                            *)
Chain(t, P, n) ==
    /\ n \in P /\ \A k \in P : k \in 1 .. n
    /\ \A c \in P : t[c].parent # 0 => t[c].parent \in P
    /\ \A k \in P : k # n =>
         \E c \in P : t[c].parent = k /\ \A d \in P : t[d].parent = k => d = c

(* The path of a node is a chain: a child on it for each node on it but    *)
(* the last.                                                               *)
LEMMA PathIsChain ==
    ASSUME NEW t, Ordered(t), NEW n \in 1 .. Len(t)
    PROVE  Chain(t, Path(t, n), n)
<1> DEFINE T == {m \in Nat : \A k \in 1 .. m : Chain(t, Path(t, k), k)}
<1>0. Len(t) \in Nat /\ \A k \in 1 .. Len(t) : t[k].parent \in 0 .. (k - 1)
  BY DEF Ordered
<1>1. 0 \in T
  OBVIOUS
<1>2. ASSUME NEW m \in 1 .. Len(t), m - 1 \in T PROVE m \in T
  <2> DEFINE p == t[m].parent
             P == Path(t, p)
             Q == Path(t, m)
  <2>0. m \in Nat /\ p \in 0 .. (m - 1)
    BY <1>0
  <2>1. Q = {m} \cup P
    BY PathRecursion
  <2>2. CASE p = 0
    <3>1. Q = {m}
      <4>1. P = {}
        BY <2>2, PathRecursion
      <4>. QED  BY <2>1, <4>1
    <3> HIDE DEF Q
    <3>2. Chain(t, Q, m)
      BY <2>0, <2>2, <3>1 DEF Chain
    <3>. QED  BY <1>2, <2>0, <3>2 DEF Q
  <2>3. CASE p # 0
    <3>1. Chain(t, P, p)
      BY <1>2, <2>0, <2>3
    <3>2. p \in P /\ \A k \in P : k \in 1 .. p
      BY <3>1 DEF Chain
    <3>3. \A k \in P : k # m /\ k \in 1 .. m /\ k \in 1 .. Len(t)
      BY <1>0, <2>0, <3>2
    <3>4. \A k \in P : t[k].parent # p
      <4>1. \A k \in P : t[k].parent \in 0 .. (k - 1)
        BY <1>0, <3>3
      <4>. QED  BY <2>0, <3>2, <4>1
    <3>5. t[m].parent = p
      OBVIOUS
    <3> HIDE DEF p, P, Q
    <3>6. m \in Q /\ \A k \in Q : k \in 1 .. m
      BY <2>0, <2>1, <3>3
    <3>7. \A c \in Q : t[c].parent # 0 => t[c].parent \in Q
      BY <2>1, <3>1, <3>2, <3>5 DEF Chain
    <3>8. ASSUME NEW k \in Q, k # m
          PROVE  \E c \in Q : t[c].parent = k /\ \A d \in Q : t[d].parent = k => d = c
      <4>1. CASE k = p
        BY <2>1, <3>4, <3>5, <4>1
      <4>2. CASE k # p
        <5>1. k \in P
          BY <2>1, <3>8
        <5>2. PICK c \in P : t[c].parent = k /\ \A d \in P : t[d].parent = k => d = c
          BY <3>1, <4>2, <5>1 DEF Chain
        <5>. QED  BY <2>1, <3>5, <4>2, <5>2
      <4>. QED  BY <4>1, <4>2
    <3>9. Chain(t, Q, m)
      BY <3>6, <3>7, <3>8 DEF Chain
    <3>. QED  BY <1>2, <2>0, <3>9 DEF Q
  <2>. QED  BY <2>2, <2>3
<1>3. Len(t) \in T
  <2> HIDE DEF T
  <2>1. \A k \in 0 .. Len(t) : k \in T
    BY <1>0, <1>1, <1>2, UpTo, Zenon
  <2>. QED  BY <1>0, <2>1
<1>. QED  BY <1>3

-----------------------------------------------------------------------------
(* Trees.                                                                  *)

(* What the nodes of a tree are, apart from their counts. *)
Shape(t) ==
    /\ t \in Seq(Node)
    /\ \A k \in 1 .. Len(t) : t[k].parent < k
    /\ \A p \in 0 .. Len(t) : Cardinality(Children(t, p)) <= MaxChildren

AddsUp(t) == \A n \in 1 .. Len(t) : t[n].subtree = t[n].own + Below(t, n)

Lag(t) ==
    \A n \in 1 .. Len(t) :
        /\ t[n].badge <= t[n].subtree /\ (t[n].badge = 0 <=> t[n].subtree = 0)
        /\ t[n].label <= t[n].own /\ (t[n].label = 0 <=> t[n].own = 0)

Unique(t) ==
    \A m, n \in 1 .. Len(t) :
        t[m].parent = t[n].parent /\ t[m].segment = t[n].segment => m = n

(* What every insert, message and Clear History keeps of the tree. *)
TreeInv(t) == Shape(t) /\ AddsUp(t) /\ Lag(t)

(* A node has the fields of a node. *)
LEMMA NodeFacts ==
    ASSUME NEW t \in Seq(Node), NEW k \in 1 .. Len(t)
    PROVE  /\ t[k] \in Node /\ t[k].parent \in Nat /\ t[k].own \in Nat /\ t[k].subtree \in Nat
           /\ t[k].label \in Nat /\ t[k].badge \in Nat
<1>1. t[k] \in Node
  BY ElementOfSeq
<1>. QED  BY <1>1 DEF Node

(* In a tree of the invariant's shape every node comes after its parent. *)
LEMMA ShapeIsOrdered ==
    ASSUME NEW t, Shape(t)
    PROVE  /\ Ordered(t) /\ Len(t) \in Nat /\ DOMAIN t = 1 .. Len(t)
           /\ \A k \in 1 .. Len(t) : t[k].parent \in 0 .. (k - 1)
<1>1. t \in Seq(Node) /\ \A k \in 1 .. Len(t) : t[k].parent < k
  BY DEF Shape
<1>2. Len(t) \in Nat /\ DOMAIN t = 1 .. Len(t)
  BY <1>1
<1>3. \A k \in 1 .. Len(t) : t[k].parent \in Nat
  BY <1>1, NodeFacts
<1>4. \A k \in 1 .. Len(t) : t[k].parent \in 0 .. (k - 1)
  BY <1>1, <1>2, <1>3
<1>. QED  BY <1>2, <1>4 DEF Ordered

(* The children of a node are finitely many. *)
LEMMA ChildrenFinite ==
    ASSUME NEW t, NEW p, Shape(t)
    PROVE  /\ IsFiniteSet(Children(t, p)) /\ Cardinality(Children(t, p)) \in Nat
           /\ Children(t, p) \in SUBSET (1 .. Len(t))
<1>1. Len(t) \in Nat /\ DOMAIN t = 1 .. Len(t)
  BY ShapeIsOrdered
<1>2. Children(t, p) \in SUBSET (1 .. Len(t))
  BY <1>1 DEF Children
<1>3. IsFiniteSet(1 .. Len(t))
  BY <1>1, FS_Interval
<1>4. IsFiniteSet(Children(t, p))
  BY <1>2, <1>3, FS_Subset
<1>. QED  BY <1>2, <1>4, FS_CardinalityType

(* The numbers a node adds up. *)
LEMMA ShareFacts ==
    ASSUME NEW t, NEW n, Shape(t)
    PROVE  \A k \in 1 .. Len(t) :
             Share(t, n)[k] = (IF t[k].parent = n THEN t[k].subtree ELSE 0)
             /\ Share(t, n)[k] \in Nat
<1>1. t \in Seq(Node) /\ DOMAIN t = 1 .. Len(t)
  BY ShapeIsOrdered DEF Shape
<1>2. \A k \in 1 .. Len(t) : t[k].subtree \in Nat
  BY <1>1, NodeFacts
<1>. QED  BY <1>1, <1>2 DEF Share

(* The same nodes, with other counts. *)
SameNodes(t, u) ==
    /\ u \in Seq(Node) /\ Len(u) = Len(t)
    /\ \A k \in 1 .. Len(t) : u[k].parent = t[k].parent /\ u[k].segment = t[k].segment

(* A change of counters and payloads leaves the shape alone. *)
LEMMA SameShape ==
    ASSUME NEW t, NEW u, Shape(t), SameNodes(t, u)
    PROVE  Shape(u) /\ (Unique(t) => Unique(u))
<1>1. t \in Seq(Node) /\ u \in Seq(Node) /\ Len(u) = Len(t)
  BY DEF Shape, SameNodes
<1>2. DOMAIN t = DOMAIN u /\ DOMAIN t = 1 .. Len(t)
  BY <1>1
<1>3. \A p : Children(u, p) = Children(t, p)
  BY <1>2 DEF SameNodes, Children
<1>4. Shape(u)
  BY <1>1, <1>3 DEF Shape, SameNodes
<1>5. Unique(t) => Unique(u)
  BY <1>1 DEF Unique, SameNodes
<1>. QED  BY <1>4, <1>5

(* The counts on the path to n change by the same number as n's own, and   *)
(* they still add up.                                                      *)
LEMMA PathShift ==
    ASSUME NEW t, NEW u, Shape(t), Shape(u), SameNodes(t, u), AddsUp(t),
           NEW n \in 1 .. Len(t), NEW d \in Int,
           \A k \in 1 .. Len(t) :
               u[k].subtree = t[k].subtree + (IF k \in Path(t, n) THEN d ELSE 0),
           \A k \in 1 .. Len(t) : u[k].own = t[k].own + (IF k = n THEN d ELSE 0)
    PROVE  AddsUp(u)
<1> DEFINE P == Path(t, n)
           N == Len(t)
<1>1. N \in Nat /\ Len(u) = N /\ Ordered(t) /\ \A k \in 1 .. N : t[k].parent \in 0 .. (k - 1)
  BY ShapeIsOrdered DEF SameNodes
<1>2. Chain(t, P, n)
  BY <1>1, PathIsChain
<1>3. \A k \in P : k \in 1 .. N /\ k \in 1 .. n
  BY <1>1, <1>2 DEF Chain
<1>4. ASSUME NEW m \in 1 .. N PROVE u[m].subtree = u[m].own + Below(u, m)
  <2> DEFINE f == Share(t, m)
             g == Share(u, m)
  <2>1. \A k \in 1 .. N : /\ f[k] = (IF t[k].parent = m THEN t[k].subtree ELSE 0)
                          /\ f[k] \in Nat
    BY ShareFacts
  <2>2. \A k \in 1 .. N : g[k] = (IF t[k].parent = m THEN u[k].subtree ELSE 0)
    <3>1. \A k \in 1 .. Len(u) : g[k] = (IF u[k].parent = m THEN u[k].subtree ELSE 0)
      BY ShareFacts
    <3>2. \A k \in 1 .. N : u[k].parent = t[k].parent
      BY DEF SameNodes
    <3>. QED  BY <1>1, <3>1, <3>2
  <2>3. Below(t, m) = SumUpTo(f, N)[N] /\ Below(u, m) = SumUpTo(g, N)[N]
    BY <1>1 DEF Below
  <2>4. t[m].subtree = t[m].own + Below(t, m)
    BY DEF AddsUp
  <2>5. t[m].own \in Nat /\ t[m].subtree \in Nat
    BY NodeFacts DEF Shape
  <2>6. Below(t, m) \in Nat /\ \A k \in 1 .. N : t[k].subtree \in Nat
    <3>1. \A k \in 1 .. N : t[k].subtree \in Nat
      BY NodeFacts DEF Shape
    <3> HIDE DEF N, f
    <3>2. N \in 0 .. N
      BY <1>1
    <3>3. SumUpTo(f, N)[N] \in Nat
      BY <1>1, <2>1, <3>2, SumIsNat
    <3>. QED  BY <2>3, <3>1, <3>3
  <2> HIDE DEF f, g, P, N
  <2>7. \A k \in 1 .. N : u[k].subtree = t[k].subtree + (IF k \in P THEN d ELSE 0)
    BY DEF P, N
  <2>8. u[m].own = t[m].own + (IF m = n THEN d ELSE 0)
    BY DEF N
  <2>9. CASE m = n
    <3>1. \A k \in 1 .. N : t[k].parent = m => k \notin P
      BY <1>1, <1>3, <2>9
    <3>2. \A k \in 1 .. N : g[k] = f[k]
      BY <2>1, <2>2, <2>6, <2>7, <3>1
    <3>3. Below(u, m) = Below(t, m)
      BY <1>1, <2>1, <2>3, <3>2, SumSameEq
    <3>4. m \in P
      BY <1>2, <2>9 DEF Chain
    <3>. QED  BY <2>4, <2>5, <2>6, <2>7, <2>8, <2>9, <3>3, <3>4
  <2>10. CASE m # n /\ m \in P
    <3>1. PICK c \in P : t[c].parent = m /\ \A e \in P : t[e].parent = m => e = c
      BY <1>2, <2>10 DEF Chain
    <3>2. c \in 1 .. N
      BY <1>3, <3>1
    <3>3. g[c] = f[c] + d /\ \A k \in 1 .. N : k # c => g[k] = f[k]
      BY <2>1, <2>2, <2>6, <2>7, <3>1, <3>2
    <3>4. Below(u, m) = Below(t, m) + d
      <4>1. Grown(f, g, N, c, d)
        BY <2>1, <3>2, <3>3 DEF Grown
      <4>2. SumUpTo(g, N)[N] = SumUpTo(f, N)[N] + d
        BY <1>1, <4>1, SumShift
      <4>. QED  BY <2>3, <4>2
    <3>5. u[m].subtree = t[m].subtree + d /\ u[m].own = t[m].own + 0
      <4>1. m \in 1 .. N
        BY DEF N
      <4>. QED  BY <2>7, <2>8, <2>10, <4>1
    <3>. QED  BY <2>4, <2>5, <2>6, <3>4, <3>5
  <2>11. CASE m \notin P
    <3>1. \A k \in 1 .. N : t[k].parent = m => k \notin P
      <4>1. m # 0
        BY <1>1
      <4>. QED  BY <1>2, <2>11, <4>1 DEF Chain
    <3>2. \A k \in 1 .. N : g[k] = f[k]
      BY <2>1, <2>2, <2>6, <2>7, <3>1
    <3>3. Below(u, m) = Below(t, m)
      BY <1>1, <2>1, <2>3, <3>2, SumSameEq
    <3>4. m # n
      BY <1>2, <2>11 DEF Chain
    <3>. QED  BY <2>4, <2>5, <2>6, <2>7, <2>8, <2>11, <3>3, <3>4
  <2>. QED  BY <2>9, <2>10, <2>11
<1>. QED  BY <1>1, <1>4 DEF AddsUp

(* A node counts no more than the ones above it. *)
LEMMA PathGrows ==
    ASSUME NEW t, Shape(t), AddsUp(t), NEW n \in 1 .. Len(t)
    PROVE  \A k \in Path(t, n) : k \in 1 .. Len(t) /\ t[n].own <= t[k].subtree
<1> DEFINE N == Len(t)
           T == {m \in Nat : \A k \in 1 .. m : \A a \in Path(t, k) : t[k].subtree <= t[a].subtree}
<1>1. N \in Nat /\ Ordered(t) /\ \A k \in 1 .. N : t[k].parent \in 0 .. (k - 1)
  BY ShapeIsOrdered
<1>2. \A k \in 1 .. N : /\ t[k].subtree \in Nat /\ t[k].own \in Nat
                        /\ \A a \in Path(t, k) : a \in 1 .. N
  <2>1. \A k \in 1 .. N : t[k].subtree \in Nat /\ t[k].own \in Nat
    BY NodeFacts DEF Shape
  <2>2. \A k \in 1 .. N : \A a \in Path(t, k) : a \in 1 .. k
    BY <1>1, PathIsChain DEF Chain
  <2>. QED  BY <1>1, <2>1, <2>2
<1>3. \A m \in 1 .. N : Below(t, m) \in Nat /\ t[m].subtree = t[m].own + Below(t, m)
  <2>1. \A m \in 1 .. N : Below(t, m) \in Nat
    <3> SUFFICES ASSUME NEW m \in 1 .. N PROVE Below(t, m) \in Nat
      OBVIOUS
    <3>1. \A k \in 1 .. N : Share(t, m)[k] \in Nat
      BY ShareFacts
    <3>2. N \in 0 .. N
      BY <1>1
    <3>. QED  BY <1>1, <3>1, <3>2, SumIsNat DEF Below
  <2>. QED  BY <2>1 DEF AddsUp
<1>4. \A k \in 1 .. N : t[k].parent # 0 => t[k].subtree <= t[t[k].parent].subtree
  <2> SUFFICES ASSUME NEW k \in 1 .. N, t[k].parent # 0
               PROVE  t[k].subtree <= t[t[k].parent].subtree
    OBVIOUS
  <2> DEFINE p == t[k].parent
  <2>1. p \in 1 .. N
    BY <1>1
  <2>2. \A j \in 1 .. N : Share(t, p)[j] \in Nat
    BY ShareFacts
  <2>3. Share(t, p)[k] = t[k].subtree
    BY ShareFacts
  <2> HIDE DEF p, N
  <2>4. Share(t, p)[k] <= SumUpTo(Share(t, p), N)[N]
    BY <1>1, <2>2, SumBounds
  <2>5. t[k].subtree <= Below(t, p)
    BY <2>3, <2>4 DEF Below, N
  <2>6. /\ t[k].subtree \in Nat /\ t[p].own \in Nat /\ Below(t, p) \in Nat
        /\ t[p].subtree = t[p].own + Below(t, p)
    BY <1>2, <1>3, <2>1
  <2>7. t[k].subtree <= t[p].subtree
    BY <2>5, <2>6
  <2>. QED  BY <2>7 DEF p
<1> HIDE DEF N
<1>5. 0 \in T
  OBVIOUS
<1>6. ASSUME NEW m \in 1 .. N, m - 1 \in T PROVE m \in T
  <2> DEFINE p == t[m].parent
  <2>1. m \in Nat /\ p \in 0 .. (m - 1)
    BY <1>1
  <2>2. Path(t, m) = {m} \cup Path(t, p) /\ Path(t, 0) = {}
    BY <1>1, PathRecursion DEF N
  <2>3. ASSUME NEW a \in Path(t, m) PROVE t[m].subtree <= t[a].subtree
    <3>1. CASE a = m
      BY <1>2, <3>1
    <3>2. CASE a \in Path(t, p)
      <4>1. p # 0 /\ p \in 1 .. (m - 1) /\ p \in 1 .. N
        BY <1>1, <2>1, <2>2, <3>2
      <4>2. t[p].subtree <= t[a].subtree
        BY <1>6, <3>2, <4>1
      <4>3. t[m].subtree <= t[p].subtree
        BY <1>4, <4>1
      <4>4. t[m].subtree \in Nat /\ t[p].subtree \in Nat /\ t[a].subtree \in Nat
        BY <1>2, <3>2, <4>1
      <4> HIDE DEF p
      <4>. QED  BY <4>2, <4>3, <4>4
    <3>. QED  BY <2>2, <2>3, <3>1, <3>2
  <2>4. \A k \in 1 .. m : k = m \/ k \in 1 .. (m - 1)
    BY <2>1
  <2>. QED  BY <1>6, <2>1, <2>3, <2>4
<1>7. N \in T
  <2> HIDE DEF T
  <2>1. \A k \in 0 .. N : k \in T
    BY <1>1, <1>5, <1>6, UpTo
  <2>. QED  BY <1>1, <2>1
<1>8. n \in 1 .. N
  BY DEF N
<1>9. \A k \in Path(t, n) : t[n].subtree <= t[k].subtree /\ k \in 1 .. N
  BY <1>2, <1>7, <1>8
<1>10. t[n].own <= t[n].subtree
  BY <1>2, <1>3, <1>8
<1>. QED  BY <1>2, <1>8, <1>9, <1>10 DEF N

-----------------------------------------------------------------------------
(* The operations on a tree.                                               *)

(* A badge that is refreshed, or that was not due and not blank. *)
Shows(shown, count) == shown <= count /\ (shown = 0 <=> count = 0)

(* The badges and labels lag, told per number. *)
LEMMA LagIsShows ==
    ASSUME NEW t
    PROVE  Lag(t) <=> \A n \in 1 .. Len(t) :
                          Shows(t[n].badge, t[n].subtree) /\ Shows(t[n].label, t[n].own)
BY DEF Lag, Shows

(* A refreshed or first number shows the count; another one lags more. *)
LEMMA ShowsNext ==
    ASSUME NEW shown \in Nat, NEW count \in Nat, Shows(shown, count), NEW due
    PROVE  /\ Shows(IF count + 1 = 1 \/ due THEN count + 1 ELSE shown, count + 1)
           /\ (IF count + 1 = 1 \/ due THEN count + 1 ELSE shown) \in Nat
<1>1. CASE count + 1 = 1 \/ due
  BY <1>1 DEF Shows
<1>2. CASE ~(count + 1 = 1 \/ due)
  BY <1>2 DEF Shows
<1>. QED  BY <1>1, <1>2

(* topic_node_count_message, on a node of the path and on the last one. *)
Passed(r, due) ==
    [r EXCEPT !.subtree = r.subtree + 1,
              !.badge = IF r.subtree + 1 = 1 \/ due THEN r.subtree + 1 ELSE r.badge]

Hit(r, due, refresh, payload) ==
    [r EXCEPT !.subtree = r.subtree + 1,
              !.badge = IF r.subtree + 1 = 1 \/ due THEN r.subtree + 1 ELSE r.badge,
              !.own = r.own + 1,
              !.label = IF r.own + 1 = 1 \/ refresh THEN r.own + 1 ELSE @,
              !.shown = IF r.own + 1 = 1 \/ refresh THEN payload ELSE @,
              !.latest = payload]

(* What a message makes of an ancestor of its node. *)
LEMMA PassedFacts ==
    ASSUME NEW r \in Node, Shows(r.badge, r.subtree), NEW due
    PROVE  LET u == Passed(r, due)
           IN  /\ u \in Node /\ u.parent = r.parent /\ u.segment = r.segment
               /\ u.subtree = r.subtree + 1 /\ u.own = r.own /\ u.label = r.label
               /\ Shows(u.badge, u.subtree)
<1> DEFINE b == IF r.subtree + 1 = 1 \/ due THEN r.subtree + 1 ELSE r.badge
<1>1. r.subtree \in Nat /\ r.badge \in Nat
  BY DEF Node
<1>2. Shows(b, r.subtree + 1) /\ b \in Nat
  BY <1>1, ShowsNext
<1>3. Passed(r, due) = [r EXCEPT !.subtree = r.subtree + 1, !.badge = b]
  BY DEF Passed
<1> HIDE DEF b
<1> DEFINE u == Passed(r, due)
<1>4. r.subtree + 1 \in Nat
  BY <1>1
<1>5. u \in Node
  BY <1>2, <1>3, <1>4 DEF Node
<1>6. /\ u.parent = r.parent /\ u.segment = r.segment /\ u.subtree = r.subtree + 1
      /\ u.own = r.own /\ u.label = r.label /\ u.badge = b
  BY <1>3 DEF Node
<1> HIDE DEF u
<1>. QED  BY <1>2, <1>5, <1>6 DEF u

(* What a message makes of its node. *)
LEMMA HitFacts ==
    ASSUME NEW r \in Node, Shows(r.badge, r.subtree), Shows(r.label, r.own), NEW due,
           NEW refresh, NEW payload \in Payloads \cup {NoPayload}
    PROVE  LET u == Hit(r, due, refresh, payload)
           IN  /\ u \in Node /\ u.parent = r.parent /\ u.segment = r.segment
               /\ u.subtree = r.subtree + 1 /\ u.own = r.own + 1
               /\ Shows(u.badge, u.subtree) /\ Shows(u.label, u.own)
<1> DEFINE b == IF r.subtree + 1 = 1 \/ due THEN r.subtree + 1 ELSE r.badge
           l == IF r.own + 1 = 1 \/ refresh THEN r.own + 1 ELSE r.label
           p == IF r.own + 1 = 1 \/ refresh THEN payload ELSE r.shown
<1>1. r.subtree \in Nat /\ r.badge \in Nat /\ r.own \in Nat /\ r.label \in Nat
  BY DEF Node
<1>2. Shows(b, r.subtree + 1) /\ b \in Nat
  BY <1>1, ShowsNext
<1>3. Shows(l, r.own + 1) /\ l \in Nat
  BY <1>1, ShowsNext
<1>4. p \in Payloads \cup {NoPayload}
  BY DEF Node
<1>5. Hit(r, due, refresh, payload) =
        [r EXCEPT !.subtree = r.subtree + 1, !.badge = b, !.own = r.own + 1, !.label = l,
                  !.shown = p, !.latest = payload]
  BY DEF Hit
<1> HIDE DEF b, l, p
<1>6. r.subtree + 1 \in Nat /\ r.own + 1 \in Nat
  BY <1>1
<1> DEFINE u == Hit(r, due, refresh, payload)
<1>7. u \in Node
  BY <1>2, <1>3, <1>4, <1>5, <1>6 DEF Node
<1>8. /\ u.parent = r.parent /\ u.segment = r.segment /\ u.subtree = r.subtree + 1
      /\ u.own = r.own + 1 /\ u.badge = b /\ u.label = l
  BY <1>5 DEF Node
<1> HIDE DEF u
<1>9. Shows(u.badge, u.subtree) /\ Shows(u.label, u.own)
  BY <1>2, <1>3, <1>8
<1>. QED  BY <1>7, <1>8, <1>9 DEF u

(* Counting a message up the path keeps the sums. *)
LEMMA CountedInv ==
    ASSUME NEW t, TreeInv(t), NEW n \in 1 .. Len(t), NEW payload \in Payloads \cup {NoPayload},
           NEW due, NEW refresh
    PROVE  LET u == Counted(t, n, payload, due, refresh)
           IN  TreeInv(u) /\ SameNodes(t, u) /\ u[n].own = t[n].own + 1
<1> DEFINE u == Counted(t, n, payload, due, refresh)
           N == Len(t)
           P == Path(t, n)
<1>1. Shape(t) /\ AddsUp(t) /\ Lag(t) /\ t \in Seq(Node)
  BY DEF TreeInv, Shape
<1>2. N \in Nat /\ DOMAIN t = 1 .. N /\ Ordered(t)
  BY <1>1, ShapeIsOrdered
<1>3. n \in P /\ \A k \in P : k \in 1 .. N
  BY <1>1, <1>2, PathIsChain DEF Chain
<1>4. \A k \in 1 .. N : /\ t[k] \in Node /\ t[k].subtree \in Nat /\ t[k].own \in Nat
                        /\ Shows(t[k].badge, t[k].subtree) /\ Shows(t[k].label, t[k].own)
  BY <1>1, NodeFacts, LagIsShows
<1>5. u = [k \in 1 .. N |-> IF k \notin P THEN t[k]
                            ELSE IF k # n THEN Passed(t[k], k \in due)
                            ELSE Hit(t[k], k \in due, refresh, payload)]
  BY <1>2 DEF Counted, Passed, Hit
<1>6. ASSUME NEW k \in 1 .. N
      PROVE  /\ u[k] \in Node /\ u[k].parent = t[k].parent /\ u[k].segment = t[k].segment
             /\ u[k].subtree = t[k].subtree + (IF k \in P THEN 1 ELSE 0)
             /\ u[k].own = t[k].own + (IF k = n THEN 1 ELSE 0)
             /\ Shows(u[k].badge, u[k].subtree) /\ Shows(u[k].label, u[k].own)
  <2>1. CASE k \notin P
    <3>1. u[k] = t[k] /\ k # n
      BY <1>3, <1>5, <2>1
    <3> HIDE DEF u, P
    <3>. QED  BY <1>4, <2>1, <3>1
  <2>2. CASE k \in P /\ k # n
    <3>1. u[k] = Passed(t[k], k \in due)
      BY <1>5, <2>2
    <3> HIDE DEF u, P
    <3>2. /\ u[k] \in Node /\ u[k].parent = t[k].parent /\ u[k].segment = t[k].segment
          /\ u[k].subtree = t[k].subtree + 1 /\ u[k].own = t[k].own
          /\ u[k].label = t[k].label /\ Shows(u[k].badge, u[k].subtree)
      BY <1>4, <3>1, PassedFacts
    <3>. QED  BY <1>4, <2>2, <3>2
  <2>3. CASE k = n
    <3>1. u[k] = Hit(t[k], k \in due, refresh, payload) /\ k \in P
      BY <1>3, <1>5, <2>3
    <3> HIDE DEF u, P
    <3>2. /\ u[k] \in Node /\ u[k].parent = t[k].parent /\ u[k].segment = t[k].segment
          /\ u[k].subtree = t[k].subtree + 1 /\ u[k].own = t[k].own + 1
          /\ Shows(u[k].badge, u[k].subtree) /\ Shows(u[k].label, u[k].own)
      BY <1>4, <3>1, HitFacts
    <3>. QED  BY <2>3, <3>1, <3>2
  <2>. QED  BY <2>1, <2>2, <2>3
<1>7. u \in Seq(Node) /\ Len(u) = N
  <2>1. u \in [1 .. N -> Node]
    <3>1. \A k \in 1 .. N : u[k] \in Node
      BY <1>6
    <3>2. DOMAIN u = 1 .. N /\ u = [k \in DOMAIN u |-> u[k]]
      BY <1>5
    <3> HIDE DEF u
    <3>. QED  BY <3>1, <3>2
  <2> HIDE DEF u
  <2>. QED  BY <1>2, <2>1
<1> HIDE DEF u
<1>8. SameNodes(t, u)
  BY <1>6, <1>7 DEF SameNodes
<1>9. Shape(u)
  BY <1>1, <1>8, SameShape
<1>10. AddsUp(u)
  <2>1. \A k \in 1 .. N : u[k].subtree = t[k].subtree + (IF k \in P THEN 1 ELSE 0)
    BY <1>6
  <2>2. \A k \in 1 .. N : u[k].own = t[k].own + (IF k = n THEN 1 ELSE 0)
    BY <1>6
  <2>. QED  BY <1>1, <1>8, <1>9, <2>1, <2>2, PathShift
<1>11. Lag(u)
  BY <1>6, <1>7, LagIsShows
<1>12. u[n].own = t[n].own + 1
  BY <1>6
<1>. QED  BY <1>8, <1>9, <1>10, <1>11, <1>12 DEF TreeInv, u

(* topic_node_clear_messages, on a node of the path and on the cleared one. *)
Reduced(r, own) ==
    LET subtree == IF r.subtree > own THEN r.subtree - own ELSE 0
    IN  IF own > 0 THEN [r EXCEPT !.subtree = subtree, !.badge = subtree] ELSE r

Emptied(r) == [r EXCEPT !.own = 0, !.label = 0, !.shown = NoPayload, !.latest = NoPayload]

(* What Clear History makes of an ancestor: no counter goes below zero. *)
LEMMA ReducedFacts ==
    ASSUME NEW r \in Node, Shows(r.badge, r.subtree), NEW own \in Nat, own <= r.subtree
    PROVE  LET u == Reduced(r, own)
           IN  /\ u \in Node /\ u.parent = r.parent /\ u.segment = r.segment
               /\ u.subtree = r.subtree + (0 - own) /\ u.own = r.own /\ u.label = r.label
               /\ Shows(u.badge, u.subtree)
<1> DEFINE s == IF r.subtree > own THEN r.subtree - own ELSE 0
           u == Reduced(r, own)
<1>1. r.subtree \in Nat /\ r.badge \in Nat
  BY DEF Node
<1>2. s \in Nat /\ s = r.subtree + (0 - own) /\ Shows(s, s)
  BY <1>1 DEF Shows
<1>3. CASE own > 0
  <2>1. u = [r EXCEPT !.subtree = s, !.badge = s]
    BY <1>3 DEF Reduced
  <2> HIDE DEF u, s
  <2>2. u \in Node
    BY <1>2, <2>1 DEF Node
  <2>3. /\ u.parent = r.parent /\ u.segment = r.segment /\ u.subtree = s
        /\ u.own = r.own /\ u.label = r.label /\ u.badge = s
    BY <2>1 DEF Node
  <2>. QED  BY <1>2, <2>2, <2>3 DEF u
<1>4. CASE ~(own > 0)
  <2>1. u = r
    BY <1>4 DEF Reduced
  <2>2. r.subtree = r.subtree + (0 - own)
    BY <1>1, <1>4
  <2>. QED  BY <2>1, <2>2
<1>. QED  BY <1>3, <1>4

(* What Clear History makes of the node itself. *)
LEMMA EmptiedFacts ==
    ASSUME NEW r \in Node
    PROVE  LET u == Emptied(r)
           IN  /\ u \in Node /\ u.parent = r.parent /\ u.segment = r.segment
               /\ u.subtree = r.subtree /\ u.badge = r.badge /\ u.own = 0 /\ u.label = 0
BY DEF Emptied, Node

(* Clear History keeps the sums. *)
LEMMA ClearedInv ==
    ASSUME NEW t, TreeInv(t), NEW n \in 1 .. Len(t)
    PROVE  TreeInv(Cleared(t, n)) /\ SameNodes(t, Cleared(t, n))
<1> DEFINE u == Cleared(t, n)
           N == Len(t)
           P == Path(t, n)
           own == t[n].own
           d == 0 - own
<1>1. Shape(t) /\ AddsUp(t) /\ Lag(t) /\ t \in Seq(Node)
  BY DEF TreeInv, Shape
<1>2. N \in Nat /\ DOMAIN t = 1 .. N /\ Ordered(t)
  BY <1>1, ShapeIsOrdered
<1>3. n \in P /\ \A k \in P : k \in 1 .. N /\ own <= t[k].subtree
  BY <1>1, <1>2, PathIsChain, PathGrows DEF Chain
<1>4. \A k \in 1 .. N : /\ t[k] \in Node /\ t[k].subtree \in Nat /\ t[k].own \in Nat
                        /\ Shows(t[k].badge, t[k].subtree) /\ Shows(t[k].label, t[k].own)
  BY <1>1, NodeFacts, LagIsShows
<1>5. own \in Nat /\ d \in Int /\ Shows(0, 0)
  BY <1>4 DEF Shows
<1>6. u = [k \in 1 .. N |-> IF k \notin P THEN t[k]
                            ELSE IF k # n THEN Reduced(t[k], own)
                            ELSE Emptied(Reduced(t[k], own))]
  <2>1. u = [k \in 1 .. N |->
               LET r == IF k \in P /\ own > 0 THEN Reduced(t[k], own) ELSE t[k]
               IN  IF k # n THEN r ELSE Emptied(r)]
    BY <1>2 DEF Cleared, Reduced, Emptied
  <2>2. \A k \in 1 .. N : ~(own > 0) => Reduced(t[k], own) = t[k]
    BY DEF Reduced
  <2> HIDE DEF u, P, own, N
  <2>. QED  BY <1>3, <2>1, <2>2
<1>7. ASSUME NEW k \in 1 .. N
      PROVE  /\ u[k] \in Node /\ u[k].parent = t[k].parent /\ u[k].segment = t[k].segment
             /\ u[k].subtree = t[k].subtree + (IF k \in P THEN d ELSE 0)
             /\ u[k].own = t[k].own + (IF k = n THEN d ELSE 0)
             /\ Shows(u[k].badge, u[k].subtree) /\ Shows(u[k].label, u[k].own)
  <2>1. CASE k \notin P
    <3>1. u[k] = t[k] /\ k # n
      BY <1>3, <1>6, <2>1
    <3> HIDE DEF u, P, d
    <3>. QED  BY <1>4, <2>1, <3>1
  <2>2. CASE k \in P
    <3> DEFINE r == Reduced(t[k], own)
    <3>1. /\ r \in Node /\ r.parent = t[k].parent /\ r.segment = t[k].segment
          /\ r.subtree = t[k].subtree + d /\ r.own = t[k].own /\ r.label = t[k].label
          /\ Shows(r.badge, r.subtree)
      BY <1>3, <1>4, <1>5, <2>2, ReducedFacts
    <3>2. CASE k # n
      <4>1. u[k] = r
        BY <1>6, <2>2, <3>2
      <4> HIDE DEF u, P, d, r
      <4>. QED  BY <1>4, <2>2, <3>1, <3>2, <4>1
    <3>3. CASE k = n
      <4>1. u[k] = Emptied(r)
        BY <1>3, <1>6, <3>3
      <4>2. t[k].own + d = 0
        BY <1>5, <3>3
      <4> HIDE DEF u, P, d, r
      <4>3. /\ u[k] \in Node /\ u[k].parent = r.parent /\ u[k].segment = r.segment
            /\ u[k].subtree = r.subtree /\ u[k].badge = r.badge /\ u[k].own = 0
            /\ u[k].label = 0
        BY <3>1, <4>1, EmptiedFacts
      <4>. QED  BY <1>5, <2>2, <3>1, <3>3, <4>2, <4>3
    <3>. QED  BY <3>2, <3>3
  <2>. QED  BY <2>1, <2>2
<1>8. u \in Seq(Node) /\ Len(u) = N
  <2>1. u \in [1 .. N -> Node]
    <3>1. \A k \in 1 .. N : u[k] \in Node
      BY <1>7
    <3>2. DOMAIN u = 1 .. N /\ u = [k \in DOMAIN u |-> u[k]]
      BY <1>6
    <3> HIDE DEF u
    <3>. QED  BY <3>1, <3>2
  <2> HIDE DEF u
  <2>. QED  BY <1>2, <2>1
<1> HIDE DEF u, d
<1>9. SameNodes(t, u)
  BY <1>7, <1>8 DEF SameNodes
<1>10. Shape(u)
  BY <1>1, <1>9, SameShape
<1>11. AddsUp(u)
  <2>1. \A k \in 1 .. N : u[k].subtree = t[k].subtree + (IF k \in P THEN d ELSE 0)
    BY <1>7
  <2>2. \A k \in 1 .. N : u[k].own = t[k].own + (IF k = n THEN d ELSE 0)
    BY <1>7
  <2>. QED  BY <1>1, <1>5, <1>9, <1>10, <2>1, <2>2, PathShift
<1>12. Lag(u)
  BY <1>7, <1>8, LagIsShows
<1>. QED  BY <1>9, <1>10, <1>11, <1>12 DEF TreeInv, u

(* node_new and the link to the parent. *)
LEMMA AppendInv ==
    ASSUME NEW t, TreeInv(t), NEW p \in 0 .. Len(t), NEW seg \in Levels \ {Empty},
           Cardinality(Children(t, p)) < MaxChildren
    PROVE  LET u == Append(t, NewNode(seg, p))
           IN  /\ TreeInv(u) /\ Len(u) = Len(t) + 1 /\ \A k \in 1 .. Len(t) : u[k] = t[k]
               /\ Children(u, Len(u)) = {}
               /\ Unique(t) /\ FindChild(t, p, Cut[seg]) = {} => Unique(u)
<1> DEFINE x == NewNode(seg, p)
           u == Append(t, x)
           N == Len(t)
<1>1. Shape(t) /\ AddsUp(t) /\ Lag(t) /\ t \in Seq(Node)
  BY DEF TreeInv, Shape
<1>2. /\ N \in Nat /\ DOMAIN t = 1 .. N
      /\ \A k \in 1 .. N : t[k].parent \in 0 .. (k - 1)
  BY <1>1, ShapeIsOrdered
<1>3. p \in Nat /\ p <= N
  BY <1>2
<1>4. /\ x \in Node /\ x.parent = p /\ x.segment = Cut[seg] /\ x.own = 0 /\ x.subtree = 0
      /\ x.label = 0 /\ x.badge = 0
  BY <1>3 DEF NewNode, Node
<1> HIDE DEF x
<1>5. /\ u \in Seq(Node) /\ Len(u) = N + 1 /\ u[N + 1] = x
      /\ \A k \in 1 .. N : u[k] = t[k]
  BY <1>1, <1>4, AppendProperties
<1> HIDE DEF u, N
<1>6. \A k \in 1 .. (N + 1) : k \in 1 .. N \/ k = N + 1
  BY <1>2
<1>7. DOMAIN u = 1 .. (N + 1)
  BY <1>2, <1>5
<1>8. \A q : Children(u, q) = Children(t, q) \cup (IF q = p THEN {N + 1} ELSE {})
  BY <1>2, <1>4, <1>5, <1>6, <1>7 DEF Children
<1>9. Children(t, N + 1) = {} /\ N + 1 # p
  BY <1>2, <1>3 DEF Children
<1>10. Children(u, N + 1) = {}
  BY <1>8, <1>9
<1>11. \A k \in 1 .. (N + 1) : u[k].parent < k
  <2>1. \A k \in 1 .. N : u[k].parent < k
    BY <1>2, <1>5
  <2>2. u[N + 1].parent < N + 1
    BY <1>2, <1>3, <1>4, <1>5
  <2>. QED  BY <1>6, <2>1, <2>2
<1>12. ASSUME NEW q \in 0 .. (N + 1) PROVE Cardinality(Children(u, q)) <= MaxChildren
  <2>0. MaxChildren \in Nat
    BY MaxChildrenAssumption
  <2>1. CASE q = p
    <3>1. Children(u, q) = Children(t, p) \cup {N + 1}
      BY <1>8, <2>1
    <3>2. IsFiniteSet(Children(t, p)) /\ Cardinality(Children(t, p)) \in Nat
      BY <1>1, ChildrenFinite
    <3>3. N + 1 \notin Children(t, p)
      BY <1>2 DEF Children
    <3>4. Cardinality(Children(u, q)) = Cardinality(Children(t, p)) + 1
      BY <3>1, <3>2, <3>3, FS_AddElement
    <3>. QED  BY <2>0, <3>2, <3>4
  <2>2. CASE q # p
    <3>1. Children(u, q) = Children(t, q)
      BY <1>8, <2>2
    <3>2. CASE q \in 0 .. N
      BY <1>1, <3>1, <3>2 DEF Shape, N
    <3>3. CASE q = N + 1
      <4>1. Cardinality({}) = 0
        BY FS_EmptySet
      <4>2. Cardinality(Children(u, q)) = 0
        BY <1>10, <3>3, <4>1
      <4>. QED  BY <2>0, <4>2
    <3>. QED  BY <1>2, <3>2, <3>3
  <2>. QED  BY <2>1, <2>2
<1>13. Shape(u)
  BY <1>5, <1>11, <1>12 DEF Shape
<1>14. AddsUp(u)
  <2>1. ASSUME NEW m \in 1 .. N PROVE u[m].subtree = u[m].own + Below(u, m)
    <3> DEFINE f == Share(t, m)
               g == Share(u, m)
    <3>1. \A k \in 1 .. N : f[k] \in Nat /\ f[k] = (IF t[k].parent = m THEN t[k].subtree ELSE 0)
      BY <1>1, ShareFacts DEF N
    <3>2. \A k \in 1 .. (N + 1) : g[k] = (IF u[k].parent = m THEN u[k].subtree ELSE 0)
      BY <1>5, <1>13, ShareFacts
    <3> HIDE DEF f, g
    <3>3. \A k \in 1 .. N : f[k] \in Nat /\ g[k] = f[k]
      <4>1. \A k \in 1 .. N : k \in 1 .. (N + 1)
        BY <1>2
      <4>. QED  BY <1>5, <3>1, <3>2, <4>1
    <3>4. g[N + 1] = 0
      <4>1. N + 1 \in 1 .. (N + 1)
        BY <1>2
      <4>. QED  BY <1>4, <1>5, <3>2, <4>1
    <3>5. SumUpTo(g, N + 1)[N + 1] = SumUpTo(f, N)[N]
      BY <1>2, <3>3, <3>4, SumExtends
    <3>6. Below(u, m) = Below(t, m)
      BY <1>5, <3>5 DEF Below, f, g, N
    <3>7. t[m].subtree = t[m].own + Below(t, m)
      BY <1>1 DEF AddsUp, N
    <3>. QED  BY <1>5, <3>6, <3>7
  <2>2. u[N + 1].subtree = u[N + 1].own + Below(u, N + 1)
    <3> DEFINE g == Share(u, N + 1)
    <3>1. \A k \in 1 .. (N + 1) : g[k] = (IF u[k].parent = N + 1 THEN u[k].subtree ELSE 0)
      BY <1>5, <1>13, ShareFacts
    <3>2. \A k \in 1 .. (N + 1) : u[k].parent # N + 1
      BY <1>7, <1>10 DEF Children
    <3> HIDE DEF g
    <3>3. \A k \in 1 .. (N + 1) : g[k] = 0
      BY <3>1, <3>2
    <3>4. SumUpTo(g, N + 1)[N + 1] = 0
      <4>1. N + 1 \in Nat
        BY <1>2
      <4>. QED  BY <3>3, <4>1, SumOfZeros
    <3>5. Below(u, N + 1) = 0
      BY <1>5, <3>4 DEF Below, g
    <3>. QED  BY <1>4, <1>5, <3>5
  <2>. QED  BY <1>5, <1>6, <2>1, <2>2 DEF AddsUp
<1>15. Lag(u)
  <2>1. \A k \in 1 .. N : Shows(t[k].badge, t[k].subtree) /\ Shows(t[k].label, t[k].own)
    BY <1>1, LagIsShows DEF N
  <2>2. Shows(0, 0)
    BY DEF Shows
  <2>3. \A k \in 1 .. (N + 1) : Shows(u[k].badge, u[k].subtree) /\ Shows(u[k].label, u[k].own)
    BY <1>4, <1>5, <1>6, <2>1, <2>2
  <2>. QED  BY <1>5, <2>3, LagIsShows
<1>16. ASSUME Unique(t), FindChild(t, p, Cut[seg]) = {} PROVE Unique(u)
  <2>1. \A k \in 1 .. N : ~(t[k].parent = p /\ t[k].segment = Cut[seg])
    BY <1>2, <1>16 DEF FindChild, Children
  <2>2. \A j, k \in 1 .. N : t[j].parent = t[k].parent /\ t[j].segment = t[k].segment => j = k
    BY <1>16 DEF Unique, N
  <2>. QED  BY <1>4, <1>5, <1>6, <2>1, <2>2 DEF Unique
<1>. QED  BY <1>5, <1>10, <1>13, <1>14, <1>15, <1>16 DEF TreeInv, u, x, N

(* All levels fit into the 128 bytes of a node. *)
LevelsFit == \A s \in Levels \ {Empty} : Cut[s] = s

(* The turns of topic_tree_insert in the tree t: it gives up only before   *)
(* it has made a node, since a node it has made is childless.              *)
WalkInv(t, r) ==
    /\ r \in [tree : Seq(Node), node : Nat, full : BOOLEAN]
    /\ TreeInv(r.tree) /\ r.node \in 0 .. Len(r.tree)
    /\ Len(t) <= Len(r.tree) /\ \A k \in 1 .. Len(t) : r.tree[k] = t[k]
    /\ \/ r.tree = t
       \/ ~r.full /\ r.node = Len(r.tree) /\ r.node # 0 /\ Children(r.tree, r.node) = {}
    /\ LevelsFit /\ Unique(t) => Unique(r.tree)

(* A turn of the loop of topic_tree_insert keeps the tree in shape. *)
LEMMA DescendInv ==
    ASSUME NEW t \in Seq(Node), NEW r, WalkInv(t, r), NEW seg \in Levels \ {Empty}
    PROVE  WalkInv(t, Descend(r, seg))
<1> DEFINE v == r.tree
           found == FindChild(v, r.node, seg)
           q == Descend(r, seg)
<1>1. /\ r \in [tree : Seq(Node), node : Nat, full : BOOLEAN]
      /\ TreeInv(v) /\ Shape(v) /\ v \in Seq(Node) /\ r.node \in 0 .. Len(v)
  BY DEF WalkInv, TreeInv, Shape
<1>2. Len(v) \in Nat /\ DOMAIN v = 1 .. Len(v) /\ Len(t) \in Nat
  BY <1>1, ShapeIsOrdered
<1>3. found \subseteq Children(v, r.node) /\ found \in SUBSET (1 .. Len(v))
  BY <1>1, ChildrenFinite DEF FindChild
<1>4. CASE r.full
  BY <1>4 DEF Descend
<1>5. CASE ~r.full /\ found # {}
  <2> DEFINE n == First(found)
  <2>1. q = [r EXCEPT !.node = n]
    BY <1>5 DEF Descend
  <2>2. n \in found
    <3>1. found \in SUBSET Nat
      BY <1>2, <1>3
    <3> HIDE DEF found
    <3>2. \E a \in found : \A b \in found : a <= b
      BY <1>5, <3>1, Least
    <3>. QED  BY <3>2 DEF First
  <2>3. n \in 0 .. Len(v) /\ n \in Nat
    BY <1>2, <1>3, <2>2
  <2>4. v = t
    BY <1>3, <1>5 DEF WalkInv
  <2> HIDE DEF n, found, q
  <2>5. q.tree = v /\ q.node = n /\ q \in [tree : Seq(Node), node : Nat, full : BOOLEAN]
    BY <1>1, <2>1, <2>3
  <2>. QED  BY <2>3, <2>4, <2>5 DEF WalkInv, q
<1>6. CASE ~r.full /\ found = {} /\ Cardinality(Children(v, r.node)) >= MaxChildren
  <2>1. q = [r EXCEPT !.full = TRUE]
    BY <1>6 DEF Descend
  <2>2. v = t
    <3>1. Children(v, r.node) # {}
      <4>1. Cardinality({}) = 0
        BY FS_EmptySet
      <4>2. MaxChildren \in Nat /\ MaxChildren # 0
        BY MaxChildrenAssumption
      <4>3. ~(0 >= MaxChildren)
        BY <4>2
      <4>. QED  BY <1>6, <4>1, <4>3
    <3>. QED  BY <3>1 DEF WalkInv
  <2> HIDE DEF q
  <2>3. q.tree = v /\ q.node = r.node /\ q \in [tree : Seq(Node), node : Nat, full : BOOLEAN]
    BY <1>1, <2>1
  <2>. QED  BY <2>2, <2>3 DEF WalkInv, q
<1>7. CASE ~r.full /\ found = {} /\ ~(Cardinality(Children(v, r.node)) >= MaxChildren)
  <2> DEFINE u == Append(v, NewNode(seg, r.node))
  <2>1. q = [r EXCEPT !.tree = u, !.node = Len(v) + 1]
    BY <1>7 DEF Descend
  <2>2. Cardinality(Children(v, r.node)) < MaxChildren
    BY <1>1, <1>7, ChildrenFinite, MaxChildrenAssumption
  <2>3. /\ TreeInv(u) /\ Len(u) = Len(v) + 1 /\ \A k \in 1 .. Len(v) : u[k] = v[k]
        /\ Children(u, Len(u)) = {}
        /\ Unique(v) /\ FindChild(v, r.node, Cut[seg]) = {} => Unique(u)
    BY <1>1, <2>2, AppendInv
  <2>4. LevelsFit /\ Unique(t) => Unique(u)
    <3>1. LevelsFit => FindChild(v, r.node, Cut[seg]) = {}
      BY <1>7 DEF LevelsFit
    <3>. QED  BY <2>3, <3>1 DEF WalkInv
  <2> HIDE DEF u, q, found
  <2>5. u \in Seq(Node)
    BY <2>3 DEF TreeInv, Shape
  <2>6. /\ q.tree = u /\ q.node = Len(v) + 1 /\ ~q.full
        /\ q \in [tree : Seq(Node), node : Nat, full : BOOLEAN]
    <3> DEFINE n == Len(v) + 1
    <3>1. n \in Nat
      BY <1>2
    <3>2. q = [r EXCEPT !.tree = u, !.node = n]
      BY <2>1
    <3> HIDE DEF n
    <3>3. q.tree = u /\ q.node = n /\ q.full = r.full
      BY <1>1, <3>2
    <3>4. q \in [tree : Seq(Node), node : Nat, full : BOOLEAN]
      BY <1>1, <2>5, <3>1, <3>2
    <3>. QED  BY <1>7, <3>3, <3>4 DEF n
  <2>7. Len(t) <= Len(v) /\ \A k \in 1 .. Len(t) : v[k] = t[k]
    BY DEF WalkInv
  <2>8. Len(t) <= Len(u) /\ \A k \in 1 .. Len(t) : u[k] = t[k]
    <3>1. \A k \in 1 .. Len(t) : k \in 1 .. Len(v)
      BY <1>2, <2>7
    <3>. QED  BY <1>2, <2>3, <2>7, <3>1
  <2>9. q.node = Len(u) /\ q.node # 0 /\ q.node \in 0 .. Len(u)
    BY <1>2, <2>3, <2>6
  <2>10. WalkInv(t, q)
    BY <2>3, <2>4, <2>6, <2>8, <2>9 DEF WalkInv
  <2>. QED  BY <2>10 DEF q
<1>. QED  BY <1>4, <1>5, <1>6, <1>7

(* strtok_r gives levels that are not empty. *)
LEMMA TokensFacts ==
    ASSUME NEW topic \in Topics
    PROVE  /\ Tokens(topic) \in Seq(Levels) /\ Len(Tokens(topic)) \in Nat
           /\ \A i \in 1 .. Len(Tokens(topic)) : Tokens(topic)[i] \in Levels \ {Empty}
<1> DEFINE K == {i \in DOMAIN topic : topic[i] # Empty}
           s == Tokens(topic)
<1>1. topic \in Seq(Levels)
  BY TopicsAssumption
<1>2. s = Kept(topic, K)
  BY DEF Tokens
<1>3. \A i \in K : topic[i] # Empty
  OBVIOUS
<1> HIDE DEF K
<1>4. Kept(topic, K) \in Seq(Levels) /\ \E e : Embeds(e, Kept(topic, K), topic, K, Len(topic))
  BY <1>1, KeptFacts
<1> HIDE DEF s
<1>5. s \in Seq(Levels) /\ Len(s) \in Nat
  BY <1>2, <1>4
<1>6. PICK e : Embeds(e, s, topic, K, Len(topic))
  BY <1>2, <1>4
<1>7. \A i \in 1 .. Len(s) : s[i] # Empty
  BY <1>3, <1>6 DEF Embeds
<1>8. \A i \in 1 .. Len(s) : s[i] \in Levels
  BY <1>5, ElementOfSeq
<1>. QED  BY <1>5, <1>7, <1>8 DEF s

(* topic_tree_insert keeps the tree in shape, whether or not it finds      *)
(* room.                                                                   *)
LEMMA InsertInv ==
    ASSUME TreeInv(tree), NEW topic \in Topics
    PROVE  WalkInv(tree, Insert(topic))
<1> DEFINE s == Tokens(topic)
           w == Walk(tree, s)
           T == {k \in Nat : WalkInv(tree, w[k])}
<1>1. Len(s) \in Nat /\ \A i \in 1 .. Len(s) : s[i] \in Levels \ {Empty}
  BY TokensFacts
<1>2. tree \in Seq(Node) /\ Len(tree) \in Nat
  BY DEF TreeInv, Shape
<1> HIDE DEF s
<1>3. w[0] = WalkStart(tree) /\ \A k \in 1 .. Len(s) : w[k] = Descend(w[k - 1], s[k])
  BY <1>1, WalkRecursion
<1> HIDE DEF w
<1>4. 0 \in T
  <2>1. WalkInv(tree, WalkStart(tree))
    BY <1>2 DEF WalkInv, WalkStart
  <2>. QED  BY <1>3, <2>1
<1>5. ASSUME NEW k \in 1 .. Len(s), k - 1 \in T PROVE k \in T
  <2>1. WalkInv(tree, Descend(w[k - 1], s[k]))
    BY <1>1, <1>2, <1>5, DescendInv
  <2>2. k \in Nat
    BY <1>1
  <2>. QED  BY <1>3, <2>1, <2>2
<1>6. Len(s) \in T
  <2> HIDE DEF T
  <2>1. \A k \in 0 .. Len(s) : k \in T
    BY <1>1, <1>4, <1>5, UpTo, Zenon
  <2>. QED  BY <1>1, <2>1
<1>. QED  BY <1>6 DEF Insert, s, w

-----------------------------------------------------------------------------
(* The frame loop.                                                         *)

(* A pointer that may be dereferenced in the tree of now. *)
Sound(p) == p = Null \/ (p.tree = epoch /\ p.node \in 1 .. Len(tree))

(* The inductive invariant.  A Clear History that was asked for is handled *)
(* before the Disconnect of the same frame, and the click that asked for   *)
(* the Disconnect closed the menu: nothing but the selection and the node  *)
(* whose throughput is measured points into the tree when it is destroyed, *)
(* and both are reset with it.                                             *)
IInv ==
    /\ TreeInv(tree)
    /\ epoch \in 1 .. MaxTrees /\ received \in 0 .. MaxMessages
    /\ disconnectReq => epoch < MaxTrees
    /\ disconnectReq \in BOOLEAN
    /\ pc \in {"drain", "clear", "disconnect", "render"}
    /\ {selected, measured, menu, clearReq} \subseteq Pointer
    /\ Sound(selected) /\ Sound(measured) /\ Sound(menu) /\ Sound(clearReq)
    /\ pc = "disconnect" \/ pc = "render" => clearReq = Null
    /\ disconnectReq => menu = Null /\ pc # "render"

(* An empty tree is in shape. *)
LEMMA EmptyTree == TreeInv(<<>>) /\ Unique(<<>>)
<1>1. <<>> \in Seq(Node) /\ Len(<<>>) = 0
  OBVIOUS
<1>2. \A p : Children(<<>>, p) = {}
  BY DEF Children
<1>3. Cardinality({}) = 0 /\ MaxChildren \in Nat
  BY FS_EmptySet, MaxChildrenAssumption
<1>4. \A p : Cardinality(Children(<<>>, p)) <= MaxChildren
  <2>1. \A p : Cardinality(Children(<<>>, p)) = 0
    BY <1>2, <1>3
  <2>. QED  BY <1>3, <2>1
<1>5. Shape(<<>>)
  BY <1>1, <1>4 DEF Shape
<1>. QED  BY <1>1, <1>5 DEF TreeInv, AddsUp, Lag, Unique

(* NULL is a pointer. *)
LEMMA NullPointer == Null \in Pointer
BY BoundsAssumption DEF Null, Pointer

(* The program starts with an empty tree and no pointers into it. *)
LEMMA InitInv ==
    ASSUME Init PROVE IInv
<1>1. TreeInv(tree)
  BY EmptyTree DEF Init
<1>2. epoch \in 1 .. MaxTrees /\ received \in 0 .. MaxMessages
  BY BoundsAssumption DEF Init
<1>. QED  BY <1>1, <1>2, NullPointer DEF Init, IInv, Sound

(* A drained message: the tree only grows, and what it gains is counted. *)
LEMMA MessageTree ==
    ASSUME TreeInv(tree), NEW topic \in Topics, NEW payload \in Payloads \cup {NoPayload},
           Message(topic, payload)
    PROVE  /\ TreeInv(tree') /\ Len(tree) <= Len(tree')
           /\ LevelsFit /\ Unique(tree) => Unique(tree')
           /\ \/ tree' = tree
              \/ \E n \in DOMAIN tree' : /\ tree'[n].own > 0
                                         /\ n \in DOMAIN tree => tree'[n].own > tree[n].own
<1> DEFINE r == Insert(topic)
<1>1. WalkInv(tree, r)
  BY InsertInv
<1>2. IF Inserted(r)
      THEN \E due \in SUBSET Path(r.tree, r.node), refresh \in BOOLEAN :
               tree' = Counted(r.tree, r.node, payload, due, refresh)
      ELSE tree' = r.tree
  BY DEF Message
<1> HIDE DEF r
<1>3. /\ TreeInv(r.tree) /\ r.node \in 0 .. Len(r.tree) /\ Len(tree) <= Len(r.tree)
      /\ \A k \in 1 .. Len(tree) : r.tree[k] = tree[k]
      /\ r.tree = tree \/ (~r.full /\ r.node # 0)
      /\ LevelsFit /\ Unique(tree) => Unique(r.tree)
  BY <1>1 DEF WalkInv
<1>4. /\ tree \in Seq(Node) /\ r.tree \in Seq(Node) /\ Len(tree) \in Nat
      /\ Len(r.tree) \in Nat /\ Shape(r.tree) /\ DOMAIN tree = 1 .. Len(tree)
  <2>1. tree \in Seq(Node) /\ r.tree \in Seq(Node) /\ Shape(r.tree)
    BY <1>3 DEF TreeInv, Shape
  <2>. QED  BY <2>1
<1>5. CASE Inserted(r)
  <2>1. PICK due, refresh : tree' = Counted(r.tree, r.node, payload, due, refresh)
    BY <1>2, <1>5
  <2>2. r.node # 0 /\ r.node \in 1 .. Len(r.tree)
    BY <1>3, <1>4, <1>5 DEF Inserted
  <2>3. /\ TreeInv(tree') /\ SameNodes(r.tree, tree')
        /\ tree'[r.node].own = r.tree[r.node].own + 1
    <3> DEFINE u == Counted(r.tree, r.node, payload, due, refresh)
               v == r.tree
               m == r.node
    <3>0. TreeInv(v) /\ m \in 1 .. Len(v)
      BY <1>3, <2>2
    <3> HIDE DEF v, m
    <3>1. TreeInv(u) /\ SameNodes(r.tree, u) /\ u[r.node].own = r.tree[r.node].own + 1
      <4>1. LET w == Counted(v, m, payload, due, refresh)
            IN  TreeInv(w) /\ SameNodes(v, w) /\ w[m].own = v[m].own + 1
        BY <3>0, CountedInv
      <4>. QED  BY <4>1 DEF v, m
    <3>2. tree' = u
      BY <2>1
    <3> HIDE DEF u
    <3>. QED  BY <3>1, <3>2
  <2>4. Len(tree') = Len(r.tree) /\ tree' \in Seq(Node)
    BY <2>3 DEF SameNodes
  <2>5. LevelsFit /\ Unique(tree) => Unique(tree')
    BY <1>3, <1>4, <2>3, SameShape
  <2>6. r.node \in DOMAIN tree'
    BY <2>2, <2>4
  <2>7. r.tree[r.node].own \in Nat
    BY <1>4, <2>2, NodeFacts
  <2>8. r.node \in DOMAIN tree => r.tree[r.node] = tree[r.node]
    BY <1>3, <1>4
  <2>9. /\ tree'[r.node].own > 0
        /\ r.node \in DOMAIN tree => tree'[r.node].own > tree[r.node].own
    BY <2>3, <2>7, <2>8
  <2>10. Len(tree) <= Len(tree')
    BY <1>3, <2>4
  <2>. QED  BY <2>3, <2>5, <2>6, <2>9, <2>10
<1>6. CASE ~Inserted(r)
  <2>1. tree' = tree
    BY <1>2, <1>3, <1>6 DEF Inserted
  <2>. QED  BY <1>4, <2>1
<1>. QED  BY <1>5, <1>6

(* The other steps on the tree. *)
LEMMA LoopTree ==
    ASSUME IInv, FrameLoop
    PROVE  TreeInv(tree') /\ (Unique(tree) => Unique(tree'))
<1>0. TreeInv(tree)
  BY DEF IInv
<1>1. CASE UNCHANGED tree
  BY <1>0, <1>1
<1>2. CASE HandleClear /\ clearReq # Null
  <2>1. tree' = Cleared(tree, clearReq.node)
    BY <1>2 DEF HandleClear
  <2>2. clearReq.node \in 1 .. Len(tree)
    BY <1>2 DEF IInv, Sound
  <2>3. TreeInv(tree') /\ SameNodes(tree, tree')
    BY <1>0, <2>1, <2>2, ClearedInv
  <2>. QED  BY <1>0, <2>3, SameShape DEF TreeInv
<1>3. CASE tree' = <<>>
  BY <1>3, EmptyTree
<1>. QED  BY <1>1, <1>2, <1>3 DEF FrameLoop, Drained, HandleClear, HandleDisconnect, Render

(* Every step of the frame loop keeps the invariant. *)
LEMMA StepInv ==
    ASSUME IInv, [Next]_vars PROVE IInv'
<1>0. epoch \in Nat /\ epoch # 0 /\ MaxTrees \in Nat /\ MaxMessages \in Nat /\ Null \in Pointer
  BY BoundsAssumption, NullPointer DEF IInv
<1>1. CASE UNCHANGED vars
  BY <1>1 DEF vars, IInv, Sound
<1>2. ASSUME NEW topic \in Topics, NEW payload \in Payloads \cup {NoPayload},
             Message(topic, payload)
      PROVE  IInv'
  <2>1. TreeInv(tree') /\ Len(tree) <= Len(tree')
    BY <1>2, MessageTree DEF IInv
  <2>2. UNCHANGED <<epoch, pc, selected, measured, menu, clearReq, disconnectReq>>
    BY <1>2 DEF Message, requests
  <2>3. received' \in 0 .. MaxMessages
    BY <1>0, <1>2 DEF Message, IInv
  <2>4. \A n \in 1 .. Len(tree) : n \in 1 .. Len(tree')
    <3>1. tree \in Seq(Node) /\ tree' \in Seq(Node)
      BY <2>1 DEF IInv, TreeInv, Shape
    <3>2. Len(tree) \in Nat /\ Len(tree') \in Nat
      BY <3>1
    <3>. QED  BY <2>1, <3>2
  <2>5. \A p : Sound(p) => (p = Null \/ (p.tree = epoch' /\ p.node \in 1 .. Len(tree')))
    BY <2>2, <2>4 DEF Sound
  <2>. QED  BY <2>1, <2>2, <2>3, <2>5 DEF IInv, Sound
<1>3. CASE Drained
  BY <1>3 DEF Drained, IInv, Sound, requests
<1>4. CASE HandleClear
  <2>1. TreeInv(tree')
    BY <1>4, LoopTree DEF FrameLoop
  <2>2. Len(tree') = Len(tree)
    <3>1. CASE clearReq = Null
      BY <1>4, <3>1 DEF HandleClear
    <3>2. CASE clearReq # Null
      <4>1. clearReq.node \in 1 .. Len(tree) /\ TreeInv(tree)
        BY <3>2 DEF IInv, Sound
      <4>2. SameNodes(tree, Cleared(tree, clearReq.node))
        BY <4>1, ClearedInv
      <4>. QED  BY <1>4, <3>2, <4>2 DEF HandleClear, SameNodes
    <3>. QED  BY <3>1, <3>2
  <2>. QED  BY <1>0, <1>4, <2>1, <2>2 DEF HandleClear, IInv, Sound
<1>5. CASE HandleDisconnect
  <2>1. TreeInv(tree')
    BY <1>5, LoopTree DEF FrameLoop
  <2>2. /\ pc = "disconnect" /\ pc' = "render" /\ disconnectReq' = FALSE
        /\ UNCHANGED <<menu, clearReq, received>> /\ clearReq = Null
    BY <1>5 DEF HandleDisconnect, IInv
  <2>3. CASE disconnectReq
    <3>1. epoch' = epoch + 1 /\ selected' = Null /\ measured' = Null /\ menu = Null
      BY <1>5, <2>3 DEF HandleDisconnect, IInv
    <3>2. epoch' \in 1 .. MaxTrees
      BY <1>0, <2>3, <3>1 DEF IInv
    <3>. QED  BY <1>0, <2>1, <2>2, <3>1, <3>2 DEF IInv, Sound
  <2>4. CASE ~disconnectReq
    <3>1. UNCHANGED <<epoch, tree, selected, measured>>
      BY <1>5, <2>4 DEF HandleDisconnect
    <3>. QED  BY <2>1, <2>2, <3>1 DEF IInv, Sound
  <2>. QED  BY <2>3, <2>4
<1>6. CASE Render
  <2>1. /\ pc = "render" /\ pc' = "drain" /\ UNCHANGED <<tree, epoch, measured, received>>
        /\ clearReq = Null
    BY <1>6 DEF Render, IInv
  <2>2. \A n \in DOMAIN tree : Ptr(n) \in Pointer /\ Sound(Ptr(n))
    <3>1. tree \in Seq(Node)
      BY DEF IInv, TreeInv, Shape
    <3>2. DOMAIN tree = 1 .. Len(tree) /\ Len(tree) \in Nat
      BY <3>1
    <3>. QED  BY <1>0, <3>2 DEF Ptr, Sound, Pointer, IInv
  <2>3. /\ {selected', menu', clearReq'} \subseteq Pointer
        /\ Sound(selected') /\ Sound(menu') /\ Sound(clearReq')
    <3>1. Sound(Null) /\ Sound(selected) /\ Sound(menu) /\ Sound(clearReq)
      BY DEF Sound, IInv
    <3>2. selected \in Pointer /\ menu \in Pointer /\ clearReq \in Pointer
      BY DEF IInv
    <3>. QED  BY <1>0, <1>6, <2>2, <3>1, <3>2
              DEF Render, NoClick, CloseMenu, Select, Deselect, InspectorClear, OpenMenu,
                  MenuClear, ClickDisconnect, requests
  <2>4. /\ disconnectReq' \in BOOLEAN
        /\ disconnectReq' => menu' = Null /\ epoch < MaxTrees
    <3>1. disconnectReq = FALSE
      BY <2>1 DEF IInv
    <3>. QED  BY <1>6, <3>1
              DEF Render, NoClick, CloseMenu, Select, Deselect, InspectorClear, OpenMenu,
                  MenuClear, ClickDisconnect, requests
  <2>5. \A p : Sound(p) => (p = Null \/ (p.tree = epoch' /\ p.node \in 1 .. Len(tree')))
    BY <2>1 DEF Sound
  <2>6. TreeInv(tree')
    BY <2>1 DEF IInv
  <2>. QED  BY <2>1, <2>3, <2>4, <2>5, <2>6 DEF IInv, Sound
<1>. QED  BY <1>1, <1>2, <1>3, <1>4, <1>5, <1>6 DEF Next, FrameLoop

(* The invariant holds in every reachable state. *)
LEMMA AlwaysInv == Spec => []IInv
<1>. QED  BY InitInv, StepInv, PTL DEF Spec

-----------------------------------------------------------------------------
(* What the runs check, for every instance.                                *)

(* The nodes are nodes, each after its parent, none with more children     *)
(* than its array of TOPIC_MAX_CHILDREN pointers has room for.             *)
THEOREM TypeCorrect == Spec => []TypeOK
<1>1. IInv => TypeOK
  <2> SUFFICES ASSUME IInv PROVE TypeOK
    OBVIOUS
  <2>1. Shape(tree) /\ tree \in Seq(Node)
    BY DEF IInv, TreeInv, Shape
  <2>2. DOMAIN tree = 1 .. Len(tree) /\ Len(tree) \in Nat
    BY <2>1
  <2>3. \A n \in DOMAIN tree : n \in 0 .. Len(tree)
    BY <2>2
  <2>4. 0 \in 0 .. Len(tree)
    BY <2>2
  <2>5. \A n \in DOMAIN tree : /\ tree[n].parent < n
                               /\ Cardinality(Children(tree, n)) <= MaxChildren
    BY <2>1, <2>2, <2>3 DEF Shape
  <2>6. Cardinality(Children(tree, 0)) <= MaxChildren
    BY <2>1, <2>4 DEF Shape
  <2>. QED  BY <2>1, <2>5, <2>6 DEF IInv, TypeOK
<1>. QED  BY <1>1, AlwaysInv, PTL

(* No pointer to a node outlives its tree, although Disconnect destroys    *)
(* the tree between two frames and the selection, the measured node, the   *)
(* menu and the Clear History request are kept from one frame to the next. *)
THEOREM PointersAreSound == Spec => []NoDanglingNode
<1>1. IInv => NoDanglingNode
  <2> SUFFICES ASSUME IInv PROVE NoDanglingNode
    OBVIOUS
  <2>1. tree \in Seq(Node)
    BY DEF IInv, TreeInv, Shape
  <2>2. DOMAIN tree = 1 .. Len(tree)
    BY <2>1
  <2>. QED  BY <2>2 DEF IInv, Sound, NoDanglingNode
<1>. QED  BY <1>1, AlwaysInv, PTL

(* The counts of a subtree add up: what topic_node_clear_messages takes    *)
(* off a node and all above it was counted there, so that the saturating   *)
(* subtraction never saturates early.                                      *)
THEOREM CountsAddUp == Spec => []SubtreeAddsUp
<1>1. IInv => SubtreeAddsUp
  <2> SUFFICES ASSUME IInv PROVE SubtreeAddsUp
    OBVIOUS
  <2>1. tree \in Seq(Node) /\ AddsUp(tree)
    BY DEF IInv, TreeInv, Shape
  <2>2. DOMAIN tree = 1 .. Len(tree)
    BY <2>1
  <2>. QED  BY <2>1, <2>2 DEF AddsUp, SubtreeAddsUp
<1>. QED  BY <1>1, AlwaysInv, PTL

(* A throttled badge never shows more than was counted, and a blank one    *)
(* stands for no message.                                                  *)
THEOREM BadgesOnlyLag == Spec => []BadgesLag
<1>1. IInv => BadgesLag
  <2> SUFFICES ASSUME IInv PROVE BadgesLag
    OBVIOUS
  <2>1. tree \in Seq(Node) /\ Lag(tree)
    BY DEF IInv, TreeInv, Shape
  <2>2. DOMAIN tree = 1 .. Len(tree)
    BY <2>1
  <2>. QED  BY <2>1, <2>2 DEF Lag, BadgesLag
<1>. QED  BY <1>1, AlwaysInv, PTL

(* A message for which a node has no room leaves no part of its topic      *)
(* behind.                                                                 *)
THEOREM RejectionsLeaveNoTrace == Spec => RejectedLeavesNoTrace
<1> DEFINE Trace == received' # received =>
               \/ tree' = tree
               \/ \E n \in DOMAIN tree' : /\ tree'[n].own > 0
                                          /\ n \in DOMAIN tree => tree'[n].own > tree[n].own
<1>1. IInv /\ [Next]_vars => [Trace]_vars
  <2> SUFFICES ASSUME IInv, Next, received' # received
               PROVE  \/ tree' = tree
                      \/ \E n \in DOMAIN tree' :
                           /\ tree'[n].own > 0
                           /\ n \in DOMAIN tree => tree'[n].own > tree[n].own
    OBVIOUS
  <2>1. ~FrameLoop
    BY DEF FrameLoop, Drained, HandleClear, HandleDisconnect, Render
  <2>2. PICK topic \in Topics, payload \in Payloads \cup {NoPayload} : Message(topic, payload)
    BY <2>1 DEF Next
  <2>. QED  BY <2>2, MessageTree DEF IInv
<1>. QED  BY <1>1, AlwaysInv, PTL DEF Spec, RejectedLeavesNoTrace

(* If all levels of all topics fit into a node, a topic has one node.  The *)
(* assumption is needed: TopicTreeLong shows that a longer level gets a    *)
(* node for each message.                                                  *)
THEOREM TopicsHaveOneNode ==
    ASSUME LevelsFit PROVE Spec => []OneNodePerTopic
<1>1. Init => Unique(tree)
  BY EmptyTree DEF Init
<1>2. IInv /\ Unique(tree) /\ [Next]_vars => Unique(tree')
  <2> SUFFICES ASSUME IInv, Unique(tree), [Next]_vars PROVE Unique(tree')
    OBVIOUS
  <2>1. CASE UNCHANGED vars
    BY <2>1 DEF vars
  <2>2. CASE FrameLoop
    BY <2>2, LoopTree
  <2>3. ASSUME NEW topic \in Topics, NEW payload \in Payloads \cup {NoPayload},
               Message(topic, payload)
        PROVE  Unique(tree')
    BY <2>3, MessageTree DEF IInv
  <2>. QED  BY <2>1, <2>2, <2>3 DEF Next
<1>3. IInv /\ Unique(tree) => OneNodePerTopic
  <2> SUFFICES ASSUME IInv, Unique(tree) PROVE OneNodePerTopic
    OBVIOUS
  <2>1. tree \in Seq(Node)
    BY DEF IInv, TreeInv, Shape
  <2>2. DOMAIN tree = 1 .. Len(tree)
    BY <2>1
  <2>. QED  BY <2>2 DEF Unique, OneNodePerTopic
<1>4. Unique(tree)' <=> Unique(tree')
  OBVIOUS
<1>. QED  BY <1>1, <1>2, <1>3, <1>4, AlwaysInv, PTL DEF Spec

=============================================================================
