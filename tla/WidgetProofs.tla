---------------------------- MODULE WidgetProofs ----------------------------
(***************************************************************************)
(* Proofs about the parts of the user interface that keep state between    *)
(* frames: the filter line above the tree (TreeFilter), the charts         *)
(* (Charts), the publish panel with the text editor (PublishPanel,         *)
(* TextEdit) and the profile dialog with its table (Profiles); and about   *)
(* those that other threads and processes act on: the connection log and   *)
(* its panel (LogView), the ssh child (SshTunnel) and the update check's   *)
(* worker (UpdateCheck).                                                   *)
(***************************************************************************)
EXTENDS TreeFilter, Charts, PublishPanel, Profiles, LogView, SshTunnel, UpdateCheck,
        SubsequenceProofs, FiniteSetTheorems, SequenceTheorems, TLAPS

-----------------------------------------------------------------------------
(* The filter line.                                                        *)

\* "frozen and live inspector views are mutually exclusive" (tree_widget.c:482), for any tree,
\* any search results and any order of clicks, keys, arrivals and disconnects.
THEOREM FrozenViewsExclude == FilterSpec => []FrozenOrLive
<1>1. FilterInit => FrozenOrLive
  BY DEF FilterInit, FrozenOrLive
<1>2. FrozenOrLive /\ [FilterNext]_filterVars => FrozenOrLive'
  BY DEF FrozenOrLive, FilterNext, filterVars, TopicArrives, FilterDisconnect, FilterIdle,
         EscapeFilter, ClickMode, ClickClear, CloseInspector, TypeFilter, ClickFilter,
         SelectNode, OpenResult, ToggleResult, ExpandResult, NoSelection
<1>. QED  BY <1>1, <1>2, PTL DEF FilterSpec

\* The marks of the nodes ns for a text.
Marks(ns, text) ==
    [n \in ns |-> \E m \in ns : n \in Prefixes(m) /\ \E i \in DOMAIN m : m[i] = text]

\* The marks are of the nodes of now or of fewer: while the tree is not replaced it only grows,
\* so that the number of nodes identifies the set of nodes, which is what filter_refresh relies on.
Cached ==
    last_filter # "" /\ ~replaced =>
        /\ last_node_count \in Nat /\ last_node_count <= Cardinality(nodes)
        /\ last_node_count = Cardinality(nodes) => filter_match = Marks(nodes, last_filter)

\* A frame of the topic view leaves marks for its text and its nodes.
MarksDrawn ==
    rendered = "topics" /\ topic_filter # "" =>
        last_filter = topic_filter /\ last_node_count = Cardinality(nodes)

(* The inductive invariant of the filter line. *)
MarkInv == IsFiniteSet(nodes) /\ Cached /\ MarksDrawn

\* The nodes of a new topic: finitely many, and one at least that was not there.
LEMMA PrefixFacts ==
    ASSUME NEW t \in FilterTopics
    PROVE  IsFiniteSet(Prefixes(t)) /\ t \in Prefixes(t)
<1>0. t \in Seq(STRING) /\ t # <<>>
  BY FilterAssumption
<1>1. Len(t) \in Nat /\ Len(t) >= 1
  BY <1>0, EmptySeq
<1>2. IsFiniteSet(1 .. Len(t))
  BY <1>1, FS_Interval
<1>3. IsFiniteSet(Prefixes(t))
  <2> DEFINE f == [i \in 1 .. Len(t) |-> SubSeq(t, 1, i)]
  <2>1. \A i \in 1 .. Len(t) : f[i] \in Prefixes(t)
    BY DEF Prefixes
  <2>2. \A p \in Prefixes(t) : \E i \in 1 .. Len(t) : f[i] = p
    BY DEF Prefixes
  <2>3. f \in Surjection(1 .. Len(t), Prefixes(t))
    BY <2>1, <2>2 DEF Surjection
  <2>. QED  BY <1>2, <2>3, FS_Surjection
<1>4. SubSeq(t, 1, Len(t)) = t
  <2>1. /\ SubSeq(t, 1, Len(t)) \in Seq(STRING) /\ Len(SubSeq(t, 1, Len(t))) = Len(t)
        /\ \A i \in 1 .. Len(t) : SubSeq(t, 1, Len(t))[i] = t[i]
    BY <1>0, SubSeqProperties
  <2>. QED  BY <1>0, <2>1, SeqEqual
<1>5. Len(t) \in 1 .. Len(t)
  BY <1>1
<1>. QED  BY <1>3, <1>4, <1>5 DEF Prefixes

\* A frame keeps the marks right, whatever the keys and the click in it did to the text.
LEMMA FrameMarks ==
    ASSUME MarkInv, NEW typed, NEW text, NEW focused, NEW mode,
           FilterFrame(typed, text, focused, mode)
    PROVE  MarkInv'
<1>1. nodes' = nodes /\ topic_filter' = text
  BY DEF FilterFrame
<1>3. CASE topic_filter_search_mode
  <2>1. rendered' = "search" /\ UNCHANGED <<filter_match, last_filter, last_node_count, replaced>>
    BY <1>3 DEF FilterFrame
  <2>. QED  BY <1>1, <2>1 DEF MarkInv, Cached, MarksDrawn
<1>4. CASE ~topic_filter_search_mode
  <2>1. filter_refresh(text)
    BY <1>4 DEF FilterFrame
  <2>2. Cardinality(nodes) \in Nat
    BY FS_CardinalityType DEF MarkInv
  <2>3. CASE text = ""
    BY <1>1, <2>1, <2>3 DEF filter_refresh, MarkInv, Cached, MarksDrawn
  <2>4. CASE text # "" /\ MarksAreCurrent(text)
    <3>1. UNCHANGED <<filter_match, last_filter, last_node_count, replaced>>
      BY <2>1, <2>4 DEF filter_refresh
    <3>2. text = last_filter /\ Cardinality(nodes) = last_node_count
      BY <2>4 DEF MarksAreCurrent
    <3>3. Cached'
      BY <1>1, <3>1 DEF MarkInv, Cached
    <3>4. MarksDrawn'
      BY <1>1, <3>1, <3>2 DEF MarksDrawn
    <3>. QED  BY <1>1, <3>3, <3>4 DEF MarkInv
  <2>5. CASE text # "" /\ ~MarksAreCurrent(text)
    <3>1. filter_match' = Marks(nodes, text) /\ last_filter' = text /\ last_node_count' = Cardinality(nodes)
      BY <2>1, <2>5 DEF filter_refresh, Marks, filter_mark
    <3>2. Cached'
      <4>1. filter_match' = Marks(nodes', last_filter')
        BY <1>1, <3>1
      <4>2. last_node_count' \in Nat /\ last_node_count' <= Cardinality(nodes')
        BY <1>1, <2>2, <3>1
      <4>. QED  BY <4>1, <4>2 DEF Cached
    <3>3. MarksDrawn'
      BY <1>1, <3>1 DEF MarksDrawn
    <3>. QED  BY <1>1, <3>2, <3>3 DEF MarkInv
  <2>. QED  BY <2>3, <2>4, <2>5
<1>. QED  BY <1>3, <1>4

\* Every step keeps what the cache of the marks is trusted with.
LEMMA FilterStepInv == MarkInv /\ [FilterNext]_filterVars => MarkInv'
<1> SUFFICES ASSUME MarkInv, [FilterNext]_filterVars PROVE MarkInv'
  OBVIOUS
<1>1. ASSUME NEW t \in FilterTopics, TopicArrives(t) PROVE MarkInv'
  <2>1. /\ nodes' = nodes \cup Prefixes(t) /\ t \notin nodes /\ rendered' = "none"
    BY <1>1 DEF TopicArrives
  <2>0. UNCHANGED <<last_filter, last_node_count, replaced>>
    BY <1>1 DEF TopicArrives
  <2>2. IsFiniteSet(nodes) /\ IsFiniteSet(nodes')
    BY <2>1, PrefixFacts, FS_Union DEF MarkInv
  <2>3. nodes \subseteq nodes' /\ nodes # nodes'
    BY <2>1, PrefixFacts
  <2>4. Cardinality(nodes) < Cardinality(nodes')
    BY <2>2, <2>3, FS_Subset, FS_CardinalityType
  <2>5. Cardinality(nodes) \in Nat /\ Cardinality(nodes') \in Nat
    BY <2>2, FS_CardinalityType
  <2>6. Cached'
    <3>1. SUFFICES ASSUME last_filter # "", ~replaced
                   PROVE  /\ last_node_count \in Nat /\ last_node_count <= Cardinality(nodes')
                          /\ last_node_count # Cardinality(nodes')
      BY <2>0 DEF Cached
    <3>2. last_node_count \in Nat /\ last_node_count <= Cardinality(nodes)
      BY <3>1 DEF MarkInv, Cached
    <3>. QED  BY <3>2, <2>4, <2>5
  <2>. QED  BY <2>1, <2>2, <2>6 DEF MarkInv, MarksDrawn
<1>2. CASE FilterDisconnect
  <2>1. nodes' = {} /\ replaced' = TRUE /\ rendered' = "none"
    BY <1>2 DEF FilterDisconnect
  <2>. QED  BY <2>1, FS_EmptySet DEF MarkInv, Cached, MarksDrawn
<1>3. CASE \E typed, text, focused, mode : FilterFrame(typed, text, focused, mode)
  BY <1>3, FrameMarks
<1>4. ASSUME NEW i, ToggleResult(i) PROVE MarkInv'
  BY <1>4 DEF ToggleResult, MarkInv, Cached, MarksDrawn
<1>5. CASE UNCHANGED filterVars
  BY <1>5 DEF filterVars, filterText, MarkInv, Cached, MarksDrawn
<1>. QED
  BY <1>1, <1>2, <1>3, <1>4, <1>5
  DEF FilterNext, FilterIdle, EscapeFilter, ClickMode, ClickClear, CloseInspector, TypeFilter,
      ClickFilter, SelectNode, OpenResult, ClickBelow

\* The tree is never drawn with marks of another text or other nodes, except for a replaced tree
\* (tree_widget.c:102): comparing the number of nodes is enough, since a tree only grows.
THEOREM MarksStayFresh == FilterSpec => []MarksAreFresh
<1>1. FilterInit => MarkInv
  BY FS_EmptySet DEF FilterInit, MarkInv, Cached, MarksDrawn
<1>2. MarkInv => MarksAreFresh
  <2> SUFFICES ASSUME MarkInv, rendered = "topics", topic_filter # "", ~replaced, NEW n \in nodes
               PROVE  filter_match[n] = filter_mark(n, topic_filter)
    BY DEF MarksAreFresh
  <2>1. filter_match = Marks(nodes, topic_filter)
    BY DEF MarkInv, Cached, MarksDrawn
  <2>. QED  BY <2>1, Zenon DEF Marks, filter_mark
<1>. QED  BY <1>1, <1>2, FilterStepInv, PTL DEF FilterSpec

-----------------------------------------------------------------------------
(* The charts.                                                             *)

Sample == [ts : Nat, value : Int]

ChartTypes ==
    /\ samples \in Seq(Sample)
    /\ {y_min, y_max, bucket_ref} \subseteq Int /\ offered \subseteq Int

\* Any two samples are an interval apart, also when those between them are evicted.
Spaced ==
    \A i, j \in DOMAIN samples : i < j => samples[j].ts - samples[i].ts >= ChartMinInterval

InWindow == \A i \in DOMAIN samples : LastSample.ts - samples[i].ts <= ChartWindow

\* The newest sample is the farthest of those offered in its interval.
Peak ==
    samples # <<>> =>
        \A v \in offered : Abs(v - bucket_ref) <= Abs(LastSample.value - bucket_ref)

(* The inductive invariant of a chart. *)
ChartInv == ChartTypes /\ AxisFitsSamples /\ Spaced /\ InWindow /\ Peak

\* What the types say of the samples.
LEMMA SampleFacts ==
    ASSUME ChartTypes
    PROVE  /\ Len(samples) \in Nat /\ DOMAIN samples = 1 .. Len(samples)
           /\ \A i \in 1 .. Len(samples) :
                  samples[i] \in Sample /\ samples[i].ts \in Nat /\ samples[i].value \in Int
           /\ samples # <<>> => Len(samples) >= 1
<1>1. samples \in Seq(Sample)
  BY DEF ChartTypes
<1>2. Len(samples) \in Nat /\ DOMAIN samples = 1 .. Len(samples)
  BY <1>1, LenProperties
<1>3. samples # <<>> => Len(samples) >= 1
  BY <1>1, EmptySeq
<1>4. \A i \in 1 .. Len(samples) : samples[i] \in Sample
  BY <1>1, ElementOfSeq
<1>5. \A s \in Sample : s.ts \in Nat /\ s.value \in Int
  BY DEF Sample
<1>. QED  BY <1>2, <1>3, <1>4, <1>5

\* A distance is a number.
LEMMA AbsFacts ==
    ASSUME NEW x \in Int, NEW y \in Int
    PROVE  Abs(x - y) \in Nat
<1>1. x - y \in Int
  OBVIOUS
<1>2. \A z \in Int : Abs(z) \in Nat
  BY DEF Abs
<1>. QED  BY <1>1, <1>2

\* Finitely many integers have a least one: what drawing looks for exists.
LEMMA LeastValue ==
    ASSUME NEW n \in Nat, n >= 1, NEW f \in [1 .. n -> Int]
    PROVE  \E i \in 1 .. n : \A j \in 1 .. n : f[i] <= f[j]
<1> DEFINE Good(k) == \E i \in 1 .. k : \A j \in 1 .. k : f[i] <= f[j]
           Bad == {k \in 1 .. n : ~Good(k)}
<1>1. Bad = {}
  <2> SUFFICES ASSUME Bad # {} PROVE FALSE
    OBVIOUS
  <2>1. PICK k \in Bad : \A m \in Bad : k <= m
    <3>1. Bad \in SUBSET Nat
      OBVIOUS
    <3> HIDE DEF Bad
    <3>. QED  BY <3>1, Least
  <2>2. Good(1)
    <3>1. f[1] \in Int
      OBVIOUS
    <3>. QED  BY <3>1
  <2>3. k \in 1 .. n /\ k # 1 /\ k - 1 \in 1 .. n /\ Good(k - 1)
    <3> HIDE DEF Good
    <3>1. k \in 1 .. n /\ k # 1
      BY <2>1, <2>2
    <3>2. k - 1 \in 1 .. n /\ ~(k <= k - 1)
      BY <3>1
    <3>. QED  BY <2>1, <3>1, <3>2
  <2>4. PICK i \in 1 .. k - 1 : \A j \in 1 .. k - 1 : f[i] <= f[j]
    BY <2>3
  <2>5. \A j \in 1 .. k : j \in 1 .. k - 1 \/ j = k
    OBVIOUS
  <2>6. i \in 1 .. k /\ k \in 1 .. k /\ k \in 1 .. n /\ f[i] \in Int /\ f[k] \in Int
    BY <2>3
  <2>7. CASE f[i] <= f[k]
    BY <2>1, <2>4, <2>5, <2>6, <2>7
  <2>8. CASE f[k] < f[i]
    <3>1. \A j \in 1 .. k : f[k] <= f[j]
      <4> SUFFICES ASSUME NEW j \in 1 .. k PROVE f[k] <= f[j]
        OBVIOUS
      <4>1. CASE j = k
        BY <2>6, <4>1
      <4>2. CASE j \in 1 .. k - 1
        <5>1. f[j] \in Int /\ f[i] <= f[j]
          BY <2>3, <2>4, <4>2
        <5>. QED  BY <2>6, <2>8, <5>1, SMTT(30)
      <4>. QED  BY <2>5, <4>1, <4>2
    <3>. QED  BY <2>1, <2>6, <3>1
  <2>. QED  BY <2>6, <2>7, <2>8
<1>2. n \in 1 .. n
  OBVIOUS
<1>3. Good(n)
  <2> HIDE DEF Good
  <2>. QED  BY <1>1, <1>2
<1>. QED  BY <1>3

\* Drawing: the recomputed extremes are exact.
LEMMA DrawInv == ChartInv /\ DrawChart => ChartInv'
<1> SUFFICES ASSUME ChartInv, DrawChart PROVE ChartInv'
  OBVIOUS
<1> DEFINE n == Len(samples)
           vs == {samples[i].value : i \in DOMAIN samples}
<1>1. /\ samples # <<>> /\ UNCHANGED <<samples, bucket_ref, offered>>
      /\ y_min' = CHOOSE v \in vs : \A w \in vs : v <= w
      /\ y_max' = CHOOSE v \in vs : \A w \in vs : v >= w
  BY DEF DrawChart
<1>2. n \in Nat /\ n >= 1 /\ DOMAIN samples = 1 .. n /\ \A i \in 1 .. n : samples[i].value \in Int
  BY <1>1, SampleFacts DEF ChartInv
<1>3. \E i \in 1 .. n : \A j \in 1 .. n : samples[i].value <= samples[j].value
  <2> DEFINE f == [i \in 1 .. n |-> samples[i].value]
  <2>1. f \in [1 .. n -> Int]
    BY <1>2
  <2>2. \E i \in 1 .. n : \A j \in 1 .. n : f[i] <= f[j]
    <3> HIDE DEF f, n
    <3>. QED  BY <1>2, <2>1, LeastValue
  <2>. QED  BY <2>2
<1>4. \E i \in 1 .. n : \A j \in 1 .. n : samples[i].value >= samples[j].value
  <2> DEFINE f == [i \in 1 .. n |-> 0 - samples[i].value]
  <2>1. f \in [1 .. n -> Int]
    BY <1>2
  <2>2. PICK i \in 1 .. n : \A j \in 1 .. n : f[i] <= f[j]
    <3> HIDE DEF f, n
    <3>. QED  BY <1>2, <2>1, LeastValue
  <2>3. \A j \in 1 .. n : 0 - samples[i].value <= 0 - samples[j].value
    BY <2>2
  <2>4. ASSUME NEW j \in 1 .. n PROVE samples[i].value >= samples[j].value
    <3>1. samples[i].value \in Int /\ samples[j].value \in Int
      BY <1>2
    <3>. QED  BY <2>3, <3>1
  <2>. QED  BY <2>4
<1>5. y_min' \in vs /\ \A w \in vs : y_min' <= w
  <2>1. \E v \in vs : \A w \in vs : v <= w
    BY <1>2, <1>3
  <2>. QED  BY <1>1, <2>1
<1>6. y_max' \in vs /\ \A w \in vs : y_max' >= w
  <2>1. \E v \in vs : \A w \in vs : v >= w
    BY <1>2, <1>4
  <2>. QED  BY <1>1, <2>1
<1>7. y_min' \in Int /\ y_max' \in Int
  BY <1>2, <1>5, <1>6
<1>8. ChartTypes'
  BY <1>1, <1>7 DEF ChartInv, ChartTypes
<1>9. AxisFitsSamples'
  <2>1. ASSUME NEW i \in DOMAIN samples
        PROVE  y_min' <= samples[i].value /\ samples[i].value <= y_max'
    <3>1. samples[i].value \in vs /\ samples[i].value \in Int
      BY <1>2
    <3>. QED  BY <1>5, <1>6, <1>7, <3>1
  <2>2. /\ \E i \in DOMAIN samples : samples[i].value = y_min'
        /\ \E i \in DOMAIN samples : samples[i].value = y_max'
    BY <1>5, <1>6
  <2>. QED  BY <1>1, <2>1, <2>2 DEF AxisFitsSamples
<1>10. Spaced' /\ InWindow' /\ Peak'
  BY <1>1 DEF ChartInv, Spaced, InWindow, Peak, LastSample
<1>. QED  BY <1>8, <1>9, <1>10 DEF ChartInv

\* A sample in the interval of the newest one, which it may replace.
LEMMA ReplaceInv ==
    ASSUME ChartInv, NEW ts \in Nat, NEW v \in Int, ReplaceInBucket(ts, v)
    PROVE  ChartInv'
<1> DEFINE n == Len(samples)
<1>1. samples # <<>> /\ offered' = offered \cup {v} /\ bucket_ref' = bucket_ref
  BY DEF ReplaceInBucket
<1>2. /\ samples \in Seq(Sample) /\ n \in Nat /\ n >= 1 /\ DOMAIN samples = 1 .. n
      /\ y_min \in Int /\ y_max \in Int /\ bucket_ref \in Int /\ offered \subseteq Int
      /\ LastSample = samples[n] /\ LastSample.value \in Int
      /\ \A i \in 1 .. n : samples[i] \in Sample /\ samples[i].value \in Int
  <2>1. n \in Nat /\ n >= 1 /\ DOMAIN samples = 1 .. n /\ LastSample = samples[n]
    BY <1>1, SampleFacts DEF ChartInv, LastSample
  <2>2. \A i \in 1 .. n : samples[i] \in Sample /\ samples[i].value \in Int
    BY SampleFacts DEF ChartInv
  <2>3. n \in 1 .. n
    BY <2>1
  <2>. QED  BY <2>1, <2>2, <2>3 DEF ChartInv, ChartTypes
<1>4. \A w \in offered : Abs(w - bucket_ref) <= Abs(LastSample.value - bucket_ref)
  BY <1>1 DEF ChartInv, Peak
<1> HIDE DEF n
<1>5. CASE WinsBucket(v)
  <2>1. /\ y_dirty' = (y_dirty \/ IsExtreme(LastSample.value))
        /\ samples' = [samples EXCEPT ![n].value = v]
        /\ y_min' = (IF v < y_min THEN v ELSE y_min)
        /\ y_max' = (IF v > y_max THEN v ELSE y_max)
    BY <1>5 DEF ReplaceInBucket, n
  <2>2. /\ samples' \in Seq(Sample) /\ Len(samples') = n /\ DOMAIN samples' = 1 .. n
        /\ samples'[n].value = v
        /\ \A i \in 1 .. n : samples'[i].ts = samples[i].ts
        /\ \A i \in 1 .. n : i # n => samples'[i].value = samples[i].value
    <3> DEFINE e == [samples[n] EXCEPT !.value = v]
    <3>0. n \in 1 .. n
      BY <1>2
    <3>1. e \in Sample /\ e.value = v /\ e.ts = samples[n].ts
      BY <1>2, <3>0 DEF Sample
    <3>2. samples' = [samples EXCEPT ![n] = e]
      BY <2>1
    <3> HIDE DEF e
    <3>3. /\ samples' \in Seq(Sample) /\ Len(samples') = Len(samples)
          /\ \A j \in 1 .. Len(samples) : samples'[j] = IF j = n THEN e ELSE samples[j]
      BY <1>2, <3>0, <3>1, <3>2, ExceptSeq DEF n
    <3>4. DOMAIN samples' = 1 .. Len(samples')
      BY <3>3, LenProperties
    <3>5. Len(samples) = n
      BY DEF n
    <3>. QED  BY <3>0, <3>1, <3>3, <3>4, <3>5
  <2>3. LastSample' = samples'[n]
    BY <2>2 DEF LastSample
  <2>4. y_min' \in Int /\ y_max' \in Int /\ y_min' <= y_min /\ y_max >= y_min' /\ y_max' >= y_max
        /\ y_min' <= v /\ v <= y_max' /\ y_min' \in {v, y_min} /\ y_max' \in {v, y_max}
    <3>1. y_min <= y_max
      <4>1. n \in DOMAIN samples
        BY <1>2
      <4>2. y_min <= samples[n].value /\ samples[n].value <= y_max
        BY <4>1 DEF ChartInv, AxisFitsSamples
      <4>. QED  BY <1>2, <4>2
    <3>. QED  BY <1>2, <2>1, <3>1
  <2>5. ChartTypes'
    BY <1>1, <1>2, <2>2, <2>4 DEF ChartTypes
  <2>6. AxisFitsSamples'
    <3>1. ASSUME NEW i \in 1 .. n PROVE y_min' <= samples'[i].value /\ samples'[i].value <= y_max'
      <4>1. CASE i = n
        BY <2>2, <2>4, <4>1
      <4>2. CASE i # n
        <5>1. y_min <= samples[i].value /\ samples[i].value <= y_max
          BY <1>2 DEF ChartInv, AxisFitsSamples
        <5>. QED  BY <1>2, <2>2, <2>4, <4>2, <5>1
      <4>. QED  BY <4>1, <4>2
    <3>2. ASSUME ~y_dirty'
          PROVE  /\ \E i \in 1 .. n : samples'[i].value = y_min'
                 /\ \E i \in 1 .. n : samples'[i].value = y_max'
      <4>1. ~y_dirty /\ LastSample.value # y_min /\ LastSample.value # y_max
        BY <2>1, <3>2 DEF IsExtreme
      <4>2. /\ \E i \in 1 .. n : samples[i].value = y_min /\ i # n
            /\ \E i \in 1 .. n : samples[i].value = y_max /\ i # n
        BY <1>1, <1>2, <4>1 DEF ChartInv, AxisFitsSamples
      <4>3. n \in 1 .. n
        BY <1>2
      <4>. QED  BY <2>2, <2>4, <4>2, <4>3
    <3>. QED  BY <2>2, <3>1, <3>2 DEF AxisFitsSamples
  <2>7. Spaced' /\ InWindow'
    BY <1>2, <2>2, <2>3 DEF ChartInv, Spaced, InWindow
  <2>8. Peak'
    <3> SUFFICES ASSUME NEW w \in offered'
                 PROVE  Abs(w - bucket_ref) <= Abs(v - bucket_ref)
      BY <1>1, <2>2, <2>3 DEF Peak
    <3>1. w \in offered \/ w = v
      BY <1>1
    <3>2. Abs(v - bucket_ref) > Abs(LastSample.value - bucket_ref)
      BY <1>5 DEF WinsBucket
    <3>3. w \in Int /\ Abs(w - bucket_ref) \in Nat /\ Abs(v - bucket_ref) \in Nat
          /\ Abs(LastSample.value - bucket_ref) \in Nat
      BY <1>2, <3>1, AbsFacts
    <3>. QED  BY <1>4, <3>1, <3>2, <3>3
  <2>. QED  BY <2>5, <2>6, <2>7, <2>8 DEF ChartInv
<1>6. CASE ~WinsBucket(v)
  <2>1. UNCHANGED <<samples, y_min, y_max, y_dirty>>
    BY <1>6 DEF ReplaceInBucket
  <2>2. ChartTypes' /\ AxisFitsSamples' /\ Spaced' /\ InWindow'
    BY <1>1, <1>2, <2>1 DEF ChartInv, ChartTypes, AxisFitsSamples, Spaced, InWindow, LastSample
  <2>3. Peak'
    <3> SUFFICES ASSUME NEW w \in offered'
                 PROVE  Abs(w - bucket_ref) <= Abs(LastSample.value - bucket_ref)
      BY <1>1, <2>1 DEF Peak, LastSample
    <3>1. w \in offered \/ w = v
      BY <1>1
    <3>2. ~(Abs(v - bucket_ref) > Abs(LastSample.value - bucket_ref))
      BY <1>6 DEF WinsBucket
    <3>3. Abs(v - bucket_ref) \in Nat /\ Abs(LastSample.value - bucket_ref) \in Nat
      BY <1>2, AbsFacts
    <3>. QED  BY <1>4, <3>1, <3>2, <3>3
  <2>. QED  BY <2>2, <2>3 DEF ChartInv
<1>. QED  BY <1>5, <1>6

\* A sample that opens an interval: what is evicted was an extreme or does not matter, and what
\* is kept keeps its order, its distance and the window.
LEMMA OpenInv ==
    ASSUME ChartInv, NEW ts \in Nat, NEW v \in Int, OpenBucket(ts, v)
    PROVE  ChartInv'
<1> DEFINE gone == Evicted(ts)
           K == DOMAIN samples \ gone
           kept == Kept(samples, K)
           new == [ts |-> ts, value |-> v]
           n == Len(samples)
           k == Len(kept)
<1>1. /\ samples # <<>> => ts - LastSample.ts >= ChartMinInterval
      /\ samples' = Append(kept, new) /\ offered' = {v}
      /\ bucket_ref' = IF samples = <<>> THEN v ELSE LastSample.value
  BY DEF OpenBucket
<1>2. IF Len(samples') = 1
      THEN y_min' = v /\ y_max' = v /\ y_dirty' = FALSE
      ELSE /\ y_dirty' = (y_dirty \/ \E i \in gone : IsExtreme(samples[i].value))
           /\ y_min' = (IF v < y_min THEN v ELSE y_min)
           /\ y_max' = (IF v > y_max THEN v ELSE y_max)
  BY DEF OpenBucket
<1>3. /\ samples \in Seq(Sample) /\ n \in Nat /\ DOMAIN samples = 1 .. n
      /\ y_min \in Int /\ y_max \in Int
      /\ \A i \in 1 .. n : samples[i].ts \in Nat /\ samples[i].value \in Int
      /\ samples # <<>> => n >= 1 /\ LastSample = samples[n]
  BY SampleFacts DEF ChartInv, ChartTypes, LastSample
<1>4. ChartMinInterval \in Nat /\ ChartMinInterval >= 1 /\ ChartWindow \in Nat
  BY ChartAssumption
<1>5. \A i \in K : ts - samples[i].ts <= ChartWindow
  <2> SUFFICES ASSUME NEW i \in K PROVE ts - samples[i].ts <= ChartWindow
    OBVIOUS
  <2>1. ~(ts - samples[i].ts > ChartWindow)
    BY DEF Evicted
  <2>2. samples[i].ts \in Nat
    BY <1>3
  <2>. QED  BY <1>4, <2>1, <2>2
<1>6. kept \in Seq(Sample) /\ k <= n /\ \E e : Embeds(e, kept, samples, K, n)
  <2> HIDE DEF K
  <2>. QED  BY <1>3, KeptFacts
<1>7. PICK e : Embeds(e, kept, samples, K, n)
  BY <1>6
<1> HIDE DEF gone, K, kept, n, k
<1>8. /\ k \in Nat /\ DOMAIN kept = 1 .. k
      /\ \A a \in 1 .. k : e[a] \in 1 .. n /\ e[a] \in K /\ kept[a] = samples[e[a]]
      /\ \A a, b \in 1 .. k : a < b => e[a] < e[b]
      /\ \A i \in 1 .. n : i \in K => \E a \in 1 .. k : e[a] = i
  <2>1. k \in Nat /\ DOMAIN kept = 1 .. k
    BY <1>6 DEF k
  <2>2. Embeds(e, kept, samples, K, n) /\ k = Len(kept)
    BY <1>7 DEF k
  <2>3. e \in [1 .. k -> 1 .. n] /\ \A a \in 1 .. k : e[a] \in K /\ kept[a] = samples[e[a]]
    BY <2>2 DEF Embeds
  <2>4. /\ \A a, b \in 1 .. k : a < b => e[a] < e[b]
        /\ \A i \in 1 .. n : i \in K => \E a \in 1 .. k : e[a] = i
    BY <2>2, Zenon DEF Embeds
  <2>. QED  BY <2>1, <2>3, <2>4
<1>9. new \in Sample /\ new.ts = ts /\ new.value = v
  BY DEF Sample
<1> HIDE DEF new
<1>10. /\ samples' \in Seq(Sample) /\ Len(samples') = k + 1 /\ DOMAIN samples' = 1 .. k + 1
       /\ samples'[k + 1] = new
       /\ \A a \in 1 .. k : samples'[a] = samples[e[a]]
  BY <1>1, <1>6, <1>8, <1>9, AppendProperties DEF k
<1>11. LastSample' = new /\ samples' # <<>>
  BY <1>8, <1>10 DEF LastSample
<1>12. \A a \in 1 .. k + 1 : a = k + 1 \/ a \in 1 .. k
  BY <1>8
<1>13. \A a \in 1 .. k : ts - samples[e[a]].ts >= ChartMinInterval
  <2> SUFFICES ASSUME NEW a \in 1 .. k PROVE ts - samples[e[a]].ts >= ChartMinInterval
    OBVIOUS
  <2>1. e[a] \in 1 .. n /\ n >= 1 /\ samples # <<>>
    BY <1>3, <1>8
  <2>2. ts - samples[n].ts >= ChartMinInterval
    BY <1>1, <1>3, <2>1
  <2>3. samples[e[a]].ts \in Nat /\ samples[n].ts \in Nat /\ n \in DOMAIN samples
    BY <1>3, <2>1
  <2>4. e[a] = n \/ samples[n].ts - samples[e[a]].ts >= ChartMinInterval
    BY <1>3, <2>1, <2>3 DEF ChartInv, Spaced
  <2>. QED  BY <1>4, <2>2, <2>3, <2>4
<1>14. ChartTypes'
  <2>1. bucket_ref' \in Int
    BY <1>1, <1>3
  <2>2. y_min' \in Int /\ y_max' \in Int
    BY <1>2, <1>3
  <2>. QED  BY <1>1, <1>10, <2>1, <2>2 DEF ChartTypes
<1>15. AxisFitsSamples'
  <2>1. CASE k = 0
    <3>1. y_min' = v /\ y_max' = v
      BY <1>2, <1>10, <2>1
    <3>2. DOMAIN samples' = {1} /\ samples'[1].value = v
      BY <1>9, <1>10, <2>1
    <3>. QED  BY <3>1, <3>2 DEF AxisFitsSamples
  <2>2. CASE k # 0
    <3>1. /\ y_dirty' = (y_dirty \/ \E i \in gone : IsExtreme(samples[i].value))
          /\ y_min' = (IF v < y_min THEN v ELSE y_min)
          /\ y_max' = (IF v > y_max THEN v ELSE y_max)
      BY <1>2, <1>8, <1>10, <2>2
    <3>2. y_min' \in {v, y_min} /\ y_max' \in {v, y_max} /\ y_min' <= y_min /\ y_max <= y_max'
          /\ y_min' <= v /\ v <= y_max' /\ y_min' \in Int /\ y_max' \in Int
      BY <1>3, <3>1
    <3>3. ASSUME NEW a \in 1 .. k + 1
          PROVE  y_min' <= samples'[a].value /\ samples'[a].value <= y_max'
      <4>1. CASE a = k + 1
        BY <1>9, <1>10, <3>2, <4>1
      <4>2. CASE a \in 1 .. k
        <5>1. e[a] \in DOMAIN samples /\ samples'[a] = samples[e[a]] /\ samples[e[a]].value \in Int
          BY <1>3, <1>8, <1>10, <4>2
        <5>2. y_min <= samples[e[a]].value /\ samples[e[a]].value <= y_max
          BY <5>1 DEF ChartInv, AxisFitsSamples
        <5>. QED  BY <1>3, <3>2, <5>1, <5>2
      <4>. QED  BY <1>12, <4>1, <4>2
    <3>4. ASSUME ~y_dirty'
          PROVE  /\ \E a \in 1 .. k + 1 : samples'[a].value = y_min'
                 /\ \E a \in 1 .. k + 1 : samples'[a].value = y_max'
      <4>1. ~y_dirty /\ \A i \in gone : samples[i].value # y_min /\ samples[i].value # y_max
        BY <3>1, <3>4 DEF IsExtreme
      <4>2. samples # <<>>
        BY <1>6, <1>8, <2>2 DEF n, k
      <4>3. PICK i \in DOMAIN samples : samples[i].value = y_min
        BY <4>1, <4>2 DEF ChartInv, AxisFitsSamples
      <4>4. PICK j \in DOMAIN samples : samples[j].value = y_max
        BY <4>1, <4>2 DEF ChartInv, AxisFitsSamples
      <4>5. i \in K /\ j \in K
        BY <4>1, <4>3, <4>4 DEF K
      <4>6. PICK a \in 1 .. k : e[a] = i
        BY <1>3, <1>8, <4>5
      <4>7. PICK b \in 1 .. k : e[b] = j
        BY <1>3, <1>8, <4>5
      <4>8. a \in 1 .. k + 1 /\ b \in 1 .. k + 1 /\ k + 1 \in 1 .. k + 1
        BY <1>8
      <4>. QED  BY <1>9, <1>10, <3>2, <4>3, <4>4, <4>6, <4>7, <4>8
    <3>. QED  BY <1>10, <3>3, <3>4 DEF AxisFitsSamples
  <2>. QED  BY <2>1, <2>2
<1>16. Spaced'
  <2> SUFFICES ASSUME NEW a \in 1 .. k + 1, NEW b \in 1 .. k + 1, a < b
               PROVE  samples'[b].ts - samples'[a].ts >= ChartMinInterval
    BY <1>10 DEF Spaced
  <2>1. a \in 1 .. k
    BY <1>8
  <2>2. CASE b = k + 1
    BY <1>9, <1>10, <1>13, <2>1, <2>2
  <2>3. CASE b \in 1 .. k
    <3>1. e[a] \in DOMAIN samples /\ e[b] \in DOMAIN samples /\ e[a] < e[b]
      BY <1>3, <1>8, <2>1, <2>3
    <3>2. samples[e[b]].ts - samples[e[a]].ts >= ChartMinInterval
      BY <3>1 DEF ChartInv, Spaced
    <3>. QED  BY <1>10, <2>1, <2>3, <3>2
  <2>. QED  BY <1>12, <2>2, <2>3
<1>17. InWindow'
  <2> SUFFICES ASSUME NEW a \in 1 .. k + 1 PROVE ts - samples'[a].ts <= ChartWindow
    BY <1>9, <1>10, <1>11 DEF InWindow
  <2>1. CASE a = k + 1
    <3>1. samples'[a].ts = ts
      BY <1>9, <1>10, <2>1
    <3>. QED  BY <1>4, <3>1
  <2>2. CASE a \in 1 .. k
    BY <1>5, <1>8, <1>10, <2>2
  <2>. QED  BY <1>12, <2>1, <2>2
<1>18. Peak'
  <2> SUFFICES ASSUME NEW w \in offered'
               PROVE  Abs(w - bucket_ref') <= Abs(v - bucket_ref')
    BY <1>9, <1>11 DEF Peak
  <2>1. w = v /\ bucket_ref' \in Int
    BY <1>1, <1>3
  <2>2. Abs(v - bucket_ref') \in Int
    BY <2>1, AbsFacts
  <2>. QED  BY <2>1, <2>2
<1>. QED  BY <1>14, <1>15, <1>16, <1>17, <1>18 DEF ChartInv

\* Every step keeps the samples and their extremes right.
LEMMA ChartStepInv == ChartInv /\ [ChartNext]_chartVars => ChartInv'
<1> SUFFICES ASSUME ChartInv, [ChartNext]_chartVars PROVE ChartInv'
  OBVIOUS
<1>1. CASE chart_add_from_line \/ RemoveChart
  <2>1. Fresh
    BY <1>1 DEF chart_add_from_line, chart_series_init, RemoveChart
  <2>. QED  BY <2>1 DEF Fresh, ChartInv, ChartTypes, AxisFitsSamples, Spaced, InWindow, Peak
<1>2. CASE DrawChart
  BY <1>2, DrawInv
<1>3. ASSUME NEW ts \in ChartTimes, NEW v \in ChartValues, Capture(ts, v) PROVE ChartInv'
  <2>1. ts \in Nat /\ v \in Int
    BY ChartAssumption
  <2>. QED  BY <1>3, <2>1, ReplaceInv, OpenInv DEF Capture
<1>4. CASE UNCHANGED chartVars
  BY <1>4 DEF chartVars, ChartInv, ChartTypes, AxisFitsSamples, Spaced, InWindow, Peak, LastSample
<1>. QED  BY <1>1, <1>2, <1>3, <1>4 DEF ChartNext

\* From the first sample to any later one, for every window, ring size, time stamps (also ones
\* that go back) and values.
LEMMA AlwaysChartInv == ChartSpec => []ChartInv
<1>1. ChartInit => ChartInv
  BY DEF ChartInit, ChartInv, ChartTypes, AxisFitsSamples, Spaced, InWindow, Peak
<1>. QED  BY <1>1, ChartStepInv, PTL DEF ChartSpec

\* The lazily recomputed extremes never leave a sample outside of the axis, and are exact when
\* they say so (chart_series.c:31).
THEOREM AxisAlwaysFits == ChartSpec => []AxisFitsSamples
  BY AlwaysChartInv, PTL DEF ChartInv

\* Decimation keeps the farthest value of every interval, and the samples stay an interval
\* apart and within the window (chart_series.h:25).
THEOREM SpikesStay == ChartSpec => []SpikesAreKept
<1>1. ChartInv => SpikesAreKept
  <2> SUFFICES ASSUME ChartInv, samples # <<>> PROVE SpikesAreKept
    BY DEF SpikesAreKept
  <2>1. Len(samples) \in Nat /\ Len(samples) >= 1 /\ DOMAIN samples = 1 .. Len(samples)
    BY DEF ChartInv, ChartTypes
  <2>2. \A i \in 1 .. Len(samples) - 1 : i \in DOMAIN samples /\ i + 1 \in DOMAIN samples /\ i < i + 1
    BY <2>1
  <2>3. 1 \in DOMAIN samples
    BY <2>1
  <2>. QED  BY <2>2, <2>3 DEF ChartInv, Spaced, InWindow, Peak, SpikesAreKept
<1>. QED  BY <1>1, AlwaysChartInv, PTL

-----------------------------------------------------------------------------
(* The text editor, and the publish panel's two fields.                    *)

FieldRec == [buf : Seq(Byte), caret : Nat, all : BOOLEAN]

\* A field that fits in cap bytes, with the caret anywhere; and with the caret in the text.
Fits(e, cap) == e \in FieldRec /\ Len(e.buf) < cap
FieldOk(e, cap) == Fits(e, cap) /\ e.caret <= Len(e.buf)

\* Whole characters, the caret at the boundary of one.
FieldWhole(e) == WellFormed(e.buf) /\ e.caret \in Boundaries(e.buf)

\* The first bytes of a text and the rest of it.
LEMMA CutFacts ==
    ASSUME NEW s \in Seq(Byte), NEW b \in 0 .. Len(s)
    PROVE  /\ First(s, b) \in Seq(Byte) /\ Len(First(s, b)) = b
           /\ \A i \in 1 .. b : First(s, b)[i] = s[i]
           /\ From(s, b) \in Seq(Byte) /\ Len(From(s, b)) = Len(s) - b
           /\ \A i \in 1 .. Len(s) - b : From(s, b)[i] = s[b + i]
<1>1. Len(s) \in Nat /\ b \in Nat /\ b <= Len(s)
  OBVIOUS
<1>2. \A i \in 1 .. Len(s) : s[i] \in Byte
  BY ElementOfSeq
<1>3. /\ SubSeq(s, 1, b) \in Seq(Byte)
      /\ Len(SubSeq(s, 1, b)) = IF 1 <= b THEN b - 1 + 1 ELSE 0
      /\ \A i \in 1 .. b - 1 + 1 : SubSeq(s, 1, b)[i] = s[1 + i - 1]
  <2>1. \A i \in 1 .. b : s[i] \in Byte
    BY <1>1, <1>2
  <2>. QED  BY <1>1, <2>1, SubSeqProperties
<1>4. /\ SubSeq(s, b + 1, Len(s)) \in Seq(Byte)
      /\ Len(SubSeq(s, b + 1, Len(s))) = IF b + 1 <= Len(s) THEN Len(s) - (b + 1) + 1 ELSE 0
      /\ \A i \in 1 .. Len(s) - (b + 1) + 1 : SubSeq(s, b + 1, Len(s))[i] = s[b + 1 + i - 1]
  <2>1. \A i \in b + 1 .. Len(s) : s[i] \in Byte
    BY <1>1, <1>2
  <2>. QED  BY <1>1, <2>1, SubSeqProperties
<1>. QED  BY <1>1, <1>3, <1>4 DEF First, From

\* A text cut at a boundary is two texts.
LEMMA CutWhole ==
    ASSUME NEW s \in Seq(Byte), WellFormed(s), NEW b \in Boundaries(s)
    PROVE  WellFormed(First(s, b)) /\ WellFormed(From(s, b))
<1>1. /\ b \in 0 .. Len(s) /\ Len(s) \in Nat /\ b \in Nat /\ DOMAIN s = 1 .. Len(s)
      /\ b < Len(s) => s[b + 1] # "c"
  BY DEF Boundaries, is_cont
<1> DEFINE p == First(s, b)
           q == From(s, b)
<1>2. /\ p \in Seq(Byte) /\ Len(p) = b /\ \A i \in 1 .. b : p[i] = s[i]
      /\ q \in Seq(Byte) /\ Len(q) = Len(s) - b /\ \A i \in 1 .. Len(s) - b : q[i] = s[b + i]
  BY <1>1, CutFacts
<1> HIDE DEF p, q
<1>3. DOMAIN p = 1 .. b /\ DOMAIN q = 1 .. Len(s) - b
  BY <1>2, LenProperties
<1>4. WellFormed(p)
  <2>1. p # <<>> => p[1] # "c"
    <3>1. p # <<>> => b >= 1
      BY <1>1, <1>2, EmptySeq
    <3>. QED  BY <1>1, <1>2, <3>1 DEF WellFormed
  <2>2. ASSUME NEW i \in 1 .. b PROVE p[i] = "L" <=> (i < b /\ p[i + 1] = "c")
    <3>0. i \in DOMAIN s /\ p[i] = s[i]
      BY <1>1, <1>2
    <3>1. p[i] = "L" <=> (i < Len(s) /\ s[i + 1] = "c")
      BY <3>0 DEF WellFormed
    <3>2. CASE i = b
      BY <1>1, <3>1, <3>2
    <3>3. CASE i # b
      <4>1. i < b /\ i < Len(s) /\ p[i + 1] = s[i + 1]
        BY <1>1, <1>2, <3>3
      <4>. QED  BY <3>1, <4>1
    <3>. QED  BY <3>2, <3>3
  <2>. QED  BY <1>2, <1>3, <2>1, <2>2 DEF WellFormed
<1>5. WellFormed(q)
  <2>1. q # <<>> => q[1] # "c"
    <3>1. q # <<>> => b < Len(s) /\ 1 \in 1 .. Len(s) - b
      BY <1>1, <1>2, EmptySeq
    <3>. QED  BY <1>1, <1>2, <3>1
  <2>2. ASSUME NEW i \in 1 .. Len(s) - b PROVE q[i] = "L" <=> (i < Len(s) - b /\ q[i + 1] = "c")
    <3>1. b + i \in DOMAIN s /\ q[i] = s[b + i]
      BY <1>1, <1>2
    <3>2. s[b + i] = "L" <=> (b + i < Len(s) /\ s[b + i + 1] = "c")
      BY <3>1 DEF WellFormed
    <3>3. CASE i < Len(s) - b
      <4>1. b + i < Len(s) /\ q[i + 1] = s[b + i + 1]
        BY <1>1, <1>2, <3>3
      <4>. QED  BY <3>1, <3>2, <3>3, <4>1
    <3>4. CASE ~(i < Len(s) - b)
      <4>1. ~(b + i < Len(s))
        BY <1>1, <3>4
      <4>. QED  BY <3>1, <3>2, <3>4, <4>1
    <3>. QED  BY <3>3, <3>4
  <2>. QED  BY <1>2, <1>3, <2>1, <2>2 DEF WellFormed
<1>. QED  BY <1>4, <1>5 DEF p, q

\* Two texts one after the other are a text, and where they meet a character starts or the text
\* ends.
LEMMA JoinWhole ==
    ASSUME NEW s \in Seq(Byte), NEW t \in Seq(Byte)
    PROVE  /\ s \o t \in Seq(Byte) /\ Len(s \o t) = Len(s) + Len(t)
           /\ WellFormed(s) /\ WellFormed(t) =>
                  WellFormed(s \o t) /\ Len(s) \in Boundaries(s \o t)
<1> DEFINE r == s \o t
<1>1. /\ r \in Seq(Byte) /\ Len(r) = Len(s) + Len(t) /\ Len(s) \in Nat /\ Len(t) \in Nat
      /\ \A i \in 1 .. Len(s) + Len(t) : r[i] = IF i <= Len(s) THEN s[i] ELSE t[i - Len(s)]
  BY ConcatProperties, LenProperties
<1> HIDE DEF r
<1>2. /\ DOMAIN r = 1 .. Len(s) + Len(t) /\ DOMAIN s = 1 .. Len(s) /\ DOMAIN t = 1 .. Len(t)
      /\ s # <<>> => Len(s) >= 1
      /\ t # <<>> => Len(t) >= 1
      /\ s = <<>> => Len(s) = 0
      /\ t = <<>> => Len(t) = 0
  BY <1>1, LenProperties, EmptySeq
<1>3. ASSUME WellFormed(s), WellFormed(t) PROVE WellFormed(r) /\ Len(s) \in Boundaries(r)
  <2>1. Len(t) >= 1 => t[1] # "c" /\ r[Len(s) + 1] # "c"
    BY <1>1, <1>2, <1>3 DEF WellFormed
  <2>2. Len(s) >= 1 => s[1] # "c" /\ s[Len(s)] # "L"
    <3> SUFFICES ASSUME Len(s) >= 1 PROVE s[1] # "c" /\ s[Len(s)] # "L"
      OBVIOUS
    <3>1. s # <<>> /\ Len(s) \in DOMAIN s
      BY <1>1, <1>2
    <3>2. s[1] # "c"
      BY <1>3, <3>1 DEF WellFormed
    <3>3. s[Len(s)] = "L" <=> (Len(s) < Len(s) /\ s[Len(s) + 1] = "c")
      BY <1>3, <3>1 DEF WellFormed
    <3>4. ~(Len(s) < Len(s))
      BY <1>1
    <3>. QED  BY <3>2, <3>3, <3>4
  <2>3. r # <<>> => r[1] # "c"
    <3>1. r # <<>> => Len(s) + Len(t) >= 1
      BY <1>1, EmptySeq
    <3>2. CASE Len(s) >= 1
      BY <1>1, <2>2, <3>2
    <3>3. CASE Len(s) = 0
      BY <1>1, <2>1, <3>1, <3>3
    <3>. QED  BY <1>1, <3>2, <3>3
  <2>4. ASSUME NEW i \in 1 .. Len(s) + Len(t)
        PROVE  r[i] = "L" <=> (i < Len(s) + Len(t) /\ r[i + 1] = "c")
    <3>1. CASE i < Len(s)
      <4>1. r[i] = s[i] /\ r[i + 1] = s[i + 1] /\ i \in DOMAIN s /\ i < Len(s) + Len(t)
        BY <1>1, <1>2, <3>1
      <4>. QED  BY <1>3, <3>1, <4>1 DEF WellFormed
    <3>2. CASE i = Len(s)
      <4>1. r[i] = s[i] /\ Len(s) >= 1
        BY <1>1, <3>2
      <4>2. ~(i < Len(s) + Len(t) /\ r[i + 1] = "c")
        BY <1>1, <2>1, <3>2
      <4>. QED  BY <2>2, <3>2, <4>1, <4>2
    <3>3. CASE i > Len(s)
      <4>1. i - Len(s) \in DOMAIN t /\ r[i] = t[i - Len(s)]
        BY <1>1, <1>2, <3>3
      <4>2. t[i - Len(s)] = "L" <=> (i - Len(s) < Len(t) /\ t[i - Len(s) + 1] = "c")
        BY <1>3, <4>1 DEF WellFormed
      <4>3. i - Len(s) < Len(t) <=> i < Len(s) + Len(t)
        BY <1>1
      <4>4. i < Len(s) + Len(t) => r[i + 1] = t[i - Len(s) + 1]
        BY <1>1, <3>3
      <4>. QED  BY <4>1, <4>2, <4>3, <4>4
    <3>. QED  BY <1>1, <3>1, <3>2, <3>3
  <2>5. WellFormed(r)
    BY <1>1, <1>2, <2>3, <2>4 DEF WellFormed
  <2>6. Len(s) \in Boundaries(r)
    BY <1>1, <2>1 DEF Boundaries, is_cont
  <2>. QED  BY <2>5, <2>6
<1>. QED  BY <1>1, <1>3 DEF r

\* Both ends of a text are boundaries.
LEMMA EndsFacts ==
    ASSUME NEW s \in Seq(Byte)
    PROVE  Len(s) \in Boundaries(s) /\ (WellFormed(s) => 0 \in Boundaries(s))
<1>1. Len(s) \in Nat /\ (s = <<>> => Len(s) = 0)
  BY EmptySeq, LenProperties
<1>2. Len(s) \in Boundaries(s)
  BY <1>1 DEF Boundaries, is_cont
<1>3. WellFormed(s) => ~is_cont(s, 0)
  BY <1>1 DEF WellFormed, is_cont
<1>. QED  BY <1>1, <1>2, <1>3 DEF Boundaries

\* Going back from n over continuation bytes ends at the start of a character or of the text.
LEMMA BackFacts ==
    ASSUME NEW s \in Seq(Byte), NEW n \in Nat
    PROVE  \E b \in 0 .. n : (~is_cont(s, b) \/ b = 0) /\ \A k \in (b + 1) .. n : is_cont(s, k)
<1> DEFINE S == {b \in 0 .. n : \A k \in (b + 1) .. n : is_cont(s, k)}
<1>1. n \in S /\ S \in SUBSET Nat
  OBVIOUS
<1>2. PICK b \in S : \A m \in S : b <= m
  <2> HIDE DEF S
  <2>. QED  BY <1>1, Least
<1>3. b \in 0 .. n /\ \A k \in (b + 1) .. n : is_cont(s, k)
  OBVIOUS
<1>4. ASSUME is_cont(s, b), b # 0 PROVE FALSE
  <2>1. b - 1 \in 0 .. n /\ b \in Nat
    BY <1>3, <1>4
  <2>2. \A k \in (b - 1 + 1) .. n : k = b \/ k \in (b + 1) .. n
    BY <2>1
  <2>3. b - 1 \in S
    BY <1>3, <1>4, <2>1, <2>2
  <2>4. b <= b - 1
    <3> HIDE DEF S
    <3>. QED  BY <1>2, <2>3
  <2>. QED  BY <2>1, <2>4
<1>. QED  BY <1>3, <1>4

\* Left and Backspace stop at a boundary before the caret.
LEMMA PrevFacts ==
    ASSUME NEW s \in Seq(Byte), NEW i \in 0 .. Len(s)
    PROVE  /\ prev_boundary(s, i) \in 0 .. i
           /\ WellFormed(s) => prev_boundary(s, i) \in Boundaries(s)
<1>1. Len(s) \in Nat /\ i \in Nat /\ i <= Len(s)
  BY LenProperties
<1>2. CASE i = 0
  BY <1>1, <1>2, EndsFacts DEF prev_boundary
<1>3. CASE i # 0
  <2>1. i - 1 \in Nat
    BY <1>1, <1>3
  <2>2. \E b \in 0 .. (i - 1) : (~is_cont(s, b) \/ b = 0) /\ \A k \in (b + 1) .. (i - 1) : is_cont(s, k)
    BY <2>1, BackFacts
  <2> DEFINE p == prev_boundary(s, i)
  <2>3. p \in 0 .. (i - 1) /\ (~is_cont(s, p) \/ p = 0)
    BY <1>3, <2>2 DEF prev_boundary
  <2> HIDE DEF p
  <2>4. p \in 0 .. i /\ p \in 0 .. Len(s)
    BY <1>1, <2>3
  <2>5. WellFormed(s) => p \in Boundaries(s)
    BY <2>3, <2>4, EndsFacts DEF Boundaries
  <2>. QED  BY <2>4, <2>5 DEF p
<1>. QED  BY <1>2, <1>3

\* Right and Delete stop at a boundary after the caret.
LEMMA NextFacts ==
    ASSUME NEW s \in Seq(Byte), NEW i \in 0 .. Len(s)
    PROVE  next_boundary(s, i) \in i .. Len(s) /\ next_boundary(s, i) \in Boundaries(s)
<1>1. Len(s) \in Nat /\ i \in Nat /\ i <= Len(s)
  BY LenProperties
<1>2. CASE i >= Len(s)
  BY <1>1, <1>2, EndsFacts DEF next_boundary
<1>3. CASE ~(i >= Len(s))
  <2> DEFINE S == {b \in (i + 1) .. Len(s) : ~is_cont(s, b)}
  <2>1. Len(s) \in S /\ S \in SUBSET Nat
    BY <1>1, <1>3 DEF is_cont
  <2>2. PICK b \in S : \A m \in S : b <= m
    <3> HIDE DEF S
    <3>. QED  BY <2>1, Least
  <2>3. b \in (i + 1) .. Len(s) /\ ~is_cont(s, b)
    OBVIOUS
  <2>4. ASSUME NEW k \in (i + 1) .. (b - 1) PROVE is_cont(s, k)
    <3>1. k \in (i + 1) .. Len(s) /\ ~(b <= k)
      BY <1>1, <2>3
    <3>. QED  BY <2>2, <3>1
  <2>5. \E x \in (i + 1) .. Len(s) : ~is_cont(s, x) /\ \A k \in (i + 1) .. (x - 1) : is_cont(s, k)
    BY <2>3, <2>4
  <2> DEFINE p == next_boundary(s, i)
  <2>6. p \in (i + 1) .. Len(s) /\ ~is_cont(s, p)
    BY <1>3, <2>5 DEF next_boundary
  <2> HIDE DEF p
  <2>7. p \in i .. Len(s) /\ p \in 0 .. Len(s)
    BY <1>1, <2>6
  <2>. QED  BY <2>6, <2>7 DEF Boundaries, p
<1>. QED  BY <1>2, <1>3

-----------------------------------------------------------------------------
\* A frame puts the caret into the text; a field without a text is whole.
LEMMA ClampOk ==
    ASSUME NEW cap \in Nat \ {0}, NEW e, Fits(e, cap)
    PROVE  /\ FieldOk(Clamped(e), cap)
           /\ Clamped(e).buf = e.buf /\ Clamped(e).all = e.all
           /\ FieldOk(e, cap) => Clamped(e) = e
<1>1. e \in FieldRec /\ e.buf \in Seq(Byte) /\ Len(e.buf) \in Nat /\ e.caret \in Nat
  BY LenProperties DEF Fits, FieldRec
<1>2. CASE e.caret > Len(e.buf)
  BY <1>1, <1>2 DEF Clamped, Fits, FieldOk, FieldRec
<1>3. CASE ~(e.caret > Len(e.buf))
  <2>1. Clamped(e) = e
    BY <1>1, <1>3 DEF Clamped, FieldRec
  <2>. QED  BY <1>1, <1>3, <2>1 DEF Fits, FieldOk
<1>. QED  BY <1>2, <1>3 DEF FieldOk, Fits

LEMMA EmptyOk ==
    ASSUME NEW cap \in Nat \ {0}
    PROVE  FieldOk(EmptyField, cap) /\ FieldWhole(EmptyField)
<1>1. <<>> \in Seq(Byte) /\ Len(<<>>) = 0 /\ WellFormed(<<>>) /\ 0 \in Boundaries(<<>>)
  BY EmptySeq DEF WellFormed, Boundaries, is_cont
<1>. QED  BY <1>1 DEF EmptyField, FieldOk, Fits, FieldRec, FieldWhole

\* A caret moved to a boundary.
LEMMA MoveOk ==
    ASSUME NEW cap \in Nat \ {0}, NEW e, FieldOk(e, cap), NEW to \in 0 .. Len(e.buf)
    PROVE  /\ FieldOk(Moved(e, to), cap)
           /\ WellFormed(e.buf) /\ to \in Boundaries(e.buf) => FieldWhole(Moved(e, to))
<1>1. e \in FieldRec /\ Len(e.buf) \in Nat
  BY LenProperties DEF FieldOk, Fits, FieldRec
<1>2. /\ Moved(e, to).buf = e.buf /\ Moved(e, to).caret = to /\ Moved(e, to) \in FieldRec
  <2>1. to \in Nat
    BY <1>1
  <2>2. Moved(e, to) = [e EXCEPT !.caret = to, !.all = FALSE]
    BY DEF Moved
  <2>. QED  BY <1>1, <2>1, <2>2 DEF FieldRec
<1>. QED  BY <1>1, <1>2 DEF FieldOk, Fits, FieldWhole

LEMMA UnselectOk ==
    ASSUME NEW cap \in Nat \ {0}, NEW e, FieldOk(e, cap)
    PROVE  FieldOk(Unselected(e), cap) /\ (FieldWhole(e) => FieldWhole(Unselected(e)))
BY EmptyOk DEF Unselected

\* insert_at puts whole characters between whole characters, or changes nothing.
LEMMA InsertOk ==
    ASSUME NEW cap \in Nat \ {0}, NEW e, FieldOk(e, cap), NEW s \in Seq(Byte)
    PROVE  /\ FieldOk(insert_at(e, cap, s), cap)
           /\ FieldWhole(e) /\ WellFormed(s) => FieldWhole(insert_at(e, cap, s))
<1> DEFINE b == e.buf
           c == e.caret
           p == First(b, c)
           q == From(b, c)
           f == insert_at(e, cap, s)
<1>1. /\ e \in FieldRec /\ b \in Seq(Byte) /\ Len(b) \in Nat /\ Len(s) \in Nat /\ c \in 0 .. Len(b)
      /\ Len(b) < cap
  BY LenProperties DEF FieldOk, Fits, FieldRec
<1>2. CASE s # <<>> /\ Len(b) + Len(s) + 1 <= cap
  <2>1. f = [e EXCEPT !.buf = p \o s \o q, !.caret = @ + Len(s)]
    BY <1>2 DEF insert_at
  <2>2. p \in Seq(Byte) /\ q \in Seq(Byte) /\ Len(p) = c /\ Len(q) = Len(b) - c
    <3> HIDE DEF b, c
    <3>. QED  BY <1>1, CutFacts
  <2>3. FieldWhole(e) => WellFormed(p) /\ WellFormed(q)
    BY <1>1, CutWhole DEF FieldWhole
  <2>4. f \in [buf : {p \o s \o q}, caret : {c + Len(s)}, all : BOOLEAN]
    BY <1>1, <2>1 DEF FieldRec
  <2>5. f.buf = (p \o s) \o q /\ f.caret = c + Len(s) /\ f.all \in BOOLEAN
    BY <2>4
  <2> HIDE DEF p, q, f
  <2>6. /\ p \o s \in Seq(Byte) /\ Len(p \o s) = c + Len(s)
        /\ FieldWhole(e) /\ WellFormed(s) => WellFormed(p \o s)
    BY <2>2, <2>3, JoinWhole
  <2>7. /\ f.buf \in Seq(Byte) /\ Len(f.buf) = c + Len(s) + (Len(b) - c)
        /\ FieldWhole(e) /\ WellFormed(s) => WellFormed(f.buf) /\ f.caret \in Boundaries(f.buf)
    <3>1. /\ f.buf \in Seq(Byte) /\ Len(f.buf) = Len(p \o s) + Len(q)
          /\ WellFormed(p \o s) /\ WellFormed(q) =>
                 WellFormed(f.buf) /\ Len(p \o s) \in Boundaries(f.buf)
      <4> DEFINE r == p \o s
      <4> HIDE DEF r
      <4>1. r \in Seq(Byte) /\ f.buf = r \o q
        BY <2>5, <2>6 DEF r
      <4>2. /\ f.buf \in Seq(Byte) /\ Len(f.buf) = Len(r) + Len(q)
            /\ WellFormed(r) /\ WellFormed(q) =>
                   WellFormed(f.buf) /\ Len(r) \in Boundaries(f.buf)
        BY <2>2, <4>1, JoinWhole
      <4>. QED  BY <4>2 DEF r
    <3>2. Len(f.buf) = c + Len(s) + (Len(b) - c)
      BY <2>2, <2>6, <3>1
    <3>3. ASSUME FieldWhole(e), WellFormed(s)
          PROVE  WellFormed(f.buf) /\ f.caret \in Boundaries(f.buf)
      BY <2>3, <2>5, <2>6, <3>1, <3>3
    <3>. QED  BY <3>1, <3>2, <3>3
  <2>8. Len(f.buf) < cap /\ f.caret \in Nat /\ f.caret <= Len(f.buf)
    BY <1>1, <1>2, <2>5, <2>7
  <2>9. f \in FieldRec
    BY <2>4, <2>5, <2>7, <2>8 DEF FieldRec
  <2>. QED  BY <2>7, <2>8, <2>9 DEF FieldOk, Fits, FieldWhole, f
<1>3. CASE ~(s # <<>> /\ Len(b) + Len(s) + 1 <= cap)
  BY <1>3 DEF insert_at
<1>. QED  BY <1>2, <1>3

\* A paste that does not fit is cut at a boundary.
LEMMA PasteOk ==
    ASSUME NEW cap \in Nat \ {0}, NEW e, FieldOk(e, cap), NEW clip \in Clips
    PROVE  /\ FieldOk(Pasted(e, cap, clip), cap)
           /\ FieldWhole(e) => FieldWhole(Pasted(e, cap, clip))
<1> DEFINE u == Unselected(e)
           room == cap - Len(u.buf) - 1
           fits == {n \in 0 .. room : n \in Boundaries(clip)}
<1>1. clip \in Seq(Byte) /\ WellFormed(clip)
  BY ClipsAssumption
<1>0. FieldOk(u, cap) /\ (FieldWhole(e) => FieldWhole(u))
  BY UnselectOk
<1>2. room \in Nat
  <2>1. Len(u.buf) \in Nat /\ Len(u.buf) < cap
    <3> HIDE DEF u
    <3>. QED  BY <1>0, LenProperties DEF FieldOk, Fits, FieldRec
  <2> HIDE DEF u
  <2>. QED  BY <2>1
<1>3. CASE Len(clip) <= room
  <2>1. Pasted(e, cap, clip) = insert_at(u, cap, clip)
    BY <1>3 DEF Pasted
  <2> HIDE DEF u
  <2>. QED  BY <1>0, <1>1, <2>1, InsertOk
<1>4. CASE ~(Len(clip) <= room)
  <2> DEFINE n == CHOOSE n \in fits : \A m \in fits : m <= n
  <2>1. Pasted(e, cap, clip) = insert_at(u, cap, First(clip, n))
    BY <1>4 DEF Pasted
  <2> HIDE DEF u
  <2>2. \E k \in fits : \A m \in fits : m <= k
    <3> DEFINE S == {j \in 0 .. room : room - j \in fits}
    <3>1. 0 \in fits
      BY <1>1, <1>2, EndsFacts
    <3>2. room \in S /\ S \in SUBSET Nat
      BY <1>2, <3>1
    <3>3. PICK j \in S : \A m \in S : j <= m
      <4> HIDE DEF S
      <4>. QED  BY <3>2, Least
    <3>4. room - j \in fits /\ j \in 0 .. room
      BY <3>3
    <3>5. ASSUME NEW m \in fits PROVE m <= room - j
      <4> HIDE DEF room
      <4>1. m \in 0 .. room
        OBVIOUS
      <4>2. room - m \in 0 .. room /\ room - (room - m) = m
        BY <1>2, <4>1
      <4>3. room - m \in S
        BY <4>2
      <4>4. j <= room - m
        BY <3>3, <4>3
      <4>. QED  BY <1>2, <3>4, <4>1, <4>4
    <3>. QED  BY <3>4, <3>5
  <2>3. n \in fits
    BY <2>2
  <2> HIDE DEF n
  <2>4. n \in Boundaries(clip) /\ n \in 0 .. Len(clip)
    BY <2>3 DEF Boundaries
  <2>5. First(clip, n) \in Seq(Byte) /\ WellFormed(First(clip, n))
    BY <1>1, <2>4, CutFacts, CutWhole
  <2>. QED  BY <1>0, <2>1, <2>5, InsertOk
<1>. QED  BY <1>3, <1>4

\* What is removed begins and ends at a boundary.
LEMMA RemoveOk ==
    ASSUME NEW cap \in Nat \ {0}, NEW e, FieldOk(e, cap),
           NEW from \in 0 .. Len(e.buf), NEW to \in from .. Len(e.buf)
    PROVE  /\ FieldOk(Removed(e, from, to), cap)
           /\ WellFormed(e.buf) /\ from \in Boundaries(e.buf) /\ to \in Boundaries(e.buf) =>
                  FieldWhole(Removed(e, from, to))
<1>1. CASE e.all
  BY <1>1, EmptyOk DEF Removed
<1>2. CASE ~e.all
  <2> DEFINE b == e.buf
             p == First(b, from)
             q == From(b, to)
             f == Removed(e, from, to)
  <2>0. e \in FieldRec /\ b \in Seq(Byte) /\ Len(b) \in Nat /\ Len(b) < cap
    BY LenProperties DEF FieldOk, Fits, FieldRec
  <2>1. f \in [buf : {p \o q}, caret : {from}, all : BOOLEAN]
    BY <1>2, <2>0 DEF Removed, FieldRec
  <2>2. f.buf = p \o q /\ f.caret = from /\ f.all \in BOOLEAN
    BY <2>1
  <2>3. from \in Nat /\ to \in Nat /\ from <= to /\ to \in 0 .. Len(b)
    BY <2>0
  <2>4. p \in Seq(Byte) /\ q \in Seq(Byte) /\ Len(p) = from /\ Len(q) = Len(b) - to
    BY <2>0, <2>3, CutFacts
  <2>5. WellFormed(b) /\ from \in Boundaries(b) /\ to \in Boundaries(b) =>
            WellFormed(p) /\ WellFormed(q)
    BY <2>0, CutWhole
  <2> HIDE DEF p, q, f
  <2>6. /\ f.buf \in Seq(Byte) /\ Len(f.buf) = from + (Len(b) - to)
        /\ WellFormed(b) /\ from \in Boundaries(b) /\ to \in Boundaries(b) =>
              WellFormed(f.buf) /\ f.caret \in Boundaries(f.buf)
    BY <2>2, <2>4, <2>5, JoinWhole
  <2>7. Len(f.buf) < cap /\ f.caret \in Nat /\ f.caret <= Len(f.buf)
    BY <2>0, <2>2, <2>3, <2>6
  <2>8. f \in FieldRec
    BY <2>1, <2>2, <2>6, <2>7 DEF FieldRec
  <2>. QED  BY <2>6, <2>7, <2>8 DEF FieldOk, Fits, FieldWhole, f
<1>. QED  BY <1>1, <1>2

\* Every character that can be typed.
LEMMA CharFacts == \A c \in Chars : c \in Seq(Byte) /\ WellFormed(c)
<1> SUFFICES ASSUME NEW c \in Chars PROVE c \in Seq(Byte) /\ WellFormed(c)
  OBVIOUS
<1>1. c \in Seq(Byte)
  <2>1. \A x, y \in Byte : <<x>> \in Seq(Byte) /\ <<x, y>> \in Seq(Byte)
    OBVIOUS
  <2>2. "a" \in Byte /\ "L" \in Byte /\ "c" \in Byte
    BY DEF Byte
  <2>. QED  BY <2>1, <2>2 DEF Chars
<1>2. CASE c = <<"a">>
  BY <1>1, <1>2 DEF WellFormed
<1>3. CASE c = <<"L", "c">>
  BY <1>1, <1>3 DEF WellFormed
<1>. QED  BY <1>1, <1>2, <1>3 DEF Chars

\* Every key and paste: a field stays within its buffer, and whole once the caret is clamped.
LEMMA UpdateOk ==
    ASSUME NEW cap \in Nat \ {0}, NEW e, Fits(e, cap), NEW f \in text_edit_update(e, cap)
    PROVE  FieldOk(f, cap) /\ (FieldWhole(Clamped(e)) => FieldWhole(f))
<1> DEFINE u == Clamped(e)
           b == u.buf
           Good(g) == FieldOk(g, cap) /\ (FieldWhole(u) => FieldWhole(g))
<1>1. FieldOk(u, cap)
  BY ClampOk
<1>2. \/ f \in {u, [u EXCEPT !.all = TRUE]}
      \/ \E c \in Chars : f = Typed(u, cap, c)
      \/ \E clip \in Clips : f = Pasted(u, cap, clip)
      \/ \E mod \in BOOLEAN :
            f \in {Backspaced(u, mod), Deleted(u, mod), MovedLeft(u, mod), MovedRight(u, mod)}
      \/ f \in {Moved(u, 0), Moved(u, Len(u.buf))}
  <2>0. f \in Pressed(u, cap)
    BY DEF text_edit_update
  <2> HIDE DEF u
  <2>1. f = u \/ f \in Inserted(u, cap) \/ f \in Stepped(u) \/ f \in Reached(u)
    BY <2>0 DEF Pressed
  <2>2. CASE f \in Inserted(u, cap)
    BY <2>2 DEF Inserted
  <2>3. CASE f \in Stepped(u)
    BY <2>3 DEF Stepped
  <2>4. CASE f \in Reached(u)
    BY <2>4 DEF Reached
  <2>. QED  BY <2>1, <2>2, <2>3, <2>4
<1> HIDE DEF u
<1>3. /\ u \in FieldRec /\ b \in Seq(Byte) /\ Len(b) \in Nat /\ u.caret \in 0 .. Len(b)
      /\ 0 \in 0 .. Len(b) /\ Len(b) \in 0 .. Len(b) /\ Len(b) \in Boundaries(b)
      /\ FieldWhole(u) => WellFormed(b) /\ 0 \in Boundaries(b) /\ u.caret \in Boundaries(b)
  <2>1. u \in FieldRec /\ b \in Seq(Byte) /\ Len(b) \in Nat /\ u.caret \in 0 .. Len(b)
    BY <1>1, LenProperties DEF FieldOk, Fits, FieldRec
  <2>2. Len(b) \in Boundaries(b) /\ (WellFormed(b) => 0 \in Boundaries(b))
    BY <2>1, EndsFacts
  <2>. QED  BY <2>1, <2>2 DEF FieldWhole
<1>4. Good([u EXCEPT !.all = TRUE])
  <2> DEFINE g == [u EXCEPT !.all = TRUE]
  <2>1. g \in FieldRec /\ g.buf = b /\ g.caret = u.caret
    BY <1>3 DEF FieldRec
  <2> HIDE DEF g
  <2>2. Good(g)
    BY <1>1, <2>1 DEF FieldOk, Fits, FieldWhole
  <2>. QED  BY <2>2 DEF g
<1>5. ASSUME NEW c \in Chars PROVE Good(Typed(u, cap, c))
  <2>1. c \in Seq(Byte) /\ WellFormed(c)
    BY CharFacts
  <2>2. FieldOk(Unselected(u), cap) /\ (FieldWhole(u) => FieldWhole(Unselected(u)))
    BY <1>1, UnselectOk
  <2>. QED  BY <2>1, <2>2, InsertOk DEF Typed
<1>6. ASSUME NEW clip \in Clips PROVE Good(Pasted(u, cap, clip))
  BY <1>1, PasteOk
<1>7. ASSUME NEW mod \in BOOLEAN PROVE Good(Backspaced(u, mod))
  <2> DEFINE from == IF mod THEN 0 ELSE prev_boundary(b, u.caret)
  <2>1. Backspaced(u, mod) = Removed(u, from, u.caret)
    BY DEF Backspaced
  <2>2. from \in 0 .. u.caret /\ (FieldWhole(u) => from \in Boundaries(b))
    BY <1>3, PrevFacts
  <2> HIDE DEF from
  <2>3. from \in 0 .. Len(b) /\ u.caret \in from .. Len(b)
    BY <1>3, <2>2
  <2>. QED  BY <1>1, <1>3, <2>1, <2>2, <2>3, RemoveOk
<1>8. ASSUME NEW mod \in BOOLEAN PROVE Good(Deleted(u, mod))
  <2> DEFINE to == IF mod THEN Len(b) ELSE next_boundary(b, u.caret)
  <2>1. Deleted(u, mod) = Removed(u, u.caret, to)
    BY DEF Deleted
  <2>2. to \in u.caret .. Len(b) /\ to \in Boundaries(b)
    BY <1>3, NextFacts
  <2> HIDE DEF to
  <2>. QED  BY <1>1, <1>3, <2>1, <2>2, RemoveOk
<1>9. ASSUME NEW mod \in BOOLEAN PROVE Good(MovedLeft(u, mod))
  <2> DEFINE to == IF u.all \/ mod THEN 0 ELSE prev_boundary(b, u.caret)
  <2>1. MovedLeft(u, mod) = Moved(u, to)
    BY DEF MovedLeft
  <2>2. to \in 0 .. u.caret /\ (FieldWhole(u) => to \in Boundaries(b))
    BY <1>3, PrevFacts
  <2> HIDE DEF to
  <2>3. to \in 0 .. Len(b)
    BY <1>3, <2>2
  <2>. QED  BY <1>1, <1>3, <2>1, <2>2, <2>3, MoveOk
<1>10. ASSUME NEW mod \in BOOLEAN PROVE Good(MovedRight(u, mod))
  <2> DEFINE to == IF u.all \/ mod THEN Len(b) ELSE next_boundary(b, u.caret)
  <2>1. MovedRight(u, mod) = Moved(u, to)
    BY DEF MovedRight
  <2>2. to \in u.caret .. Len(b) /\ to \in Boundaries(b)
    BY <1>3, NextFacts
  <2> HIDE DEF to
  <2>3. to \in 0 .. Len(b)
    BY <1>3, <2>2
  <2>. QED  BY <1>1, <1>3, <2>1, <2>2, <2>3, MoveOk
<1>11. Good(Moved(u, 0)) /\ Good(Moved(u, Len(b)))
  BY <1>1, <1>3, MoveOk
<1>12. Good(u)
  BY <1>1
<1>13. Good(f)
  <2> HIDE DEF Good
  <2>. QED  BY <1>2, <1>4, <1>5, <1>6, <1>7, <1>8, <1>9, <1>10, <1>11, <1>12
<1>. QED  BY <1>13 DEF u

\* text_edit_format shows a part of the text that ends at a boundary.
LEMMA ShownFacts ==
    ASSUME NEW s \in Seq(Byte), NEW cap \in Nat, cap >= 5
    PROVE  /\ Shown_bytes(s, cap) \in 0 .. Len(s)
           /\ IsCut(s, cap) => Shown_bytes(s, cap) + 3 <= Len(s)
           /\ ~IsCut(s, cap) => Shown_bytes(s, cap) = Len(s)
           /\ WellFormed(s) => Shown_bytes(s, cap) \in Boundaries(s)
<1> DEFINE room == Room(cap)
           n == Shown_bytes(s, cap)
<1>1. Len(s) \in Nat /\ room \in Nat /\ room - 3 \in Nat
  BY LenProperties DEF Room
<1>2. CASE ~IsCut(s, cap)
  BY <1>1, <1>2, EndsFacts DEF Shown_bytes
<1>3. CASE IsCut(s, cap)
  <2>1. \E b \in 0 .. (room - 3) :
          (~is_cont(s, b) \/ b = 0) /\ \A k \in (b + 1) .. (room - 3) : is_cont(s, k)
    <3> HIDE DEF room
    <3>. QED  BY <1>1, BackFacts
  <2>2. n \in 0 .. (room - 3) /\ (~is_cont(s, n) \/ n = 0)
    BY <1>3, <2>1 DEF Shown_bytes
  <2>3. Len(s) > room
    BY <1>3 DEF IsCut
  <2> HIDE DEF room, n
  <2>4. n \in 0 .. Len(s) /\ n + 3 <= Len(s)
    BY <1>1, <2>2, <2>3
  <2>5. WellFormed(s) => n \in Boundaries(s)
    BY <1>1, <2>2, <2>4, EndsFacts DEF Boundaries
  <2>. QED  BY <1>3, <2>4, <2>5 DEF n
<1>. QED  BY <1>2, <1>3

\* A click in what is displayed: up to Shown_bytes a boundary there is one of the text, once the
\* byte of the caret's marker is taken off.
LEMMA HitOk ==
    ASSUME NEW s \in Seq(Byte), NEW cap \in Nat, cap >= 5, NEW c \in Nat, NEW marker \in BOOLEAN,
           NEW x \in text_edit_hit_test(s, cap, c, marker)
    PROVE  /\ x \in 0 .. Len(s)
           /\ WellFormed(s) /\ (marker => c \in Boundaries(s)) /\ x <= Shown_bytes(s, cap) =>
                  x \in Boundaries(s)
<1> DEFINE at == MarkerAt(s, cap, c)
           n == Shown_bytes(s, cap)
           M == IF marker THEN <<"a">> ELSE <<>>
           m == Len(M)
           T == IF IsCut(s, cap) THEN <<"a", "a", "a">> ELSE <<>>
           p == First(s, at)
           q == SubSeq(s, at + 1, n)
           D == text_edit_format(s, cap, c, marker)
<1>1. PICK hit \in Boundaries(D) : x = (IF marker /\ hit > at THEN hit - 1 ELSE hit)
  BY DEF text_edit_hit_test
<1>2. /\ Len(s) \in Nat /\ n \in 0 .. Len(s)
      /\ n \in Nat /\ at \in 0 .. n /\ at \in Nat /\ at \in {c, n}
  <2>1. Len(s) \in Nat /\ n \in 0 .. Len(s)
    BY ShownFacts, LenProperties
  <2>2. at = IF c < n THEN c ELSE n
    BY DEF MarkerAt
  <2> HIDE DEF n, at
  <2>. QED  BY <2>1, <2>2
<1>3. D = ((p \o M) \o q) \o T
  BY DEF text_edit_format
<1>4. /\ M \in Seq(Byte) /\ m \in {0, 1} /\ (marker => m = 1 /\ M[1] = "a") /\ (~marker => m = 0)
      /\ T \in Seq(Byte) /\ Len(T) \in Nat /\ n + Len(T) <= Len(s)
  <2>0. \A y \in Byte : <<y>> \in Seq(Byte) /\ Len(<<y>>) = 1 /\ <<y>>[1] = y
    OBVIOUS
  <2>1. M \in Seq(Byte) /\ m \in {0, 1} /\ (marker => m = 1 /\ M[1] = "a") /\ (~marker => m = 0)
    <3>1. CASE marker
      <4>1. M = <<"a">> /\ "a" \in Byte
        BY <3>1 DEF Byte
      <4> HIDE DEF M
      <4>. QED  BY <2>0, <3>1, <4>1
    <3>2. CASE ~marker
      <4>1. M = <<>>
        BY <3>2
      <4> HIDE DEF M
      <4>. QED  BY <3>2, <4>1, EmptySeq
    <3>. QED  BY <3>1, <3>2
  <2>2. CASE IsCut(s, cap)
    <3>1. T = <<"a", "a", "a">> /\ T \in Seq(Byte) /\ Len(T) = 3
      BY <2>2 DEF Byte
    <3>. QED  BY <2>1, <2>2, <3>1, ShownFacts
  <2>3. CASE ~IsCut(s, cap)
    <3>1. T = <<>> /\ T \in Seq(Byte) /\ Len(T) = 0
      BY <2>3 DEF Byte
    <3>. QED  BY <1>2, <2>1, <2>3, <3>1, ShownFacts
  <2>. QED  BY <2>2, <2>3
<1>5. p \in Seq(Byte) /\ Len(p) = at /\ \A i \in 1 .. at : p[i] = s[i]
  <2>1. at \in 0 .. Len(s)
    BY <1>2
  <2> HIDE DEF at
  <2>. QED  BY <1>2, <2>1, CutFacts
<1> HIDE DEF at, n, M, T, m, p
<1>6. q \in Seq(Byte) /\ Len(q) = n - at /\ \A i \in 1 .. n - at : q[i] = s[at + i]
  <2>1. \A i \in at + 1 .. n : s[i] \in Byte
    BY <1>2, ElementOfSeq
  <2>2. /\ q \in Seq(Byte)
        /\ Len(q) = IF at + 1 <= n THEN n - (at + 1) + 1 ELSE 0
        /\ \A i \in 1 .. n - (at + 1) + 1 : q[i] = s[at + 1 + i - 1]
    BY <1>2, <2>1, SubSeqProperties
  <2> HIDE DEF q
  <2>. QED  BY <1>2, <2>2
<1> HIDE DEF q, D
<1> DEFINE pm == p \o M
           pmq == pm \o q
<1>7. /\ pm \in Seq(Byte) /\ Len(pm) = at + m
      /\ \A i \in 1 .. at + m : pm[i] = IF i <= at THEN p[i] ELSE M[i - at]
  <2>1. Len(M) = m
    BY DEF m
  <2>2. /\ pm \in Seq(Byte) /\ Len(pm) = Len(p) + Len(M)
        /\ \A i \in 1 .. Len(p) + Len(M) : pm[i] = IF i <= Len(p) THEN p[i] ELSE M[i - Len(p)]
    <3>1. p \in Seq(Byte) /\ M \in Seq(Byte)
      BY <1>4, <1>5
    <3>. QED  BY <3>1, ConcatProperties
  <2> HIDE DEF pm
  <2>. QED  BY <1>5, <2>1, <2>2
<1> HIDE DEF pm
<1>8. /\ pmq \in Seq(Byte) /\ Len(pmq) = n + m
      /\ \A i \in 1 .. n + m : pmq[i] = IF i <= at + m THEN pm[i] ELSE q[i - (at + m)]
  <2>1. (at + m) + (n - at) = n + m
    BY <1>2, <1>4
  <2>2. /\ pmq \in Seq(Byte) /\ Len(pmq) = Len(pm) + Len(q)
        /\ \A i \in 1 .. Len(pm) + Len(q) : pmq[i] = IF i <= Len(pm) THEN pm[i] ELSE q[i - Len(pm)]
    BY <1>6, <1>7, ConcatProperties
  <2> HIDE DEF pmq
  <2>. QED  BY <1>6, <1>7, <2>1, <2>2
<1> HIDE DEF pmq
<1>9. /\ D \in Seq(Byte) /\ Len(D) = n + m + Len(T)
      /\ \A i \in 1 .. n + m : D[i] = pmq[i]
  <2>1. D = pmq \o T
    BY <1>3 DEF pmq, pm
  <2>2. /\ D \in Seq(Byte) /\ Len(D) = Len(pmq) + Len(T)
        /\ \A i \in 1 .. Len(pmq) + Len(T) : D[i] = IF i <= Len(pmq) THEN pmq[i] ELSE T[i - Len(pmq)]
    BY <1>4, <1>8, <2>1, ConcatProperties
  <2>3. \A i \in 1 .. n + m : i \in 1 .. (n + m) + Len(T) /\ i <= n + m
    BY <1>2, <1>4
  <2>. QED  BY <1>8, <2>2, <2>3
<1>10. \A i \in 1 .. n : (i <= at => D[i] = s[i]) /\ (i > at => D[i + m] = s[i])
  <2> SUFFICES ASSUME NEW i \in 1 .. n
               PROVE  (i <= at => D[i] = s[i]) /\ (i > at => D[i + m] = s[i])
    OBVIOUS
  <2>1. CASE i <= at
    <3>1. i \in 1 .. n + m /\ i \in 1 .. at + m /\ i \in 1 .. at /\ i <= at + m
      BY <1>2, <1>4, <2>1
    <3>. QED  BY <1>5, <1>7, <1>8, <1>9, <2>1, <3>1, <1>2
  <2>2. CASE i > at
    <3>1. i + m \in 1 .. n + m /\ ~(i + m <= at + m) /\ i + m - (at + m) = i - at
          /\ i - at \in 1 .. n - at /\ at + (i - at) = i
      BY <1>2, <1>4, <2>2
    <3>2. D[i + m] = q[i - at]
      <4>1. PICK j \in 1 .. n + m : j = i + m /\ ~(j <= at + m) /\ j - (at + m) = i - at
        <5>1. i \in Nat /\ m \in Nat /\ at \in Nat /\ n \in Nat
          BY <1>2, <1>4
        <5>. QED  BY <3>1, <5>1
      <4>2. D[j] = pmq[j]
        BY <1>9
      <4>3. pmq[j] = q[j - (at + m)]
        BY <1>8, <4>1
      <4>. QED  BY <4>1, <4>2, <4>3
    <3>. QED  BY <1>2, <1>6, <2>2, <3>1, <3>2
  <2>. QED  BY <1>2, <2>1, <2>2
<1>11. /\ hit \in 0 .. n + m + Len(T)
       /\ hit < n + m + Len(T) => D[hit + 1] # "c"
  BY <1>1, <1>9 DEF Boundaries, is_cont
<1>12. x \in 0 .. Len(s)
  <2>1. CASE marker /\ hit > at
    BY <1>1, <1>2, <1>4, <1>11, <2>1
  <2>2. CASE ~marker
    BY <1>1, <1>2, <1>4, <1>11, <2>2
  <2>3. CASE marker /\ ~(hit > at)
    BY <1>1, <1>2, <1>4, <1>11, <2>3
  <2>. QED  BY <2>1, <2>2, <2>3
<1>13. ASSUME WellFormed(s), marker => c \in Boundaries(s), x <= n PROVE x \in Boundaries(s)
  <2>1. n \in Boundaries(s)
    BY <1>13, ShownFacts DEF n
  <2>2. marker => at \in Boundaries(s)
    BY <1>2, <1>13, <2>1
  <2>3. x \in Nat /\ x <= n
    BY <1>2, <1>12, <1>13
  <2>4. CASE x = n
    BY <2>1, <2>4
  <2>5. CASE x < n
    <3>1. x + 1 \in 1 .. n
      <4>1. \A y, z \in Nat : y < z => y + 1 \in 1 .. z
        OBVIOUS
      <4>. QED  BY <1>2, <2>3, <2>5, <4>1
    <3>2. s[x + 1] # "c" \/ (marker /\ x = at)
      <4>1. CASE marker /\ hit > at
        <5>1. hit = x + 1 /\ m = 1 /\ x + 1 > at /\ hit < n + m + Len(T)
          BY <1>1, <1>2, <1>4, <1>11, <2>3, <2>5, <4>1
        <5>2. D[x + 1 + 1] = s[x + 1]
          BY <1>10, <3>1, <5>1
        <5>. QED  BY <1>11, <5>1, <5>2
      <4>2. CASE ~(marker /\ hit > at)
        <5>1. hit = x /\ hit < n + m + Len(T)
          BY <1>1, <1>2, <1>4, <1>11, <2>3, <2>5, <4>2
        <5>2. CASE x + 1 <= at
          BY <1>10, <1>11, <3>1, <5>1, <5>2
        <5>3. CASE marker /\ x = at
          BY <5>3
        <5>4. CASE ~marker /\ x + 1 > at
          <6>1. x + 1 + m = x + 1
            <7>1. \A y \in Nat : y + 1 + 0 = y + 1
              OBVIOUS
            <7>. QED  BY <1>4, <2>3, <5>4, <7>1
          <6>2. D[x + 1] = s[x + 1]
            BY <1>10, <3>1, <5>4, <6>1
          <6>. QED  BY <1>11, <5>1, <6>2
        <5>5. x + 1 <= at \/ x = at \/ x > at
          BY <1>2, <2>3
        <5>6. x + 1 <= at \/ x + 1 > at
          BY <1>2, <2>3
        <5>7. marker => x <= at
          BY <1>2, <2>3, <4>2, <5>1
        <5>8. marker => x + 1 <= at \/ x = at
          BY <1>2, <2>3, <5>5, <5>7
        <5>. QED  BY <5>2, <5>3, <5>4, <5>6, <5>8
      <4>. QED  BY <4>1, <4>2
    <3>. QED  BY <1>12, <2>2, <3>2 DEF Boundaries, is_cont
  <2>. QED  BY <1>2, <2>3, <2>4, <2>5
<1>. QED  BY <1>12, <1>13 DEF n

-----------------------------------------------------------------------------
(* The panel. *)

PanelRec ==
    [open : BOOLEAN, was_open : BOOLEAN, active : Fields, prev : -1 .. 1,
     text : [Fields -> Seq(Byte)], caret : Nat, all : BOOLEAN]

PanelOk(p) == p \in PanelRec /\ \A f \in Fields : Len(p.text[f]) < Cap(f)

LEMMA CapFacts ==
    \A f \in Fields : /\ Cap(f) \in Nat \ {0}
                      /\ DisplayCap(f) \in Nat /\ DisplayCap(f) >= 5
BY PanelAssumption DEF Fields, Cap, DisplayCap

\* What the focus of a frame leaves.
LEMMA FocusOk ==
    ASSUME NEW p, PanelOk(p)
    PROVE  LET q == Focused(p)
           IN  /\ PanelOk(q) /\ q.was_open /\ q.prev = q.active
               /\ q.text = p.text /\ q.open = p.open
               /\ q.active = IF p.was_open THEN p.active ELSE 0
               /\ q.caret = IF p.was_open /\ p.active = p.prev THEN p.caret ELSE Len(q.text[q.active])
               /\ p.was_open /\ p.active = p.prev => q = p
<1> DEFINE o == Opened(p)
           q == Focused(p)
<1>0. p \in PanelRec /\ 0 \in Fields /\ -1 \in -1 .. 1 /\ \A f \in Fields : f \in -1 .. 1 /\ f # -1
  BY DEF PanelOk, Fields
<1>1. /\ o \in PanelRec /\ o.was_open /\ o.text = p.text /\ o.open = p.open /\ o.caret = p.caret
      /\ o.active = (IF p.was_open THEN p.active ELSE 0)
      /\ o.prev = (IF p.was_open THEN p.prev ELSE -1)
      /\ p.was_open => o = p
  <2>1. CASE p.was_open
    BY <1>0, <2>1 DEF Opened
  <2>2. CASE ~p.was_open
    BY <1>0, <2>2 DEF Opened, PanelRec
  <2>. QED  BY <2>1, <2>2
<1>2. q = IF o.active = o.prev THEN o
          ELSE [o EXCEPT !.prev = o.active, !.caret = Len(o.text[o.active])]
  BY DEF Focused
<1> HIDE DEF o, q
<1>3. /\ o.active \in Fields /\ o.text[o.active] \in Seq(Byte) /\ Len(o.text[o.active]) \in Nat
  BY <1>1, LenProperties DEF PanelRec
<1>4. CASE o.active = o.prev
  <2>1. q = o /\ p.was_open
    BY <1>0, <1>1, <1>2, <1>3, <1>4
  <2>2. PanelOk(q)
    BY <1>1, <2>1 DEF PanelOk
  <2>. QED  BY <1>1, <1>4, <2>1, <2>2 DEF q
<1>5. CASE o.active # o.prev
  <2>1. q = [o EXCEPT !.prev = o.active, !.caret = Len(o.text[o.active])]
    BY <1>2, <1>5
  <2>2. /\ q \in PanelRec /\ q.was_open /\ q.prev = o.active /\ q.active = o.active
        /\ q.text = o.text /\ q.open = o.open /\ q.caret = Len(o.text[o.active])
    BY <1>0, <1>1, <1>3, <2>1 DEF PanelRec
  <2>3. PanelOk(q)
    BY <1>1, <2>2 DEF PanelOk
  <2>4. ~(p.was_open /\ p.active = p.prev)
    BY <1>1, <1>5
  <2>. QED  BY <1>1, <2>2, <2>3, <2>4 DEF q
<1>. QED  BY <1>4, <1>5

\* A panel with another field in the place of the one that has the focus.
LEMMA FieldFacts ==
    ASSUME NEW p, PanelOk(p), NEW e, FieldOk(e, Cap(p.active)), NEW q, q = WithField(p, e)
    PROVE  /\ PanelOk(q) /\ q.caret = e.caret /\ q.text[q.active] = e.buf
           /\ \A f \in Fields : f # p.active => q.text[f] = p.text[f]
           /\ q.active = p.active /\ q.prev = p.prev /\ q.was_open = p.was_open
           /\ q.open = p.open
<1>1. p \in PanelRec /\ p.active \in Fields /\ p.text \in [Fields -> Seq(Byte)]
  BY DEF PanelOk, PanelRec
<1>2. e.buf \in Seq(Byte) /\ e.caret \in Nat /\ e.all \in BOOLEAN /\ Len(e.buf) < Cap(p.active)
  BY DEF FieldOk, Fits, FieldRec
<1>3. /\ q \in PanelRec /\ q.caret = e.caret /\ q.all = e.all
      /\ q.text = [p.text EXCEPT ![p.active] = e.buf]
      /\ q.active = p.active /\ q.prev = p.prev /\ q.was_open = p.was_open /\ q.open = p.open
  BY <1>1, <1>2 DEF WithField, PanelRec
<1>4. \A f \in Fields : q.text[f] = IF f = p.active THEN e.buf ELSE p.text[f]
  BY <1>1, <1>3
<1>5. PanelOk(q)
  BY <1>2, <1>3, <1>4 DEF PanelOk
<1>. QED  BY <1>1, <1>3, <1>4, <1>5

\* A frame without a key clamps the caret and changes no text.
LEMMA DrawnOk ==
    ASSUME NEW p, PanelOk(p)
    PROVE  LET q == Focused(p)
               d == Drawn(p)
           IN  /\ PanelOk(d) /\ d.text = p.text /\ d.active = q.active /\ d.prev = q.active
               /\ d.was_open /\ d.open = p.open
               /\ d.caret = Clamped(Field(q)).caret
               /\ d.caret \in 0 .. Len(d.text[d.active])
               /\ q.caret <= Len(p.text[q.active]) => d.caret = q.caret
<1> DEFINE q == Focused(p)
           d == Drawn(p)
           e == Clamped(Field(q))
<1>1. PanelOk(q) /\ q.was_open /\ q.prev = q.active /\ q.text = p.text /\ q.open = p.open
  BY FocusOk
<1> HIDE DEF q
<1>2. /\ q.active \in Fields /\ q.text \in [Fields -> Seq(Byte)] /\ Cap(q.active) \in Nat \ {0}
  BY <1>1, CapFacts DEF PanelOk, PanelRec
<1>3. Fits(Field(q), Cap(q.active)) /\ Field(q).buf = q.text[q.active] /\ Field(q).caret = q.caret
  BY <1>1, <1>2 DEF Field, Fits, FieldRec, PanelOk, PanelRec
<1>4. /\ FieldOk(e, Cap(q.active)) /\ e.buf = q.text[q.active]
      /\ q.caret <= Len(q.text[q.active]) => e.caret = q.caret
  BY <1>2, <1>3, ClampOk DEF FieldOk
<1>5. d = WithField(q, e)
  BY DEF Drawn, q
<1> HIDE DEF d, e
<1>6. /\ PanelOk(d) /\ d.caret = e.caret /\ d.text[d.active] = e.buf
      /\ \A f \in Fields : f # q.active => d.text[f] = q.text[f]
      /\ d.active = q.active /\ d.prev = q.prev /\ d.was_open = q.was_open /\ d.open = q.open
  <2>1. PanelOk(q) /\ FieldOk(e, Cap(q.active))
    BY <1>1, <1>4
  <2>. QED  BY <1>5, <2>1, FieldFacts
<1>7. d.text = p.text
  <2>1. d.text \in [Fields -> Seq(Byte)]
    BY <1>6 DEF PanelOk, PanelRec
  <2>2. \A f \in Fields : d.text[f] = q.text[f]
    BY <1>4, <1>6
  <2>. QED  BY <1>1, <1>2, <2>1, <2>2
<1>8. d.caret \in 0 .. Len(d.text[d.active])
  <2>1. Len(e.buf) \in Nat /\ e.caret \in Nat /\ e.caret <= Len(e.buf)
    BY <1>4, LenProperties DEF FieldOk, Fits, FieldRec
  <2>. QED  BY <1>6, <2>1
<1>. QED  BY <1>1, <1>4, <1>6, <1>7, <1>8 DEF q, d, e

\* The field and the caret that the next frame works with.
At(p) == IF p.was_open THEN p.active ELSE 0
CaretOf(p) ==
    IF p.was_open /\ p.active = p.prev /\ p.caret <= Len(p.text[p.active])
    THEN p.caret ELSE Len(p.text[At(p)])

\* TextWhole and TextFits of a panel.
Whole(p) ==
    (\A f \in Fields : WellFormed(p.text[f])) /\ CaretOf(p) \in Boundaries(p.text[At(p)])

LEMMA CaretFacts ==
    ASSUME NEW p, PanelOk(p)
    PROVE  /\ Focused(p).active = At(p) /\ At(p) \in Fields
           /\ Drawn(p).caret = CaretOf(p)
<1>1. Focused(p).active = At(p) /\ At(p) \in Fields
  BY FocusOk DEF At, PanelOk, PanelRec, Fields
<1>2. p.text[At(p)] \in Seq(Byte) /\ Len(p.text[At(p)]) \in Nat /\ p.caret \in Nat
  BY <1>1, LenProperties DEF PanelOk, PanelRec
<1> DEFINE q == Focused(p)
<1>3. /\ q.text = p.text /\ q.active = At(p)
      /\ q.caret = IF p.was_open /\ p.active = p.prev THEN p.caret ELSE Len(p.text[At(p)])
  BY <1>1, FocusOk
<1>4. Drawn(p).caret = Clamped(Field(q)).caret
  BY DrawnOk
<1>5. Field(q) = [buf |-> p.text[At(p)], caret |-> q.caret, all |-> q.all]
  BY <1>3 DEF Field
<1> HIDE DEF q
<1>6. Clamped(Field(q)).caret = IF q.caret > Len(p.text[At(p)]) THEN Len(p.text[At(p)]) ELSE q.caret
  BY <1>5 DEF Clamped
<1>7. CASE p.was_open /\ p.active = p.prev
  <2>1. q.caret = p.caret /\ At(p) = p.active
    BY <1>3, <1>7 DEF At
  <2>. QED  BY <1>1, <1>2, <1>4, <1>6, <1>7, <2>1 DEF CaretOf
<1>8. CASE ~(p.was_open /\ p.active = p.prev)
  BY <1>1, <1>2, <1>3, <1>4, <1>6, <1>8 DEF CaretOf
<1>. QED  BY <1>1, <1>7, <1>8

LEMMA WholeFacts ==
    /\ PanelOk(panel) => (TextWhole <=> Whole(panel)) /\ TextFits
    /\ PanelOk(panel') => (TextWhole' <=> Whole(panel')) /\ TextFits'
<1>1. ASSUME PanelOk(panel) PROVE (TextWhole <=> Whole(panel)) /\ TextFits
  <2>1. Focused(panel).text = panel.text /\ Focused(panel).active = At(panel)
        /\ Drawn(panel).caret = CaretOf(panel)
    BY <1>1, FocusOk, CaretFacts
  <2>. QED  BY <1>1, <2>1 DEF TextWhole, Whole, TextFits, PanelOk
<1>2. ASSUME PanelOk(panel') PROVE (TextWhole' <=> Whole(panel')) /\ TextFits'
  <2>1. Focused(panel').text = panel'.text /\ Focused(panel').active = At(panel')
        /\ Drawn(panel').caret = CaretOf(panel')
    BY <1>2, FocusOk, CaretFacts
  <2>. QED  BY <1>2, <2>1 DEF TextWhole, Whole, TextFits, PanelOk
<1>. QED  BY <1>1, <1>2

\* A panel that is closed, or has lost its focus, or has its caret at a boundary.
LEMMA WholeAgain ==
    ASSUME NEW p, PanelOk(p), \A f \in Fields : WellFormed(p.text[f]),
           p.was_open /\ p.active = p.prev /\ p.caret <= Len(p.text[p.active]) =>
               p.caret \in Boundaries(p.text[p.active])
    PROVE  Whole(p)
<1>1. At(p) \in Fields /\ p.text[At(p)] \in Seq(Byte)
  BY CaretFacts DEF PanelOk, PanelRec
<1>2. Len(p.text[At(p)]) \in Boundaries(p.text[At(p)])
  BY <1>1, EndsFacts
<1>. QED  BY <1>2 DEF Whole, CaretOf, At

\* A frame of a panel without a key is as whole as the panel.
LEMMA DrawnWhole ==
    ASSUME NEW p, PanelOk(p)
    PROVE  PanelOk(Drawn(p)) /\ (Whole(p) => Whole(Drawn(p)))
<1> DEFINE d == Drawn(p)
<1>1. /\ PanelOk(d) /\ d.text = p.text /\ d.active = At(p) /\ d.caret = CaretOf(p)
  BY DrawnOk, CaretFacts
<1> HIDE DEF d
<1>2. Whole(p) => Whole(d)
  BY <1>1, WholeAgain DEF Whole
<1>. QED  BY <1>1, <1>2 DEF d

\* A panel that is opened or shut from elsewhere.
LEMMA OpenWhole ==
    ASSUME NEW p, PanelOk(p), NEW b \in BOOLEAN
    PROVE  LET q == [p EXCEPT !.open = b] IN PanelOk(q) /\ (Whole(p) => Whole(q))
<1> DEFINE q == [p EXCEPT !.open = b]
<1>1. /\ q \in PanelRec /\ q.was_open = p.was_open /\ q.active = p.active /\ q.prev = p.prev
      /\ q.text = p.text /\ q.caret = p.caret
  BY DEF PanelOk, PanelRec
<1> HIDE DEF q
<1>2. PanelOk(q)
  BY <1>1 DEF PanelOk
<1>3. Whole(p) => Whole(q)
  BY <1>1 DEF Whole, CaretOf, At
<1>. QED  BY <1>2, <1>3 DEF q

\* A key or a paste.
LEMMA FrameStep ==
    ASSUME PanelOk(panel), PanelFrame
    PROVE  PanelOk(panel') /\ (Whole(panel) => Whole(panel'))
<1> DEFINE p == Focused(panel)
           cap == Cap(p.active)
           u == Clamped(Field(p))
<1>1. PICK e \in text_edit_update(Field(p), cap) : panel' = WithField(p, e)
  BY DEF PanelFrame
<1>2. /\ PanelOk(p) /\ p.was_open /\ p.prev = p.active /\ p.text = panel.text /\ p.active = At(panel)
      /\ Drawn(panel).caret = u.caret /\ CaretOf(panel) = u.caret
  BY FocusOk, DrawnOk, CaretFacts
<1> HIDE DEF p
<1>3. p.active \in Fields /\ cap \in Nat \ {0} /\ p.text \in [Fields -> Seq(Byte)]
  BY <1>2, CapFacts DEF PanelOk, PanelRec
<1>4. Fits(Field(p), cap) /\ Field(p).buf = p.text[p.active]
  BY <1>2, <1>3 DEF Field, Fits, FieldRec, PanelOk, PanelRec
<1>5. u.buf = p.text[p.active]
  BY <1>3, <1>4, ClampOk
<1>6. FieldOk(e, cap) /\ (FieldWhole(u) => FieldWhole(e))
  BY <1>3, <1>4, UpdateOk
<1>7. Whole(panel) => FieldWhole(u)
  BY <1>2, <1>3, <1>5 DEF Whole, FieldWhole
<1> HIDE DEF u
<1>8. /\ PanelOk(panel') /\ panel'.caret = e.caret /\ panel'.text[panel'.active] = e.buf
      /\ \A f \in Fields : f # p.active => panel'.text[f] = p.text[f]
      /\ panel'.active = p.active /\ panel'.prev = p.prev /\ panel'.was_open
  BY <1>1, <1>2, <1>6, FieldFacts
<1>9. ASSUME Whole(panel) PROVE Whole(panel')
  <2>1. FieldWhole(e)
    BY <1>6, <1>7, <1>9
  <2>2. \A f \in Fields : WellFormed(panel'.text[f])
    BY <1>2, <1>8, <1>9, <2>1 DEF Whole, FieldWhole
  <2>3. panel'.caret \in Boundaries(panel'.text[panel'.active])
    BY <1>8, <2>1 DEF FieldWhole
  <2>. QED  BY <1>8, <2>2, <2>3, WholeAgain
<1>. QED  BY <1>8, <1>9

\* A click on a field, unless on the "..." of a text that is displayed in part.
LEMMA ClickStep ==
    ASSUME PanelOk(panel), NEW f \in Fields, ClickPanelField(f)
    PROVE  PanelOk(panel') /\ (Whole(panel) => Whole(panel') \/ ClickPastShown(f))
<1> DEFINE p == Drawn(panel)
           s == p.text[f]
           cap == DisplayCap(f)
           marker == f = p.active /\ ~p.all
<1>1. PICK hit \in text_edit_hit_test(s, cap, p.caret, marker) :
        panel' = [p EXCEPT !.active = f, !.all = FALSE, !.prev = f,
                           !.caret = IF hit > Len(s) THEN Len(s) ELSE hit]
  BY DEF ClickPanelField
<1>2. /\ PanelOk(p) /\ p.text = panel.text /\ p.was_open /\ p.active = At(panel)
      /\ p.caret = CaretOf(panel)
  BY DrawnOk, CaretFacts
<1> HIDE DEF p
<1>3. /\ s \in Seq(Byte) /\ cap \in Nat /\ cap >= 5 /\ p.caret \in Nat /\ marker \in BOOLEAN
      /\ p \in PanelRec /\ f \in -1 .. 1 /\ Len(s) \in Nat
  BY <1>2, CapFacts, LenProperties DEF PanelOk, PanelRec, Fields
<1> HIDE DEF s, cap, marker
<1>4. /\ hit \in 0 .. Len(s)
      /\ WellFormed(s) /\ (marker => p.caret \in Boundaries(s)) /\ hit <= Shown_bytes(s, cap) =>
             hit \in Boundaries(s)
  BY <1>1, <1>3, HitOk
<1>5. panel' = [p EXCEPT !.active = f, !.all = FALSE, !.prev = f, !.caret = hit]
  <2>1. ~(hit > Len(s))
    BY <1>3, <1>4
  <2>. QED  BY <1>1, <2>1
<1>6. /\ panel' \in PanelRec /\ panel'.text = p.text /\ panel'.active = f /\ panel'.prev = f
      /\ panel'.caret = hit
  <2>1. hit \in Nat
    BY <1>3, <1>4
  <2>2. f \in Fields
    OBVIOUS
  <2>3. p.was_open \in BOOLEAN /\ p.open \in BOOLEAN /\ p.text \in [Fields -> Seq(Byte)]
    BY <1>3 DEF PanelRec
  <2>4. panel' = [open |-> p.open, was_open |-> p.was_open, active |-> f, prev |-> f,
                  text |-> p.text, caret |-> hit, all |-> FALSE]
    BY <1>3, <1>5 DEF PanelRec
  <2>. QED  BY <1>3, <2>1, <2>2, <2>3, <2>4 DEF PanelRec
<1>7. PanelOk(panel')
  BY <1>2, <1>6 DEF PanelOk
<1>8. ASSUME Whole(panel), ~ClickPastShown(f) PROVE Whole(panel')
  <2>1. \A g \in Fields : WellFormed(p.text[g])
    BY <1>2, <1>8 DEF Whole
  <2>2. marker => p.caret \in Boundaries(s)
    BY <1>2, <1>8 DEF Whole, marker, s
  <2>3. ~(hit > Shown_bytes(s, cap))
    BY <1>2, <1>6, <1>8 DEF ClickPastShown, s, cap
  <2>4. Shown_bytes(s, cap) \in Nat
    BY <1>3, ShownFacts
  <2>5. hit \in Boundaries(s)
    BY <1>4, <2>1, <2>2, <2>3, <2>4 DEF s
  <2>. QED  BY <1>2, <1>6, <1>7, <2>1, <2>5, WholeAgain DEF s
<1>. QED  BY <1>7, <1>8

\* A close by the panel's own means.
LEMMA CloseStep ==
    ASSUME PanelOk(panel), ClosePanel
    PROVE  PanelOk(panel') /\ (Whole(panel) => Whole(panel'))
<1> DEFINE p == Drawn(panel)
<1>1. panel' = [p EXCEPT !.open = FALSE, !.was_open = FALSE]
  BY DEF ClosePanel
<1>2. PanelOk(p) /\ p.text = panel.text
  BY DrawnOk
<1> HIDE DEF p
<1>3. panel' \in PanelRec /\ panel'.text = p.text /\ ~panel'.was_open
  BY <1>1, <1>2 DEF PanelOk, PanelRec
<1>4. PanelOk(panel')
  BY <1>2, <1>3 DEF PanelOk
<1>5. Whole(panel) => Whole(panel')
  BY <1>2, <1>3, <1>4, WholeAgain DEF Whole
<1>. QED  BY <1>4, <1>5

\* Every text written from elsewhere fits.
LEMMA WrittenFits == \A s \in Written : s \in Seq(Byte) /\ Len(s) < TopicCap
<1> SUFFICES ASSUME NEW s \in Written PROVE s \in Seq(Byte) /\ Len(s) < TopicCap
  OBVIOUS
<1>1. CASE s \in NodePaths
  BY <1>1, PanelAssumption
<1>2. ASSUME NEW t \in CopiedTopics, s = util_str_copy(t) PROVE s \in Seq(Byte) /\ Len(s) < TopicCap
  <2> DEFINE n == IF Len(t) < TopicCap THEN Len(t) ELSE TopicCap - 1
  <2>1. t \in Seq(Byte) /\ Len(t) \in Nat /\ TopicCap \in Nat \ {0}
    BY PanelAssumption, LenProperties
  <2>2. n \in 0 .. Len(t) /\ n < TopicCap
    BY <2>1
  <2>3. s = First(t, n)
    BY <1>2 DEF util_str_copy
  <2> HIDE DEF n
  <2>. QED  BY <2>1, <2>2, <2>3, CutFacts
<1>. QED  BY <1>1, <1>2 DEF Written

\* A topic written from elsewhere, unless it ends in half a character or the caret is in it.
LEMMA PublishStep ==
    ASSUME PanelOk(panel), NEW s \in Written, PublishHere(s)
    PROVE  PanelOk(panel') /\ (Whole(panel) => Whole(panel') \/ UnseenWrite(s) \/ CutWrite(s))
<1> DEFINE w == WithTopic(panel, s)
<1>1. panel' = Drawn(Raised(w))
  BY DEF PublishHere
<1>2. /\ w \in PanelRec /\ w.was_open = panel.was_open /\ w.active = panel.active
      /\ w.prev = panel.prev /\ w.caret = panel.caret
      /\ w.text[0] = s /\ w.text[1] = panel.text[1]
  <2>1. 0 \in Fields /\ 1 \in Fields /\ 1 # 0
    BY DEF Fields
  <2>. QED  BY <2>1, WrittenFits DEF WithTopic, PanelOk, PanelRec
<1> HIDE DEF w
<1>3. PanelOk(w)
  <2>1. \A f \in Fields : f = 0 \/ f = 1
    BY DEF Fields
  <2>2. Len(w.text[0]) < Cap(0) /\ Len(w.text[1]) < Cap(1)
    BY <1>2, WrittenFits DEF Cap, PanelOk, Fields
  <2>. QED  BY <1>2, <2>1, <2>2 DEF PanelOk
<1>4. PanelOk(Raised(w)) /\ (Whole(w) => Whole(Raised(w)))
  BY <1>3, OpenWhole DEF Raised
<1>5. PanelOk(panel') /\ (Whole(w) => Whole(panel'))
  BY <1>1, <1>4, DrawnWhole
<1>6. ASSUME Whole(panel), ~UnseenWrite(s), ~CutWrite(s) PROVE Whole(w)
  <2>1. WellFormed(s) /\ ~(panel.was_open /\ panel.active = 0)
    BY <1>6 DEF UnseenWrite, CutWrite
  <2>2. \A f \in Fields : WellFormed(w.text[f])
    <3>1. \A f \in Fields : f = 0 \/ f = 1
      BY DEF Fields
    <3>2. WellFormed(panel.text[1])
      BY <1>6 DEF Whole, Fields
    <3>. QED  BY <1>2, <2>1, <3>1, <3>2
  <2>3. ASSUME w.was_open, w.active = w.prev, w.caret <= Len(w.text[w.active])
        PROVE  w.caret \in Boundaries(w.text[w.active])
    <3>1. panel.active = 1 /\ w.text[w.active] = panel.text[panel.active]
      BY <1>2, <2>1, <2>3 DEF PanelOk, PanelRec, Fields
    <3>. QED  BY <1>2, <1>6, <2>3, <3>1 DEF Whole, CaretOf, At
  <2>. QED  BY <1>3, <2>2, <2>3, WholeAgain
<1>. QED  BY <1>5, <1>6

\* Every step of the panel and of those who write into it.
LEMMA PanelStep ==
    ASSUME PanelOk(panel), [PanelNext]_panelVars
    PROVE  /\ PanelOk(panel')
           /\ Whole(panel) => \/ Whole(panel')
                              \/ \E f \in Fields : ClickPastShown(f)
                              \/ \E s \in Written : UnseenWrite(s) \/ CutWrite(s)
<1>1. CASE PanelFrame
  BY <1>1, FrameStep
<1>2. CASE ClosePanel
  BY <1>2, CloseStep
<1>3. CASE OpenPanel
  <2>1. PanelOk(Raised(panel)) /\ (Whole(panel) => Whole(Raised(panel)))
    BY OpenWhole DEF Raised
  <2>. QED  BY <1>3, <2>1, DrawnWhole DEF OpenPanel
<1>4. CASE ShortcutCloses
  BY <1>4, OpenWhole DEF ShortcutCloses
<1>5. ASSUME NEW f \in Fields, ClickPanelField(f)
      PROVE  PanelOk(panel') /\ (Whole(panel) => Whole(panel') \/ ClickPastShown(f))
  BY <1>5, ClickStep
<1>6. ASSUME NEW s \in Written, PublishHere(s)
      PROVE  PanelOk(panel') /\ (Whole(panel) => Whole(panel') \/ UnseenWrite(s) \/ CutWrite(s))
  BY <1>6, PublishStep
<1>7. CASE UNCHANGED panelVars
  BY <1>7 DEF panelVars
<1>. QED  BY <1>1, <1>2, <1>3, <1>4, <1>5, <1>6, <1>7 DEF PanelNext

\* No key, paste, click, opening or closing of the publish panel overflows a text, leaves half a
\* character in one or puts the caret that both fields share within one, but for a click on "...",
\* a topic put into the field that has the caret, and a topic cut in a character (text_edit.c:87):
\* for buffers of any size and any clipboards, paths and topics.
THEOREM TextStaysWhole == PanelSpec => TextIsWhole
<1>1. PanelInit => PanelOk(panel)
  <2>1. <<>> \in Seq(Byte) /\ Len(<<>>) = 0
    BY EmptySeq
  <2>2. \A f \in Fields : 0 < Cap(f)
    BY CapFacts
  <2>3. PanelInit => panel \in PanelRec /\ \A f \in Fields : panel.text[f] = <<>>
    BY <2>1 DEF PanelInit, PanelRec, Fields
  <2>. QED  BY <2>1, <2>2, <2>3 DEF PanelOk
<1>2. PanelOk(panel) /\ [PanelNext]_panelVars => PanelOk(panel)'
  BY PanelStep
<1>3. ASSUME PanelOk(panel), [PanelNext]_panelVars
      PROVE  [/\ TextFits'
              /\ TextWhole => \/ TextWhole'
                              \/ \E f \in Fields : ClickPastShown(f)
                              \/ \E s \in Written : UnseenWrite(s) \/ CutWrite(s)]_panelVars
  BY <1>3, PanelStep, WholeFacts
<1>. QED  BY <1>1, <1>2, <1>3, PTL DEF PanelSpec, TextIsWhole

-----------------------------------------------------------------------------
(* The profiles: the list, the table and the dialog.                       *)

ProfileRec == [key : Nat, id : Nat, port : Nat, subs : Nat, transport : {0, 1}]
RowRec == [key : Nat, port : Nat, subs : Nat, transport : {0, 1}]

\* What ties the list ps to the table rs, whose last id was rid, when ks profiles were created.
\* A profile that was never saved has no row under any id: without this its first save could
\* store a profile a second time.
Tied(ps, rs, rid, ks) ==
    /\ ps \in Seq(ProfileRec) /\ rid \in Nat /\ ks \in Nat
    /\ \A r \in DOMAIN rs : r \in 1 .. rid /\ rs[r] \in RowRec
    /\ \A r \in DOMAIN rs : rs[r].port = rs[r].key /\ rs[r].key <= ks
    /\ \A i \in 1 .. Len(ps) : ps[i].port = ps[i].key /\ ps[i].key <= ks
    /\ \A r, s \in DOMAIN rs : rs[r].key = rs[s].key => r = s
    /\ \A i \in 1 .. Len(ps) : ps[i].id = 0 => \A r \in DOMAIN rs : rs[r].key # ps[i].key
    /\ \A i \in 1 .. Len(ps) :
         ps[i].id # 0 => ps[i].id \in DOMAIN rs /\ rs[ps[i].id].key = ps[i].key
    /\ \A i, j \in 1 .. Len(ps) : ps[i].key = ps[j].key => i = j

\* An edit that leaves a profile its key, its row and its own port.
LEMMA TiedEdit ==
    ASSUME NEW ps, NEW rs, NEW rid, NEW ks, Tied(ps, rs, rid, ks),
           NEW i \in 1 .. Len(ps), NEW p \in ProfileRec,
           p.key = ps[i].key, p.id = ps[i].id, p.port = p.key
    PROVE  Tied([ps EXCEPT ![i] = p], rs, rid, ks)
<1> DEFINE qs == [ps EXCEPT ![i] = p]
<1>1. ps \in Seq(ProfileRec) /\ rid \in Nat /\ ks \in Nat
  BY DEF Tied
<1>2. qs \in Seq(ProfileRec) /\ Len(qs) = Len(ps)
  BY <1>1, ExceptSeq
<1>3. \A j \in 1 .. Len(ps) : qs[j] = IF j = i THEN p ELSE ps[j]
  BY <1>1
<1> HIDE DEF qs
<1>4. \A j \in 1 .. Len(ps) : qs[j].key = ps[j].key /\ qs[j].id = ps[j].id
  BY <1>3
<1>5. \A j \in 1 .. Len(ps) : qs[j].port = qs[j].key
  BY <1>3 DEF Tied
<1>6. Tied(qs, rs, rid, ks)
  BY <1>1, <1>2, <1>4, <1>5, SMTT(30) DEF Tied
<1>. QED  BY <1>6 DEF qs

\* A new profile has a key no row and no entry has.
LEMMA TiedNew ==
    ASSUME NEW ps, NEW rs, NEW rid, NEW ks, Tied(ps, rs, rid, ks)
    PROVE  Tied(Append(ps, DefaultProfile(ks + 1)), rs, rid, ks + 1)
<1> DEFINE p == DefaultProfile(ks + 1)
           qs == Append(ps, p)
           n == Len(ps)
<1>1. ps \in Seq(ProfileRec) /\ rid \in Nat /\ ks \in Nat /\ ks + 1 \in Nat
  BY DEF Tied
<1>2. p \in ProfileRec /\ p.key = ks + 1 /\ p.id = 0 /\ p.port = ks + 1
  BY <1>1 DEF DefaultProfile, ProfileRec
<1> HIDE DEF p
<1>3. /\ qs \in Seq(ProfileRec) /\ Len(qs) = n + 1 /\ n \in Nat /\ qs[n + 1] = p
      /\ \A j \in 1 .. n : qs[j] = ps[j]
  BY <1>1, <1>2, AppendProperties
<1> HIDE DEF qs
<1>4. \A j \in 1 .. n : ps[j].key \in Nat
  <2>1. \A j \in 1 .. n : ps[j] \in ProfileRec
    BY <1>1, ElementOfSeq
  <2>. QED  BY <2>1 DEF ProfileRec
<1>5. \A r \in DOMAIN rs : rs[r] \in RowRec /\ rs[r].key \in Nat /\ rs[r].key <= ks
  BY DEF Tied, RowRec
<1>6. \A r \in DOMAIN rs : rs[r].key <= ks + 1 /\ rs[r].key # ks + 1
  BY <1>1, <1>5
<1>7. \A j \in 1 .. n : ps[j].key <= ks
  BY DEF Tied
<1>8. \A j \in 1 .. n : ps[j].key <= ks + 1 /\ ps[j].key # ks + 1
  BY <1>1, <1>4, <1>7
<1>9. \A j \in 1 .. n + 1 : j \in 1 .. n \/ j = n + 1
  BY <1>3
<1>10. \A j \in 1 .. n + 1 : qs[j].port = qs[j].key /\ qs[j].key <= ks + 1
  <2>1. \A j \in 1 .. n : ps[j].port = ps[j].key
    BY DEF Tied
  <2>. QED  BY <1>1, <1>2, <1>3, <1>8, <1>9, <2>1
<1>11. \A j \in 1 .. n + 1 : qs[j].id = 0 => \A r \in DOMAIN rs : rs[r].key # qs[j].key
  <2>1. \A j \in 1 .. n : ps[j].id = 0 => \A r \in DOMAIN rs : rs[r].key # ps[j].key
    BY DEF Tied
  <2>. QED  BY <1>2, <1>3, <1>6, <1>9, <2>1
<1>12. \A j \in 1 .. n + 1 :
         qs[j].id # 0 => qs[j].id \in DOMAIN rs /\ rs[qs[j].id].key = qs[j].key
  <2>1. \A j \in 1 .. n :
          ps[j].id # 0 => ps[j].id \in DOMAIN rs /\ rs[ps[j].id].key = ps[j].key
    BY DEF Tied
  <2>. QED  BY <1>2, <1>3, <1>9, <2>1
<1>13. \A i, j \in 1 .. n + 1 : qs[i].key = qs[j].key => i = j
  <2>1. \A i, j \in 1 .. n : ps[i].key = ps[j].key => i = j
    BY DEF Tied
  <2>. QED  BY <1>2, <1>3, <1>8, <1>9, <2>1
<1>14. Tied(qs, rs, rid, ks + 1)
  BY <1>1, <1>3, <1>5, <1>6, <1>10, <1>11, <1>12, <1>13 DEF Tied
<1>. QED  BY <1>14 DEF qs, p

\* The table with a row written, and without one.
WithRow(rs, id, row) == [r \in DOMAIN rs \cup {id} |-> IF r = id THEN row ELSE rs[r]]
WithoutRow(rs, id) == [r \in DOMAIN rs \ {id} |-> rs[r]]

\* A profile is stored: in its row, or in a new one that it then knows.
LEMMA TiedStore ==
    ASSUME NEW ps, NEW rs, NEW rid, NEW ks, Tied(ps, rs, rid, ks),
           NEW i \in 1 .. Len(ps), NEW p \in ProfileRec,
           p.key = ps[i].key, p.id = ps[i].id, p.port = p.key,
           NEW id, id = IF p.id = 0 THEN rid + 1 ELSE p.id
    PROVE  Tied([ps EXCEPT ![i] = Stored(p, id)], WithRow(rs, id, RowOf(p)),
                IF p.id = 0 THEN id ELSE rid, ks)
<1> DEFINE n == Len(ps)
           q == Stored(p, id)
           qs == [ps EXCEPT ![i] = q]
           ts == WithRow(rs, id, RowOf(p))
           tid == IF p.id = 0 THEN id ELSE rid
<1>1. ps \in Seq(ProfileRec) /\ rid \in Nat /\ ks \in Nat /\ n \in Nat
  BY DEF Tied
<1>2. p.key \in Nat /\ p.id \in Nat /\ p.port \in Nat /\ p.subs \in Nat /\ p.transport \in {0, 1}
  BY DEF ProfileRec
<1>3. \A r \in DOMAIN rs : r \in 1 .. rid
  BY DEF Tied
<1>4. p.id # 0 => p.id \in DOMAIN rs /\ rs[p.id].key = p.key
  BY DEF Tied
<1>5. id \in Nat /\ id # 0 /\ id \in 1 .. tid /\ tid \in Nat /\ rid <= tid
  <2>1. CASE p.id = 0
    BY <1>1, <2>1
  <2>2. CASE p.id # 0
    BY <1>1, <1>3, <1>4, <2>2
  <2>. QED  BY <2>1, <2>2
<1>6. p.id = 0 => id \notin DOMAIN rs
  BY <1>1, <1>3
<1>7. q \in ProfileRec /\ q.key = p.key /\ q.id = id /\ q.port = p.key
  <2>1. CASE p.id = 0
    <3>1. q = [p EXCEPT !.id = id]
      BY <2>1 DEF Stored
    <3>. QED  BY <1>5, <3>1 DEF ProfileRec
  <2>2. CASE p.id # 0
    <3>1. q = p
      BY <2>2 DEF Stored
    <3>. QED  BY <2>2, <3>1
  <2>. QED  BY <2>1, <2>2
<1>8. RowOf(p) \in RowRec /\ RowOf(p).key = p.key /\ RowOf(p).port = p.key
  BY <1>2 DEF RowOf, RowRec
<1> HIDE DEF q, tid
<1>9. qs \in Seq(ProfileRec) /\ Len(qs) = n
  BY <1>1, <1>7, ExceptSeq
<1>10. \A j \in 1 .. n : qs[j] = IF j = i THEN q ELSE ps[j]
  BY <1>1
<1> HIDE DEF qs
<1>11. \A j \in 1 .. n : qs[j].key = ps[j].key
  BY <1>7, <1>10
<1>12. /\ DOMAIN ts = DOMAIN rs \cup {id} /\ ts[id] = RowOf(p)
       /\ \A r \in DOMAIN rs : r # id => ts[r] = rs[r]
  BY DEF WithRow
<1> HIDE DEF ts
<1>13. \A r \in DOMAIN rs : ts[r].key = rs[r].key
  BY <1>4, <1>6, <1>8, <1>12
<1>14. \A r \in DOMAIN ts : r \in 1 .. tid
  BY <1>1, <1>3, <1>5, <1>12
<1>15. \A r \in DOMAIN ts : ts[r] \in RowRec
  BY <1>8, <1>12 DEF Tied
<1>16. \A r \in DOMAIN ts : ts[r].port = ts[r].key /\ ts[r].key <= ks
  <2>1. p.key <= ks
    BY DEF Tied
  <2>2. \A r \in DOMAIN rs : rs[r].port = rs[r].key /\ rs[r].key <= ks
    BY DEF Tied
  <2>. QED  BY <1>8, <1>12, <2>1, <2>2
<1>17. \A j \in 1 .. n : qs[j].port = qs[j].key /\ qs[j].key <= ks
  <2>1. \A j \in 1 .. n : ps[j].port = ps[j].key /\ ps[j].key <= ks
    BY DEF Tied
  <2>. QED  BY <1>7, <1>10, <2>1
<1>18. \A r \in DOMAIN rs : rs[r].key = p.key => r = id
  <2>1. CASE p.id = 0
    <3>1. ps[i].id = 0 => \A r \in DOMAIN rs : rs[r].key # ps[i].key
      BY DEF Tied
    <3>. QED  BY <2>1, <3>1
  <2>2. CASE p.id # 0
    BY <1>4, <2>2 DEF Tied
  <2>. QED  BY <2>1, <2>2
<1>19. \A r, s \in DOMAIN ts : ts[r].key = ts[s].key => r = s
  <2>1. \A r, s \in DOMAIN rs : rs[r].key = rs[s].key => r = s
    BY DEF Tied
  <2>. QED  BY <1>8, <1>12, <1>18, <2>1
<1>20. \A j \in 1 .. n : qs[j].id = 0 => \A r \in DOMAIN ts : ts[r].key # qs[j].key
  <2> SUFFICES ASSUME NEW j \in 1 .. n, qs[j].id = 0, NEW r \in DOMAIN ts
               PROVE  ts[r].key # qs[j].key
    OBVIOUS
  <2>1. j # i /\ qs[j] = ps[j]
    BY <1>5, <1>7, <1>10
  <2>2. ps[j].key # p.key
    BY <2>1 DEF Tied
  <2>3. \A s \in DOMAIN rs : rs[s].key # ps[j].key
    BY <2>1 DEF Tied
  <2>. QED  BY <1>8, <1>12, <2>1, <2>2, <2>3
<1>21. \A j \in 1 .. n :
         qs[j].id # 0 => qs[j].id \in DOMAIN ts /\ ts[qs[j].id].key = qs[j].key
  <2> SUFFICES ASSUME NEW j \in 1 .. n, qs[j].id # 0
               PROVE  qs[j].id \in DOMAIN ts /\ ts[qs[j].id].key = qs[j].key
    OBVIOUS
  <2>1. CASE j = i
    BY <1>7, <1>8, <1>10, <1>12, <2>1
  <2>2. CASE j # i
    <3>1. qs[j] = ps[j]
      BY <1>10, <2>2
    <3>2. ps[j].id \in DOMAIN rs /\ rs[ps[j].id].key = ps[j].key
      BY <3>1 DEF Tied
    <3>. QED  BY <1>12, <1>13, <3>1, <3>2
  <2>. QED  BY <2>1, <2>2
<1>22. \A j, k \in 1 .. n : qs[j].key = qs[k].key => j = k
  BY <1>11 DEF Tied
<1>23. Tied(qs, ts, tid, ks)
  BY <1>1, <1>5, <1>9, <1>14, <1>15, <1>16, <1>17, <1>19, <1>20, <1>21, <1>22 DEF Tied
<1>. QED  BY <1>23 DEF qs, q, ts, tid

\* A profile leaves the list, and its row the table unless the DELETE failed.
LEMMA TiedDelete ==
    ASSUME NEW ps, NEW rs, NEW rid, NEW ks, Tied(ps, rs, rid, ks), NEW i \in 1 .. Len(ps),
           NEW ts, ts = rs \/ ts = WithoutRow(rs, ps[i].id)
    PROVE  Tied(Kept(ps, DOMAIN ps \ {i}), ts, rid, ks)
<1> DEFINE n == Len(ps)
           qs == Kept(ps, DOMAIN ps \ {i})
           m == Len(qs)
<1>1. ps \in Seq(ProfileRec) /\ rid \in Nat /\ ks \in Nat /\ n \in Nat
  BY DEF Tied
<1>2. PICK e : Embeds(e, qs, ps, DOMAIN ps \ {i}, n)
  BY <1>1, KeptFacts
<1>3. qs \in Seq(ProfileRec) /\ m \in Nat
  BY <1>1, KeptFacts
<1>4. \A a \in 1 .. m : e[a] \in 1 .. n /\ e[a] # i /\ qs[a] = ps[e[a]]
  BY <1>2 DEF Embeds
<1>5. \A a, b \in 1 .. m : e[a] = e[b] => a = b
  <2> SUFFICES ASSUME NEW a \in 1 .. m, NEW b \in 1 .. m, e[a] = e[b] PROVE a = b
    OBVIOUS
  <2>1. e[a] \in 1 .. n /\ (a < b => e[a] < e[b]) /\ (b < a => e[b] < e[a])
    BY <1>2 DEF Embeds
  <2>2. a \in Nat /\ b \in Nat /\ e[a] \in Nat
    BY <1>1, <1>3, <2>1
  <2>. QED  BY <2>1, <2>2
<1> HIDE DEF qs
<1>6. /\ DOMAIN ts \subseteq DOMAIN rs
      /\ \A r \in DOMAIN rs : r # ps[i].id => r \in DOMAIN ts
      /\ \A r \in DOMAIN ts : ts[r] = rs[r]
  <2>1. CASE ts = rs
    BY <2>1
  <2>2. CASE ts = WithoutRow(rs, ps[i].id)
    BY <2>2 DEF WithoutRow
  <2>. QED  BY <2>1, <2>2
<1>7. \A j \in 1 .. n : j # i => ps[j].id = 0 \/ ps[j].id # ps[i].id
  <2> SUFFICES ASSUME NEW j \in 1 .. n, j # i, ps[j].id # 0, ps[j].id = ps[i].id PROVE FALSE
    OBVIOUS
  <2>1. rs[ps[j].id].key = ps[j].key /\ rs[ps[i].id].key = ps[i].key
    BY DEF Tied
  <2>2. ps[j].key = ps[i].key => j = i
    BY DEF Tied
  <2>. QED  BY <2>1, <2>2
<1>8. \A r \in DOMAIN ts : /\ r \in 1 .. rid /\ ts[r] \in RowRec
                           /\ ts[r].port = ts[r].key /\ ts[r].key <= ks
  BY <1>6 DEF Tied
<1>9. \A a \in 1 .. m : qs[a].port = qs[a].key /\ qs[a].key <= ks
  BY <1>4 DEF Tied
<1>10. \A r, s \in DOMAIN ts : ts[r].key = ts[s].key => r = s
  BY <1>6 DEF Tied
<1>11. \A a \in 1 .. m : qs[a].id = 0 => \A r \in DOMAIN ts : ts[r].key # qs[a].key
  <2>1. \A j \in 1 .. n : ps[j].id = 0 => \A r \in DOMAIN rs : rs[r].key # ps[j].key
    BY DEF Tied
  <2>. QED  BY <1>4, <1>6, <2>1
<1>12. \A a \in 1 .. m :
         qs[a].id # 0 => qs[a].id \in DOMAIN ts /\ ts[qs[a].id].key = qs[a].key
  <2> SUFFICES ASSUME NEW a \in 1 .. m, qs[a].id # 0
               PROVE  qs[a].id \in DOMAIN ts /\ ts[qs[a].id].key = qs[a].key
    OBVIOUS
  <2>1. ps[e[a]].id \in DOMAIN rs /\ rs[ps[e[a]].id].key = ps[e[a]].key
    BY <1>4 DEF Tied
  <2>. QED  BY <1>4, <1>6, <1>7, <2>1
<1>13. \A a, b \in 1 .. m : qs[a].key = qs[b].key => a = b
  <2> SUFFICES ASSUME NEW a \in 1 .. m, NEW b \in 1 .. m, qs[a].key = qs[b].key PROVE a = b
    OBVIOUS
  <2>1. \A j, k \in 1 .. n : ps[j].key = ps[k].key => j = k
    BY DEF Tied
  <2>2. e[a] = e[b]
    BY <1>4, <2>1, SMTT(30)
  <2>. QED  BY <1>5, <2>2
<1>14. Tied(qs, ts, rid, ks)
  BY <1>1, <1>3, <1>8, <1>9, <1>10, <1>11, <1>12, <1>13 DEF Tied
<1>. QED  BY <1>14 DEF qs

\* What a start of the program finds in the table.
LEMMA TiedLoad ==
    ASSUME Tied(profiles, rows, rowid, keys)
    PROVE  Tied(Loaded, rows, rowid, keys)
<1> DEFINE all == [id \in 1 .. rowid |-> id]
           ids == Kept(all, DOMAIN rows)
           n == Len(ids)
           m == IF n < MaxProfiles THEN n ELSE MaxProfiles
           prof(id) == [key |-> rows[id].key, id |-> id, port |-> rows[id].port,
                        subs |-> RowSubs(rows[id]), transport |-> rows[id].transport]
<1>1. rowid \in Nat /\ keys \in Nat
  BY DEF Tied
<1>2. all \in Seq(Nat) /\ Len(all) = rowid
  <2>1. \A k \in 1 .. rowid : k \in Nat
    BY <1>1
  <2>2. all \in [1 .. rowid -> Nat]
    BY <2>1
  <2>. QED  BY <1>1, <2>2
<1>3. \A k \in 1 .. rowid : all[k] = k
  OBVIOUS
<1> HIDE DEF all
<1>4. PICK e : Embeds(e, ids, all, DOMAIN rows, rowid)
  BY <1>2, KeptFacts
<1>5. ids \in Seq(Nat) /\ n \in Nat
  BY <1>2, KeptFacts
<1>6. \A a \in 1 .. n : e[a] \in 1 .. rowid /\ e[a] \in DOMAIN rows /\ ids[a] = e[a]
  BY <1>3, <1>4 DEF Embeds
<1>7. \A a, b \in 1 .. n : a < b => ids[a] < ids[b]
  BY <1>4, <1>6 DEF Embeds
<1>8. \A a \in 1 .. n : ids[a] \in DOMAIN rows /\ ids[a] \in Nat /\ ids[a] # 0
  BY <1>1, <1>6
<1>9. Loaded = [a \in 1 .. m |-> prof(ids[a])]
  BY DEF Loaded, all
<1>10. m \in Nat /\ m <= n
  BY <1>5, ProfilesAssumption
<1> HIDE DEF ids, m, n
<1>11. \A a \in 1 .. m : a \in 1 .. n
  BY <1>5, <1>10
<1>12. \A id \in DOMAIN rows : RowSubs(rows[id]) \in Nat /\ rows[id] \in RowRec
  <2>1. \A id \in DOMAIN rows : rows[id] \in RowRec
    BY DEF Tied
  <2>. QED  BY <2>1, ProfilesAssumption DEF RowSubs, RowRec
<1>13. \A a \in 1 .. m : prof(ids[a]) \in ProfileRec
  BY <1>8, <1>11, <1>12 DEF ProfileRec, RowRec
<1>14. Loaded \in Seq(ProfileRec) /\ Len(Loaded) = m
  <2>1. Loaded \in [1 .. m -> ProfileRec]
    BY <1>9, <1>13
  <2>. QED  BY <1>10, <2>1
<1>15. \A a \in 1 .. m : /\ Loaded[a].key = rows[ids[a]].key
                         /\ Loaded[a].id = ids[a]
                         /\ Loaded[a].port = rows[ids[a]].port
  BY <1>9
<1>16. \A a \in 1 .. m : Loaded[a].port = Loaded[a].key /\ Loaded[a].key <= keys
  BY <1>8, <1>11, <1>15 DEF Tied
<1>17. \A a, b \in 1 .. m : Loaded[a].key = Loaded[b].key => a = b
  <2> SUFFICES ASSUME NEW a \in 1 .. m, NEW b \in 1 .. m, Loaded[a].key = Loaded[b].key
               PROVE  a = b
    OBVIOUS
  <2>1. ids[a] = ids[b]
    BY <1>8, <1>11, <1>15 DEF Tied
  <2>2. a \in Nat /\ b \in Nat /\ ids[a] \in Nat /\ a \in 1 .. n /\ b \in 1 .. n
    BY <1>8, <1>10, <1>11
  <2>. QED  BY <1>7, <2>1, <2>2
<1>18. \A a \in 1 .. m :
         Loaded[a].id # 0 /\ Loaded[a].id \in DOMAIN rows /\ rows[Loaded[a].id].key = Loaded[a].key
  BY <1>8, <1>11, <1>15
<1>. QED  BY <1>14, <1>16, <1>17, <1>18 DEF Tied

\* The fields of a form with this many subscriptions.
FormFields(subs, transport, expanded) ==
    {f \in 0 .. (FIDX_SUB_BASE + subs - 1) :
        /\ f = FIDX_WS_PATH => transport # 0
        /\ f \in FIDX_SSH_HOST .. FIDX_SSH_KEY => expanded}

(* The fields on the form depend on the profile and the open section only. *)
LEMMA ShownIsForm ==
    ASSUME HasProf, Prof.subs \in Nat
    PROVE  Shown = FormFields(Prof.subs, Prof.transport, ssh_section_expanded)
<1> DEFINE n == Prof.subs
           hidden == (IF Prof.transport = 0 THEN {FIDX_WS_PATH} ELSE {})
                     \cup (IF ssh_section_expanded THEN {} ELSE FIDX_SSH_HOST .. FIDX_SSH_KEY)
<1>1. Shown = (16 .. 16 + n - 1) \cup ((0 .. 15) \ hidden)
  BY DEF Shown, ShownSubs, FIDX_SUB_BASE, FIDX_SSH_KEY
<1>2. \A f : f \in hidden <=> \/ f = 7 /\ Prof.transport = 0
                              \/ f \in 11 .. 15 /\ ~ssh_section_expanded
  BY DEF FIDX_WS_PATH, FIDX_SSH_HOST, FIDX_SSH_KEY
<1> HIDE DEF n, hidden
<1>3. n \in Nat
  BY DEF n
<1>4. \A f : f \in Shown <=>
        /\ f \in 0 .. (16 + n - 1)
        /\ f = 7 => Prof.transport # 0
        /\ f \in 11 .. 15 => ssh_section_expanded
  BY <1>1, <1>2, <1>3
<1>. QED
  BY <1>4 DEF n, FormFields, FIDX_SUB_BASE, FIDX_WS_PATH, FIDX_SSH_HOST, FIDX_SSH_KEY

\* What the dialog keeps between frames.  The buffers belong to the selected profile as soon as
\* profile_last_idx says so, and then the focus is on a field of its form: in between, while the
\* selection has changed and FrameStart has not run, neither holds.
FocusFits(f, subs, transport, expanded) ==
    \/ f = -1
    \/ f \in FormFields(subs, transport, expanded)
    \/ f = FIDX_SSH_KEY /\ ~expanded

Synced == profile_last_idx = active_profile_idx

ProfDialogInv ==
    /\ active_profile_idx \in -1 .. (Len(profiles) - 1)
    /\ profStep = "input" => Synced
    /\ Synced /\ HasProf => numeric_bufs = Prof.key
    /\ Synced /\ HasProf =>
         FocusFits(profile_active_field, Prof.subs, Prof.transport, ssh_section_expanded)
    /\ Synced /\ ~HasProf => profile_active_field = -1

(* The inductive invariant of the dialog and its table. *)
ProfInv == Tied(profiles, rows, rowid, keys) /\ broker.port = broker.key /\ ProfDialogInv

(* The program starts with no profile and nothing saved. *)
LEMMA ProfInitInv ==
    ASSUME ProfInit PROVE ProfInv
<1>1. Tied(profiles, rows, rowid, keys)
  <2>1. profiles = <<>> /\ rows = <<>> /\ rowid = 0 /\ keys = 0
    BY DEF ProfInit
  <2>2. DOMAIN rows = {} /\ Len(profiles) = 0 /\ profiles \in Seq(ProfileRec)
    BY <2>1
  <2>. QED  BY <2>1, <2>2 DEF Tied
<1>2. ProfDialogInv
  BY DEF ProfInit, ProfDialogInv, Synced
<1>. QED  BY <1>1, <1>2 DEF ProfInv, ProfInit

\* The selected profile.
LEMMA ProfFacts ==
    ASSUME ProfInv, HasProf
    PROVE  /\ active_profile_idx + 1 \in 1 .. Len(profiles)
           /\ Prof \in ProfileRec /\ Prof.port = Prof.key
           /\ Prof.key \in Nat /\ Prof.id \in Nat /\ Prof.subs \in Nat
           /\ Prof.transport \in {0, 1}
<1>1. profiles \in Seq(ProfileRec) /\ Len(profiles) \in Nat
  BY DEF ProfInv, Tied
<1>2. active_profile_idx \in 0 .. (Len(profiles) - 1)
  BY <1>1, ProfilesAssumption DEF ProfInv, ProfDialogInv, HasProf
<1>3. active_profile_idx + 1 \in 1 .. Len(profiles)
  BY <1>1, <1>2
<1>4. Prof \in ProfileRec
  BY <1>1, <1>3, ElementOfSeq DEF Prof
<1>5. Prof.port = Prof.key
  BY <1>3 DEF ProfInv, Tied, Prof
<1>. QED  BY <1>3, <1>4, <1>5 DEF ProfileRec

\* The focus and the buffers in a frame that handles an input.
LEMMA InputFacts ==
    ASSUME ProfInv, Input, HasProf
    PROVE  /\ Synced /\ numeric_bufs = Prof.key
           /\ FocusFits(profile_active_field, Prof.subs, Prof.transport, ssh_section_expanded)
BY DEF ProfInv, ProfDialogInv, Input

\* A step that only moves the focus.
LEMMA FocusInv ==
    ASSUME ProfInv, NEW f, MoveFocus(f), Input, HasProf,
           FocusFits(f, Prof.subs, Prof.transport, ssh_section_expanded)
    PROVE  ProfInv'
<1>1. UNCHANGED <<profiles, active_profile_idx, profile_last_idx, ssh_section_expanded,
                  numeric_bufs, rows, rowid, broker, keys>>
  BY DEF MoveFocus, tableVars
<1>2. profile_active_field' = f /\ profStep' = "start"
  BY DEF MoveFocus, Input
<1>3. Prof' = Prof /\ HasProf' /\ HasProf
  BY <1>1 DEF Prof, HasProf
<1>4. ProfDialogInv'
  BY <1>1, <1>2, <1>3 DEF ProfInv, ProfDialogInv, Synced
<1>. QED  BY <1>1, <1>4 DEF ProfInv

\* Tab goes round the fields and passes over what the form hides, the collapsed private key
\* field excepted.
LEMMA TabInv ==
    ASSUME ProfInv, PressTab PROVE ProfInv'
<1> DEFINE total == FIDX_SUB_BASE + Prof.subs
           next == (profile_active_field + 1) % total
           ws == IF Prof.transport = 0 /\ next = FIDX_WS_PATH THEN next + 1 ELSE next
           to == IF ~ssh_section_expanded /\ ws \in FIDX_SSH_HOST .. FIDX_SSH_PASS
                 THEN FIDX_SUB_BASE % total ELSE ws
<1>1. Input /\ HasProf /\ profile_active_field >= 0 /\ MoveFocus(to)
  BY DEF PressTab
<1>2. Prof.subs \in Nat /\ Prof.transport \in {0, 1}
  BY <1>1, ProfFacts
<1>3. total \in Nat /\ total = 16 + Prof.subs
  BY <1>2 DEF FIDX_SUB_BASE
<1>4. FocusFits(profile_active_field, Prof.subs, Prof.transport, ssh_section_expanded)
  BY <1>1, InputFacts
<1>5. profile_active_field \in 0 .. (total - 1)
  BY <1>1, <1>2, <1>3, <1>4 DEF FocusFits, FormFields, FIDX_SUB_BASE, FIDX_SSH_KEY
<1> HIDE DEF total
<1>6. \A g \in 0 .. (total - 1) : (g + 1) % total = IF g + 1 < total THEN g + 1 ELSE 0
  <2> SUFFICES ASSUME NEW g \in 0 .. (total - 1)
               PROVE  (g + 1) % total = IF g + 1 < total THEN g + 1 ELSE 0
    OBVIOUS
  <2>1. CASE g + 1 < total
    BY <1>3, <2>1
  <2>2. CASE g + 1 = total
    BY <1>3, <2>2
  <2>. QED  BY <1>3, <2>1, <2>2
<1>7. next \in 0 .. (total - 1)
  BY <1>3, <1>5, <1>6
<1>8. 16 % total = IF Prof.subs = 0 THEN 0 ELSE 16
  <2>1. CASE Prof.subs = 0
    BY <1>2, <1>3, <2>1
  <2>2. CASE Prof.subs # 0
    <3>1. 16 < total
      BY <1>2, <1>3, <2>2
    <3>. QED  BY <1>3, <2>2, <3>1
  <2>. QED  BY <2>1, <2>2
<1> HIDE DEF next
<1>9. ws \in 0 .. (total - 1) /\ (ws = 7 => Prof.transport # 0)
  BY <1>2, <1>3, <1>7 DEF FIDX_WS_PATH
<1> HIDE DEF ws
<1>10. FocusFits(to, Prof.subs, Prof.transport, ssh_section_expanded)
  <2>1. CASE ~ssh_section_expanded /\ ws \in 11 .. 14
    <3>1. to = IF Prof.subs = 0 THEN 0 ELSE 16
      BY <1>8, <2>1 DEF FIDX_SSH_HOST, FIDX_SSH_PASS, FIDX_SUB_BASE
    <3>2. to \in 0 .. (16 + Prof.subs - 1) /\ to # 7 /\ to \notin 11 .. 15
      BY <1>2, <3>1
    <3> HIDE DEF to
    <3>. QED  BY <3>2 DEF FocusFits, FormFields, FIDX_SUB_BASE, FIDX_WS_PATH, FIDX_SSH_HOST,
                          FIDX_SSH_KEY
  <2>2. CASE ssh_section_expanded \/ ws \notin 11 .. 14
    <3>1. to = ws
      BY <2>2 DEF FIDX_SSH_HOST, FIDX_SSH_PASS
    <3> HIDE DEF to
    <3>2. CASE ssh_section_expanded
      <4>1. to \in 0 .. (16 + Prof.subs - 1) /\ (to = 7 => Prof.transport # 0)
        BY <1>2, <1>3, <1>9, <3>1
      <4>. QED  BY <3>2, <4>1 DEF FocusFits, FormFields, FIDX_SUB_BASE, FIDX_WS_PATH
    <3>3. CASE ~ssh_section_expanded /\ to # 15
      <4>1. to \in 0 .. (16 + Prof.subs - 1) /\ (to = 7 => Prof.transport # 0) /\ to \notin 11 .. 15
        BY <1>2, <1>3, <1>9, <2>2, <3>1, <3>3
      <4>. QED  BY <4>1 DEF FocusFits, FormFields, FIDX_SUB_BASE, FIDX_WS_PATH, FIDX_SSH_HOST,
                            FIDX_SSH_KEY
    <3>4. CASE ~ssh_section_expanded /\ to = 15
      BY <3>4 DEF FocusFits, FIDX_SSH_KEY
    <3>. QED  BY <3>2, <3>3, <3>4
  <2>. QED  BY <2>1, <2>2
<1>. QED  BY <1>1, <1>10, FocusInv

\* An edit in memory: the profile keeps its identity and its port.
LEMMA EditInvProf ==
    ASSUME ProfInv, NEW p \in ProfileRec, NEW f, EditProf(p, f),
           p.key = Prof.key, p.id = Prof.id, p.port = Prof.port,
           FocusFits(f, p.subs, p.transport, ssh_section_expanded)
    PROVE  ProfInv'
<1> DEFINE i == active_profile_idx + 1
<1>1. Input /\ HasProf
  BY DEF EditProf
<1>2. i \in 1 .. Len(profiles) /\ Prof = profiles[i] /\ Prof.port = Prof.key
  BY <1>1, ProfFacts DEF Prof
<1>3. UNCHANGED <<active_profile_idx, profile_last_idx, ssh_section_expanded, numeric_bufs,
                  rows, rowid, broker, keys>>
  BY DEF EditProf, tableVars
<1>4. /\ profiles' = [profiles EXCEPT ![i] = p] /\ profile_active_field' = f
      /\ profStep' = "start"
  BY DEF EditProf, Input
<1>5. Tied(profiles', rows, rowid, keys)
  <2> HIDE DEF i
  <2>. QED  BY <1>2, <1>4, TiedEdit DEF ProfInv
<1>6. profiles \in Seq(ProfileRec) /\ Len(profiles') = Len(profiles) /\ profiles'[i] = p
  <2>1. profiles \in Seq(ProfileRec)
    BY DEF ProfInv, Tied
  <2>. QED  BY <1>2, <1>4, <2>1, ExceptSeq
<1>7. Prof' = p /\ HasProf' /\ HasProf
  BY <1>1, <1>3, <1>6 DEF Prof, HasProf
<1>8. numeric_bufs = Prof.key
  BY <1>1, InputFacts
<1>9. ProfDialogInv'
  BY <1>3, <1>4, <1>6, <1>7, <1>8 DEF ProfInv, ProfDialogInv, Synced
<1>. QED  BY <1>3, <1>5, <1>9 DEF ProfInv

(* A subscription added or removed moves the focus with it. *)
LEMMA SubsInv ==
    ASSUME ProfInv, AddSub \/ RemoveSub PROVE ProfInv'
<1>1. HasProf /\ Input
  BY DEF AddSub, RemoveSub, EditProf
<1>2. Prof \in ProfileRec /\ Prof.subs \in Nat /\ Prof.transport \in {0, 1}
  BY <1>1, ProfFacts
<1>3. FocusFits(profile_active_field, Prof.subs, Prof.transport, ssh_section_expanded)
  BY <1>1, InputFacts
<1>4. CASE AddSub
  <2> DEFINE p == [Prof EXCEPT !.subs = @ + 1]
             f == FIDX_SUB_BASE + Prof.subs
  <2>1. EditProf(p, f)
    BY <1>4 DEF AddSub
  <2>2. /\ p \in ProfileRec /\ p.key = Prof.key /\ p.id = Prof.id /\ p.port = Prof.port
        /\ p.transport = Prof.transport /\ p.subs = Prof.subs + 1
    BY <1>2 DEF ProfileRec
  <2>3. f \in 0 .. (16 + p.subs - 1) /\ f # 7 /\ f \notin 11 .. 15
    BY <1>2, <2>2 DEF FIDX_SUB_BASE
  <2> HIDE DEF p, f
  <2>4. FocusFits(f, p.subs, p.transport, ssh_section_expanded)
    BY <2>3 DEF FocusFits, FormFields, FIDX_SUB_BASE, FIDX_WS_PATH, FIDX_SSH_HOST, FIDX_SSH_KEY
  <2>. QED  BY <2>1, <2>2, <2>4, EditInvProf
<1>5. CASE RemoveSub
  <2> DEFINE p == [Prof EXCEPT !.subs = @ - 1]
             f == FocusWithin(Prof.subs - 1)
  <2>1. EditProf(p, f) /\ Prof.subs > 0
    BY <1>5 DEF RemoveSub
  <2>2. /\ p \in ProfileRec /\ p.key = Prof.key /\ p.id = Prof.id /\ p.port = Prof.port
        /\ p.transport = Prof.transport /\ p.subs = Prof.subs - 1
    BY <1>2, <2>1 DEF ProfileRec
  <2>3. f = -1 \/ (f = profile_active_field /\ ~(f >= 16 + Prof.subs - 1))
    BY <1>2 DEF FocusWithin, FIDX_SUB_BASE
  <2> HIDE DEF p, f
  <2>4. FocusFits(f, p.subs, p.transport, ssh_section_expanded)
    <3>1. CASE f = -1
      BY <3>1 DEF FocusFits
    <3>2. CASE f = profile_active_field /\ f # -1
      <4>1. ~(f >= 16 + Prof.subs - 1)
        BY <2>3, <3>2
      <4>2. CASE f \in FormFields(Prof.subs, Prof.transport, ssh_section_expanded)
        <5>1. f \in FormFields(p.subs, p.transport, ssh_section_expanded)
          BY <1>2, <2>2, <4>1, <4>2 DEF FormFields, FIDX_SUB_BASE
        <5>. QED  BY <5>1 DEF FocusFits
      <4>3. CASE f = FIDX_SSH_KEY /\ ~ssh_section_expanded
        BY <4>3 DEF FocusFits
      <4>. QED  BY <1>3, <3>2, <4>2, <4>3 DEF FocusFits
    <3>. QED  BY <2>3, <3>1, <3>2
  <2>. QED  BY <2>1, <2>2, <2>4, EditInvProf
<1>. QED  BY <1>4, <1>5

(* Without WebSocket the path field leaves the form and loses the focus. *)
LEMMA TransportInv ==
    ASSUME ProfInv, NEW t \in {0, 1}, SetTransport(t) PROVE ProfInv'
<1> DEFINE p == [Prof EXCEPT !.transport = t]
           f == IF t = 0 /\ profile_active_field = FIDX_WS_PATH THEN -1 ELSE profile_active_field
<1>1. EditProf(p, f) /\ HasProf /\ Input
  BY DEF SetTransport, EditProf
<1>2. Prof \in ProfileRec /\ Prof.subs \in Nat
  BY <1>1, ProfFacts
<1>3. /\ p \in ProfileRec /\ p.key = Prof.key /\ p.id = Prof.id /\ p.port = Prof.port
      /\ p.transport = t /\ p.subs = Prof.subs
  BY <1>2 DEF ProfileRec
<1>4. FocusFits(profile_active_field, Prof.subs, Prof.transport, ssh_section_expanded)
  BY <1>1, InputFacts
<1> HIDE DEF p
<1>5. FocusFits(f, p.subs, p.transport, ssh_section_expanded)
  BY <1>3, <1>4 DEF FocusFits, FormFields
<1>. QED  BY <1>1, <1>3, <1>5, EditInvProf

\* A profile whose numbers were parsed from the buffers is written to the list and the table.
LEMMA StoreTied ==
    ASSUME ProfInv, Input, HasProf, NEW saved \in BOOLEAN,
           Store([Prof EXCEPT !.port = numeric_bufs], saved), keys' = keys
    PROVE  /\ Tied(profiles, rows, rowid, keys)'
           /\ Len(profiles') = Len(profiles)
           /\ profiles'[active_profile_idx + 1].key = Prof.key
           /\ profiles'[active_profile_idx + 1].subs = Prof.subs
           /\ profiles'[active_profile_idx + 1].transport = Prof.transport
<1> DEFINE i == active_profile_idx + 1
           p == [Prof EXCEPT !.port = numeric_bufs]
           id == IF p.id = 0 THEN rowid + 1 ELSE p.id
<1>1. /\ i \in 1 .. Len(profiles) /\ Prof \in ProfileRec /\ Prof.key \in Nat
      /\ Prof = profiles[i]
  BY ProfFacts DEF Prof
<1>2. numeric_bufs = Prof.key
  BY InputFacts
<1>3. /\ p \in ProfileRec /\ p.key = Prof.key /\ p.id = Prof.id /\ p.port = p.key
      /\ p.subs = Prof.subs /\ p.transport = Prof.transport
  BY <1>1, <1>2 DEF ProfileRec
<1>4. profiles \in Seq(ProfileRec) /\ rowid \in Nat /\ Tied(profiles, rows, rowid, keys)
  BY DEF ProfInv, Tied
<1>5. CASE saved /\ dbOpen
  <2>1. /\ rowid' = IF p.id = 0 THEN id ELSE rowid
        /\ rows' = WithRow(rows, id, RowOf(p))
        /\ profiles' = [profiles EXCEPT ![i] = Stored(p, id)]
    BY <1>5 DEF Store, WithRow
  <2>2. Stored(p, id).key = p.key /\ Stored(p, id).subs = p.subs
        /\ Stored(p, id).transport = p.transport
    <3>1. CASE p.id = 0
      <4>1. Stored(p, id) = [p EXCEPT !.id = id]
        BY <3>1 DEF Stored
      <4> HIDE DEF p, id
      <4>. QED  BY <1>3, <4>1 DEF ProfileRec
    <3>2. CASE p.id # 0
      BY <3>2 DEF Stored
    <3>. QED  BY <3>1, <3>2
  <2>3. id = IF p.id = 0 THEN rowid + 1 ELSE p.id
    OBVIOUS
  <2> HIDE DEF p, id, i
  <2>4. Tied(profiles', rows', rowid', keys)
    <3>1. p.key = profiles[i].key /\ p.id = profiles[i].id /\ p.port = p.key
      BY <1>1, <1>3
    <3>2. Tied([profiles EXCEPT ![i] = Stored(p, id)], WithRow(rows, id, RowOf(p)),
               IF p.id = 0 THEN id ELSE rowid, keys)
      BY <1>1, <1>3, <1>4, <2>3, <3>1, TiedStore
    <3>. QED  BY <2>1, <3>2
  <2>5. Len(profiles') = Len(profiles) /\ profiles'[i] = Stored(p, id)
    BY <1>1, <1>4, <2>1
  <2>. QED  BY <1>3, <2>2, <2>4, <2>5 DEF i
<1>6. CASE ~(saved /\ dbOpen)
  <2>1. profiles' = [profiles EXCEPT ![i] = p] /\ UNCHANGED <<rows, rowid>>
    BY <1>6 DEF Store
  <2> HIDE DEF p, i
  <2>2. Tied(profiles', rows, rowid, keys)
    BY <1>1, <1>3, <1>4, <2>1, TiedEdit
  <2>3. Len(profiles') = Len(profiles) /\ profiles'[i] = p
    BY <1>1, <1>4, <2>1
  <2>. QED  BY <1>3, <2>1, <2>2, <2>3 DEF i
<1>. QED  BY <1>5, <1>6

(* Save writes the numbers typed into the profile they were typed for. *)
LEMMA SaveInv ==
    ASSUME ProfInv, NEW saved \in BOOLEAN, SaveProfile(saved) PROVE ProfInv'
<1>1. /\ Input /\ HasProf /\ Store([Prof EXCEPT !.port = numeric_bufs], saved)
      /\ UNCHANGED <<active_profile_idx, profile_last_idx, profile_active_field,
                     ssh_section_expanded, numeric_bufs, broker, keys>>
  BY DEF SaveProfile, dialogVars
<1>2. /\ Tied(profiles, rows, rowid, keys)' /\ Len(profiles') = Len(profiles)
      /\ Prof'.key = Prof.key /\ Prof'.subs = Prof.subs /\ Prof'.transport = Prof.transport
  BY <1>1, StoreTied DEF Prof
<1>3. HasProf' /\ profStep' = "start"
  BY <1>1 DEF HasProf, Input
<1>4. ProfDialogInv'
  BY <1>1, <1>2, <1>3 DEF ProfInv, ProfDialogInv, Synced
<1>. QED  BY <1>1, <1>2, <1>4 DEF ProfInv

(* Connect saves first and hands the broker the profile's own port. *)
LEMMA ConnectInv ==
    ASSUME ProfInv, NEW saved \in BOOLEAN, NEW up \in BOOLEAN, ConnectProfile(saved, up)
    PROVE  ProfInv'
<1>1. /\ Input /\ HasProf /\ Store([Prof EXCEPT !.port = numeric_bufs], saved)
      /\ profile_active_field' = -1
      /\ UNCHANGED <<active_profile_idx, profile_last_idx, ssh_section_expanded,
                     numeric_bufs, keys>>
  BY DEF ConnectProfile
<1>2. /\ Tied(profiles, rows, rowid, keys)' /\ Len(profiles') = Len(profiles)
      /\ Prof'.key = Prof.key
  BY <1>1, StoreTied DEF Prof
<1>3. HasProf' /\ profStep' = "start"
  BY <1>1 DEF HasProf, Input
<1>4. ProfDialogInv'
  BY <1>1, <1>2, <1>3 DEF ProfInv, ProfDialogInv, Synced, FocusFits
<1>5. broker'.port = broker'.key
  <2>1. numeric_bufs = Prof.key
    BY <1>1, InputFacts
  <2>2. broker' = IF up THEN [key |-> Prof.key, port |-> numeric_bufs] ELSE broker
    BY DEF ConnectProfile
  <2>. QED  BY <2>1, <2>2 DEF ProfInv
<1>. QED  BY <1>2, <1>4, <1>5 DEF ProfInv

(* Delete takes the row with the profile, and the numbers are read again. *)
LEMMA DeleteInv ==
    ASSUME ProfInv, NEW deleted \in BOOLEAN, DeleteProfile(deleted) PROVE ProfInv'
<1> DEFINE i == active_profile_idx + 1
<1>1. /\ Input /\ HasProf
      /\ rows' = IF deleted THEN WithoutRow(rows, Prof.id) ELSE rows
      /\ profiles' = Kept(profiles, DOMAIN profiles \ {i})
      /\ active_profile_idx' = IF active_profile_idx >= Len(profiles')
                               THEN Len(profiles') - 1 ELSE active_profile_idx
      /\ profile_last_idx' = -2
      /\ UNCHANGED <<rowid, broker, keys>>
  BY DEF DeleteProfile, db_delete_profile, ForgetBuffers, WithoutRow
<1>2. i \in 1 .. Len(profiles) /\ Prof = profiles[i]
  BY <1>1, ProfFacts DEF Prof
<1>3. Tied(profiles, rows, rowid, keys)
  BY DEF ProfInv
<1>4. rows' = rows \/ rows' = WithoutRow(rows, profiles[i].id)
  BY <1>1, <1>2
<1>5. Tied(profiles', rows', rowid, keys)
  <2> HIDE DEF i
  <2>1. Tied(Kept(profiles, DOMAIN profiles \ {i}), rows', rowid, keys)
    BY <1>2, <1>3, <1>4, TiedDelete
  <2>. QED  BY <1>1, <2>1
<1>6. Len(profiles') \in Nat /\ Len(profiles) \in Nat
  <2>1. profiles \in Seq(ProfileRec) /\ profiles' \in Seq(ProfileRec)
    BY <1>3, <1>5 DEF Tied
  <2>. QED  BY <2>1
<1>7. active_profile_idx' \in -1 .. (Len(profiles') - 1)
  <2>1. active_profile_idx \in Nat
    BY <1>1, ProfilesAssumption DEF HasProf
  <2>. QED  BY <1>1, <1>6, <2>1
<1>8. ~Synced'
  BY <1>1, <1>6, <1>7 DEF Synced
<1>9. profStep' = "start"
  BY <1>1 DEF Input
<1>10. ProfDialogInv'
  BY <1>7, <1>8, <1>9 DEF ProfDialogInv
<1>. QED  BY <1>1, <1>5, <1>10 DEF ProfInv

(* A new profile is selected, has no row yet and brings its numbers. *)
LEMMA NewInv ==
    ASSUME ProfInv, NewProfile PROVE ProfInv'
<1> DEFINE p == DefaultProfile(keys + 1)
<1>1. /\ Len(profiles) < MaxProfiles /\ keys' = keys + 1
      /\ profiles' = Append(profiles, p)
      /\ active_profile_idx' = Len(profiles) /\ profile_last_idx' = Len(profiles)
      /\ numeric_bufs' = keys + 1 /\ profile_active_field' = FIDX_NAME
      /\ UNCHANGED <<rows, rowid, broker>>
  BY DEF NewProfile, tableVars
<1>2. profStep' = "start"
  BY DEF NewProfile, Input
<1>3. profiles \in Seq(ProfileRec) /\ Len(profiles) \in Nat /\ keys \in Nat
  BY DEF ProfInv, Tied
<1>4. Tied(profiles', rows, rowid, keys')
  BY <1>1, TiedNew DEF ProfInv
<1>5. /\ p \in ProfileRec /\ p.key = keys + 1 /\ p.subs = 2
  BY <1>3 DEF ProfileRec, DefaultProfile
<1> HIDE DEF p
<1>6. Len(profiles') = Len(profiles) + 1 /\ profiles'[Len(profiles) + 1] = p
  BY <1>1, <1>3, <1>5, AppendProperties
<1>7. Prof' = p /\ HasProf'
  BY <1>1, <1>3, <1>6, ProfilesAssumption DEF Prof, HasProf
<1>8. FocusFits(FIDX_NAME, p.subs, p.transport, ssh_section_expanded')
  BY <1>5 DEF FocusFits, FormFields, FIDX_NAME, FIDX_SUB_BASE, FIDX_WS_PATH, FIDX_SSH_HOST,
              FIDX_SSH_KEY
<1>9. active_profile_idx' \in -1 .. (Len(profiles') - 1)
  BY <1>1, <1>3, <1>6
<1>10. ProfDialogInv'
  BY <1>1, <1>2, <1>5, <1>7, <1>8, <1>9 DEF ProfDialogInv
<1>. QED  BY <1>1, <1>4, <1>10 DEF ProfInv

(* A restart loads one profile per row. *)
LEMMA RestartInv ==
    ASSUME ProfInv, ProfRestart PROVE ProfInv'
<1>1. /\ profiles' = (IF dbOpen' THEN Loaded ELSE <<>>)
      /\ active_profile_idx' = -1 /\ profile_last_idx' = -2
      /\ broker' = [key |-> 0, port |-> 0] /\ profStep' = "start"
      /\ UNCHANGED <<rows, rowid, keys>>
  BY DEF ProfRestart
<1>2. Tied(profiles, rows, rowid, keys)
  BY DEF ProfInv
<1>3. Tied(profiles', rows, rowid, keys)
  <2>1. CASE dbOpen'
    BY <1>1, <1>2, <2>1, TiedLoad
  <2>2. CASE ~dbOpen'
    <3>1. profiles' = <<>>
      BY <1>1, <2>2
    <3>2. profiles' \in Seq(ProfileRec) /\ Len(profiles') = 0
      BY <3>1
    <3>. QED  BY <1>2, <3>2 DEF Tied
  <2>. QED  BY <2>1, <2>2
<1>4. Len(profiles') \in Nat
  <2>1. profiles' \in Seq(ProfileRec)
    BY <1>3 DEF Tied
  <2>. QED  BY <2>1
<1>5. ProfDialogInv'
  BY <1>1, <1>4 DEF ProfDialogInv, Synced
<1>. QED  BY <1>1, <1>3, <1>5 DEF ProfInv

(* A frame that finds another profile selected reads its numbers. *)
LEMMA FrameInv ==
    ASSUME ProfInv, FrameStart PROVE ProfInv'
<1>1. UNCHANGED <<profiles, active_profile_idx, ssh_section_expanded, rows, rowid, broker, keys>>
  BY DEF FrameStart, tableVars
<1>2. Prof' = Prof /\ HasProf' = HasProf
  BY <1>1 DEF Prof, HasProf
<1>3. CASE active_profile_idx # profile_last_idx
  <2>1. /\ profile_last_idx' = active_profile_idx /\ profile_active_field' = -1
        /\ numeric_bufs' = SyncedBufs
    BY <1>3 DEF FrameStart
  <2>2. HasProf => SyncedBufs = Prof.key
    BY ProfFacts DEF SyncedBufs
  <2>3. ProfDialogInv'
    BY <1>1, <1>2, <2>1, <2>2 DEF ProfInv, ProfDialogInv, Synced, FocusFits
  <2>. QED  BY <1>1, <2>3 DEF ProfInv
<1>4. CASE active_profile_idx = profile_last_idx
  <2>1. UNCHANGED <<profile_last_idx, profile_active_field, numeric_bufs>>
    BY <1>4 DEF FrameStart
  <2>2. ProfDialogInv'
    BY <1>1, <1>2, <1>4, <2>1 DEF ProfInv, ProfDialogInv, Synced
  <2>. QED  BY <1>1, <2>2 DEF ProfInv
<1>. QED  BY <1>3, <1>4

(* Closing the SSH section takes the focus out of it. *)
LEMMA ToggleInv ==
    ASSUME ProfInv, ToggleSshSection PROVE ProfInv'
<1> DEFINE f == profile_active_field
           on == ssh_section_expanded
           g == IF on /\ f \in FIDX_SSH_HOST .. FIDX_SSH_PASS THEN -1 ELSE f
<1>1. /\ Input /\ HasProf /\ ssh_section_expanded' = ~on /\ profile_active_field' = g
      /\ UNCHANGED <<profiles, active_profile_idx, profile_last_idx, numeric_bufs, rows, rowid,
                     broker, keys>>
  BY DEF ToggleSshSection, tableVars
<1>2. Prof' = Prof /\ HasProf' /\ HasProf /\ profStep' = "start"
  BY <1>1 DEF Prof, HasProf, Input
<1>3. FocusFits(f, Prof.subs, Prof.transport, on) /\ Prof.subs \in Nat
  BY <1>1, InputFacts, ProfFacts
<1>4. FocusFits(g, Prof.subs, Prof.transport, ~on)
  <2>1. CASE g = -1
    BY <2>1 DEF FocusFits
  <2>2. CASE g # -1 /\ on
    <3>1. g = f /\ f \notin 11 .. 14 /\ f # -1
      BY <2>2 DEF FIDX_SSH_HOST, FIDX_SSH_PASS
    <3> HIDE DEF g, on, f
    <3>2. f \in FormFields(Prof.subs, Prof.transport, on)
      BY <1>3, <2>2, <3>1 DEF FocusFits
    <3>3. f = 15 \/ f \notin 11 .. 15
      BY <1>3, <3>1, <3>2 DEF FormFields, FIDX_SUB_BASE
    <3>. QED  BY <2>2, <3>1, <3>2, <3>3
              DEF FocusFits, FormFields, FIDX_SSH_HOST, FIDX_SSH_KEY
  <2>3. CASE g # -1 /\ ~on
    <3>1. g = f /\ f # -1
      BY <2>3
    <3> HIDE DEF g, on, f
    <3>2. CASE f \in FormFields(Prof.subs, Prof.transport, on)
      BY <2>3, <3>1, <3>2 DEF FocusFits, FormFields
    <3>3. CASE f = FIDX_SSH_KEY
      BY <1>3, <2>3, <3>1, <3>3
         DEF FocusFits, FormFields, FIDX_SUB_BASE, FIDX_SSH_KEY, FIDX_WS_PATH
    <3>. QED  BY <1>3, <3>1, <3>2, <3>3 DEF FocusFits
  <2>. QED  BY <2>1, <2>2, <2>3
<1> HIDE DEF g
<1>5. ProfDialogInv'
  BY <1>1, <1>2, <1>4 DEF ProfInv, ProfDialogInv, Synced
<1>. QED  BY <1>1, <1>5 DEF ProfInv

\* The steps that change neither the list, the table nor the numbers of a profile.
LEMMA QuietInv ==
    ASSUME ProfInv, OpenDialog \/ TypeNumber \/ SelectProfile \/ CloseDialog PROVE ProfInv'
<1>1. UNCHANGED <<profiles, profile_last_idx, ssh_section_expanded, rows, rowid, broker, keys>>
  BY DEF OpenDialog, TypeNumber, SelectProfile, CloseDialog, tableVars
<1>2. profStep' = "start"
  BY DEF OpenDialog, TypeNumber, SelectProfile, CloseDialog, Input
<1>3. CASE OpenDialog \/ TypeNumber \/ CloseDialog
  <2>1. UNCHANGED active_profile_idx
    BY <1>3 DEF OpenDialog, TypeNumber, CloseDialog
  <2>2. Prof' = Prof /\ HasProf' = HasProf /\ Synced' = Synced
    BY <1>1, <2>1 DEF Prof, HasProf, Synced
  <2>3. numeric_bufs' = numeric_bufs \/ numeric_bufs' = Prof.key
    BY <1>3 DEF OpenDialog, TypeNumber, CloseDialog
  <2>4. profile_active_field' = profile_active_field \/ profile_active_field' = -1
    BY <1>3 DEF OpenDialog, TypeNumber, CloseDialog
  <2>5. ProfDialogInv'
    BY <1>1, <1>2, <2>1, <2>2, <2>3, <2>4 DEF ProfInv, ProfDialogInv, FocusFits
  <2>. QED  BY <1>1, <2>5 DEF ProfInv
<1>4. CASE SelectProfile
  <2>1. /\ active_profile_idx' \in 0 .. (Len(profiles) - 1) /\ Synced
        /\ UNCHANGED <<numeric_bufs, profile_active_field>>
    BY <1>4 DEF SelectProfile, ProfItems, ProfInv, ProfDialogInv, Input
  <2>2. Len(profiles) \in Nat
    BY DEF ProfInv, Tied
  <2>3. active_profile_idx' \in -1 .. (Len(profiles) - 1)
    BY <2>1, <2>2
  <2>4. Synced' => UNCHANGED active_profile_idx
    BY <1>1, <2>1 DEF Synced
  <2>5. Synced' => Prof' = Prof /\ HasProf' = HasProf
    BY <1>1, <2>4 DEF Prof, HasProf
  <2>6. ProfDialogInv'
    BY <1>1, <1>2, <2>1, <2>3, <2>5 DEF ProfInv, ProfDialogInv
  <2>. QED  BY <1>1, <2>6 DEF ProfInv
<1>. QED  BY <1>3, <1>4

(* Every step of the dialog keeps the invariant. *)
LEMMA ProfStepInv ==
    ASSUME ProfInv, [ProfNext]_profVars PROVE ProfInv'
<1>1. CASE UNCHANGED profVars
  <2>1. UNCHANGED <<profiles, active_profile_idx, profile_last_idx, profile_active_field,
                    ssh_section_expanded, numeric_bufs, rows, rowid, broker, profStep, keys>>
    BY <1>1 DEF profVars, dialogVars, tableVars
  <2>2. Prof' = Prof /\ HasProf' = HasProf /\ Synced' = Synced
    BY <2>1 DEF Prof, HasProf, Synced
  <2>3. ProfDialogInv'
    BY <2>1, <2>2 DEF ProfInv, ProfDialogInv
  <2>. QED  BY <2>1, <2>3 DEF ProfInv
<1>2. CASE PressEscape
  BY <1>2, FocusInv DEF PressEscape, FocusFits
<1>3. ASSUME NEW f \in Shown, ClickField(f) PROVE ProfInv'
  <2>1. HasProf
    BY <1>3 DEF Shown
  <2>2. f \in FormFields(Prof.subs, Prof.transport, ssh_section_expanded)
    BY <2>1, ProfFacts, ShownIsForm
  <2>. QED  BY <1>3, <2>1, <2>2, FocusInv DEF ClickField, focus_field_click, FocusFits
<1>4. ProfNext => ProfInv'
  BY <1>2, <1>3, TabInv, SubsInv, TransportInv, SaveInv, ConnectInv, DeleteInv, NewInv,
     RestartInv, FrameInv, ToggleInv, QuietInv DEF ProfNext
<1>. QED  BY <1>1, <1>4

(* The invariant holds in every reachable state. *)
LEMMA ProfAlwaysInv == ProfSpec => []ProfInv
<1>. QED  BY ProfInitInv, ProfStepInv, PTL DEF ProfSpec

\* Whatever is typed, selected, created, deleted and saved in whatever order, a number that was
\* typed for one profile reaches no other: the list, the table and the connection.
THEOREM NumbersStayWithTheirProfile == ProfSpec => []PortsAreTheirOwn
<1>1. ProfInv => PortsAreTheirOwn
  <2> SUFFICES ASSUME ProfInv PROVE PortsAreTheirOwn
    OBVIOUS
  <2>1. profiles \in Seq(ProfileRec)
    BY DEF ProfInv, Tied
  <2>2. DOMAIN profiles = 1 .. Len(profiles)
    BY <2>1
  <2>. QED  BY <2>2 DEF ProfInv, Tied, PortsAreTheirOwn
<1>. QED  BY <1>1, ProfAlwaysInv, PTL

\* Keys go to a field the form shows, or to the private key field of a collapsed section.
THEOREM FocusStaysOnTheForm == ProfSpec => []FocusIsShown
<1>1. ProfInv => FocusIsShown
  <2> SUFFICES ASSUME ProfInv, profStep = "input", profile_active_field # -1
               PROVE  \/ profile_active_field \in Shown
                      \/ HasProf /\ profile_active_field = FIDX_SSH_KEY /\ ~ssh_section_expanded
    BY DEF FocusIsShown
  <2>1. HasProf
    BY DEF ProfInv, ProfDialogInv
  <2>2. FocusFits(profile_active_field, Prof.subs, Prof.transport, ssh_section_expanded)
    BY <2>1 DEF ProfInv, ProfDialogInv
  <2>3. Shown = FormFields(Prof.subs, Prof.transport, ssh_section_expanded)
    BY <2>1, ProfFacts, ShownIsForm
  <2>. QED  BY <2>1, <2>2, <2>3 DEF FocusFits
<1>. QED  BY <1>1, ProfAlwaysInv, PTL

\* No sequence of saves, deletes, failures of either and restarts stores a profile twice or lets
\* an entry point at another profile's row.
THEOREM ProfilesHaveOneRow == ProfSpec => []OneRowPerProfile
<1>1. ProfInv => OneRowPerProfile
  <2> SUFFICES ASSUME ProfInv PROVE OneRowPerProfile
    OBVIOUS
  <2>1. profiles \in Seq(ProfileRec)
    BY DEF ProfInv, Tied
  <2>2. DOMAIN profiles = 1 .. Len(profiles)
    BY <2>1
  <2>. QED  BY <2>2 DEF ProfInv, Tied, OneRowPerProfile
<1>. QED  BY <1>1, ProfAlwaysInv, PTL


-----------------------------------------------------------------------------
(* The log panel.                                                          *)

LogTypes ==
    /\ entries \in [0 .. (LogCapacity - 1) -> Nat]
    /\ logHead \in 0 .. (LogCapacity - 1)
    /\ logCount \in 0 .. LogCapacity
    /\ generation \in Nat
    /\ last_generation \in Int /\ last_generation <= generation
    /\ rows_wanted \in Nat
    /\ log_rows \in Seq(Int \X Nat)
    /\ logStep \in {"idle", "count", "rows", "input", "copy"}

\* While the rows are being read and no other thread has come between since the generation was
\* read, they are the newest ones so far.
ReadingNewest ==
    logStep = "rows" /\ last_generation = generation =>
        /\ rows_wanted = logCount
        /\ Len(log_rows) <= logCount /\ Len(log_rows) <= LogVisibleRows
        /\ \A r \in 1 .. Len(log_rows) :
               log_rows[r] = <<logCount - r, connection_log_get(logCount - r)>>

\* The inductive invariant of the log panel.
LogInv == LogTypes /\ ReadingNewest /\ LogViewMatches

\* Index arithmetic of the ring: every logical index has a slot.
LEMMA LogSlot ==
    ASSUME NEW h \in Nat, NEW i \in Nat
    PROVE  (h + i) % LogCapacity \in 0 .. (LogCapacity - 1)
  BY LogAssumption

\* Before the first frame the panel shows nothing, and claims nothing.
LEMMA LogInitInv == LogInit => LogInv
  BY LogAssumption DEF LogInit, LogInv, LogTypes, ReadingNewest, LogViewMatches

\* Every step of another thread moves the generation on, so that the cache stops claiming to be
\* current; every other step leaves the log alone.
LEMMA LogStepInv == LogInv /\ [LogNext]_logVars => LogInv'
<1> SUFFICES ASSUME LogInv, [LogNext]_logVars PROVE LogInv'
  OBVIOUS
<1> USE LogAssumption
<1>1. LogTypes /\ ReadingNewest /\ LogViewMatches
  BY DEF LogInv
<1>2. CASE connection_log_add
  <2>1. (logHead + logCount) % LogCapacity \in 0 .. (LogCapacity - 1)
    BY <1>1, LogSlot DEF LogTypes
  <2>2. (logHead + 1) % LogCapacity \in 0 .. (LogCapacity - 1)
    BY <1>1, LogSlot DEF LogTypes
  <2>3. LogTypes'
    BY <1>1, <1>2, <2>1, <2>2, SMTT(30) DEF LogTypes, connection_log_add, logCache
  <2>4. last_generation' < generation'
    BY <1>1, <1>2 DEF LogTypes, connection_log_add, logCache
  <2>. QED  BY <2>3, <2>4, SMTT(30) DEF LogInv, LogTypes, ReadingNewest, LogViewMatches
<1>3. CASE ClearLog
  <2>3. LogTypes'
    BY <1>1, <1>3 DEF LogTypes, ClearLog, connection_log_clear, logCache
  <2>4. last_generation' < generation'
    BY <1>1, <1>3 DEF LogTypes, ClearLog, connection_log_clear, logCache
  <2>. QED  BY <2>3, <2>4, SMTT(30) DEF LogInv, LogTypes, ReadingNewest, LogViewMatches
<1>4. CASE LogFrame
  <2>1. LogTypes'
    BY <1>1, <1>4 DEF LogTypes, LogFrame, logRing
  <2>2. ReadingNewest'
    BY <1>1, <1>4 DEF ReadingNewest, LogFrame
  <2>3. LogViewMatches'
    BY <1>1, <1>4 DEF LogViewMatches, LogFrame, NewestRows, connection_log_get, logRing
  <2>. QED  BY <2>1, <2>2, <2>3 DEF LogInv
<1>5. CASE ReadCount
  <2>1. LogTypes'
    BY <1>1, <1>5 DEF LogTypes, ReadCount, logRing
  <2>2. ReadingNewest'
    BY <1>1, <1>5 DEF ReadingNewest, ReadCount, LogTypes, logRing
  <2>3. LogViewMatches'
    BY <1>5 DEF LogViewMatches, ReadCount
  <2>. QED  BY <2>1, <2>2, <2>3 DEF LogInv
<1>6. CASE ReadRow
  <2> DEFINE i == rows_wanted - 1 - Len(log_rows)
  <2>1. /\ logStep' = "rows" /\ logStep = "rows"
        /\ Len(log_rows) < rows_wanted /\ Len(log_rows) < LogVisibleRows
        /\ log_rows' = Append(log_rows, <<i, connection_log_get(i)>>)
        /\ UNCHANGED <<entries, logHead, logCount, generation, last_generation, rows_wanted>>
    BY <1>6 DEF ReadRow, logRing
  <2>2. i \in Nat /\ Len(log_rows) \in Nat
    BY <1>1, <2>1 DEF LogTypes
  <2>3. connection_log_get(i) \in Nat
    <3>1. (logHead + i) % LogCapacity \in 0 .. (LogCapacity - 1)
      <4> HIDE DEF i
      <4>. QED  BY <1>1, <2>2, LogSlot DEF LogTypes
    <3>. QED  BY <3>1, <1>1 DEF LogTypes, connection_log_get
  <2>4. LogTypes'
    BY <1>1, <2>1, <2>2, <2>3 DEF LogTypes
  <2>5. ReadingNewest'
    <3> SUFFICES ASSUME last_generation = generation
                 PROVE  /\ rows_wanted = logCount
                        /\ Len(log_rows') <= logCount /\ Len(log_rows') <= LogVisibleRows
                        /\ \A r \in 1 .. Len(log_rows') :
                             log_rows'[r] = <<logCount - r, connection_log_get(logCount - r)>>
      BY <2>1 DEF ReadingNewest, connection_log_get
    <3>1. Len(log_rows') = Len(log_rows) + 1
      BY <1>1, <2>1 DEF LogTypes
    <3>2. ASSUME NEW r \in 1 .. Len(log_rows')
          PROVE  log_rows'[r] = <<logCount - r, connection_log_get(logCount - r)>>
      <4>1. CASE r \in 1 .. Len(log_rows)
        <5>1. log_rows'[r] = log_rows[r]
          BY <1>1, <2>1, <4>1 DEF LogTypes
        <5>. QED  BY <1>1, <2>1, <4>1, <5>1 DEF ReadingNewest
      <4>2. CASE r = Len(log_rows) + 1
        <5>1. log_rows'[r] = <<i, connection_log_get(i)>>
          BY <1>1, <2>1, <4>2 DEF LogTypes
        <5>2. i = logCount - r
          BY <1>1, <2>1, <4>2, <2>2 DEF ReadingNewest, LogTypes
        <5>. QED  BY <5>1, <5>2
      <4>3. r \in 1 .. Len(log_rows) \/ r = Len(log_rows) + 1
        BY <3>1, <2>2
      <4>. QED  BY <4>1, <4>2, <4>3
    <3>3. rows_wanted = logCount /\ Len(log_rows') <= logCount /\ Len(log_rows') <= LogVisibleRows
      BY <1>1, <2>1, <2>2, <3>1 DEF ReadingNewest, LogTypes
    <3>. QED  BY <3>2, <3>3
  <2>6. LogViewMatches'
    BY <2>1 DEF LogViewMatches
  <2>. QED  BY <2>4, <2>5, <2>6 DEF LogInv
<1>7. CASE RowsRead
  <2>1. /\ logStep = "rows" /\ logStep' = "input"
        /\ (Len(log_rows) = rows_wanted \/ Len(log_rows) = LogVisibleRows)
        /\ UNCHANGED <<entries, logHead, logCount, generation, last_generation, rows_wanted,
                       log_rows>>
    BY <1>7 DEF RowsRead, logRing, logCache
  <2>2. LogTypes'
    BY <1>1, <2>1 DEF LogTypes
  <2>3. ASSUME last_generation = generation PROVE log_rows = NewestRows
    <3>1. Len(log_rows) = IF logCount < LogVisibleRows THEN logCount ELSE LogVisibleRows
      BY <1>1, <2>1, <2>3 DEF LogTypes, ReadingNewest
    <3>2. log_rows = [r \in 1 .. Len(log_rows) |-> log_rows[r]]
      BY <1>1 DEF LogTypes
    <3>3. \A r \in 1 .. Len(log_rows) :
             log_rows[r] = <<logCount - r, connection_log_get(logCount - r)>>
      BY <1>1, <2>1, <2>3 DEF ReadingNewest
    <3>. QED  BY <3>1, <3>2, <3>3 DEF NewestRows
  <2>4. LogViewMatches'
    BY <2>1, <2>3 DEF LogViewMatches, NewestRows, connection_log_get
  <2>. QED  BY <2>1, <2>2, <2>4 DEF LogInv, ReadingNewest
<1>8. ASSUME /\ UNCHANGED <<logRing, logCache>>
             /\ \/ logStep' \in {"idle", "copy"} /\ logStep \in {"input", "copy"}
                \/ UNCHANGED logStep
      PROVE  LogInv'
  BY <1>1, <1>8 DEF LogInv, LogTypes, ReadingNewest, LogViewMatches, NewestRows,
                    connection_log_get, logRing, logCache
<1>9. CASE \E a, c, d : LogInput(a, c, d)
  BY <1>8, <1>9 DEF LogInput
<1>10. CASE \/ \E held \in BOOLEAN : LogIdle(held)
            \/ ClickEmpty \/ SelectAllRows \/ DropSelection
            \/ \E i \in RowIndices : ClickRow(i) \/ ShiftClickRow(i) \/ DragRow(i)
  <2>1. \E a, c, d : LogInput(a, c, d)
    BY <1>10 DEF LogIdle, ClickEmpty, SelectAllRows, DropSelection, ClickRow, ShiftClickRow,
                 DragRow
  <2>. QED  BY <2>1, <1>9
<1>11. CASE CopyLog \/ CopyEntry \/ CopyDone \/ CloseLog \/ ToggleLog
  BY <1>8, <1>11 DEF CopyLog, CopyEntry, CopyDone, CloseLog, ToggleLog
<1>12. CASE UNCHANGED logVars
  BY <1>8, <1>12 DEF logVars
<1>. QED
  BY <1>2, <1>3, <1>4, <1>5, <1>6, <1>7, <1>10, <1>11, <1>12 DEF LogNext, LogPanelStep

\* The log panel never shows a torn read of the log as the current one, for every capacity and
\* number of visible rows: rows labelled with the log's generation are its newest rows
\* (log_panel.c:89, connection_log.c).
THEOREM LogPanelShowsTheLog == LogSpec => []LogViewMatches
<1>1. LogInv => LogViewMatches
  BY DEF LogInv
<1>. QED  BY LogInitInv, LogStepInv, <1>1, PTL DEF LogSpec

-----------------------------------------------------------------------------
(* The ssh child.                                                          *)

SshTypes ==
    /\ Newest \in Nat
    /\ child \in [1 .. Newest -> {"starting", "listening", "zombie", "reaped"}]
    /\ tunnel_pid \in 0 .. Newest
    /\ sshStep \in {"idle", "spawn", "wait", "probe"}

\* A start never runs beside a tunnel, and the child it waits for exists and is not reaped.
StartingAlone ==
    /\ sshStep # "idle" => tunnel_pid = 0
    /\ sshStep \in {"wait", "probe"} => Newest > 0 /\ child[Newest] # "reaped"

\* The inductive invariant of the tunnel.
SshInv == SshTypes /\ StartingAlone /\ NoOrphanNoStalePid

\* Before the first connection there is no child.
LEMMA SshInitInv == SshInit => SshInv
<1> SUFFICES ASSUME SshInit PROVE SshInv
  OBVIOUS
<1>1. DOMAIN child = {}
  BY DEF SshInit
<1>2. Newest = 0
  BY <1>1, FS_EmptySet DEF Newest
<1>3. child \in [1 .. 0 -> {"starting", "listening", "zombie", "reaped"}]
  BY <1>1 DEF SshInit
<1>. QED  BY <1>1, <1>2, <1>3 DEF SshInit, SshInv, SshTypes, StartingAlone, NoOrphanNoStalePid

\* One child changes its state: no child comes or goes, and the others stay as they are.
LEMMA OneChildChanges ==
    ASSUME SshTypes, NEW c \in DOMAIN child,
           NEW s \in {"starting", "listening", "zombie", "reaped"},
           child' = [child EXCEPT ![c] = s]
    PROVE  /\ Newest' = Newest /\ DOMAIN child' = DOMAIN child
           /\ child' \in [1 .. Newest -> {"starting", "listening", "zombie", "reaped"}]
           /\ child'[c] = s
           /\ \A d \in DOMAIN child : d # c => child'[d] = child[d]
<1>1. DOMAIN child' = DOMAIN child
  BY DEF SshTypes
<1>2. Newest' = Newest
  BY <1>1 DEF Newest
<1>. QED  BY <1>1, <1>2 DEF SshTypes

\* The callers of kill and waitpid forget the child they reap in the same call.
LEMMA SshStepInv == SshInv /\ [SshNext]_sshVars => SshInv'
<1> SUFFICES ASSUME SshInv, [SshNext]_sshVars PROVE SshInv'
  OBVIOUS
<1> USE DEF SshInv, SshTypes
<1>0. DOMAIN child = 1 .. Newest
  OBVIOUS
<1>1. CASE StopTunnel \/ PollDead
  <2>1. /\ sshStep = "idle" /\ sshStep' = sshStep
        /\ tunnel_pid \in DOMAIN child /\ tunnel_pid' = 0
        /\ child' = [child EXCEPT ![tunnel_pid] = "reaped"]
    BY <1>0, <1>1 DEF StopTunnel, PollDead, ssh_tunnel_stop, Reap
  <2>5. /\ Newest' = Newest /\ DOMAIN child' = DOMAIN child
        /\ child' \in [1 .. Newest -> {"starting", "listening", "zombie", "reaped"}]
        /\ child'[tunnel_pid] = "reaped"
        /\ \A d \in DOMAIN child : d # tunnel_pid => child'[d] = child[d]
    BY <2>1, OneChildChanges
  <2>. QED  BY <1>0, <2>1, <2>5 DEF StartingAlone, NoOrphanNoStalePid
<1>2. CASE ReservePort
  <2>1. UNCHANGED <<tunnel_pid, child>> /\ sshStep = "idle" /\ tunnel_pid = 0 /\ sshStep' = "spawn"
    BY <1>2 DEF ReservePort
  <2>. QED  BY <2>1 DEF StartingAlone, NoOrphanNoStalePid, Newest
<1>3. CASE Spawn
  <2>1. /\ child' = [c \in 1 .. (Newest + 1) |-> IF c <= Newest THEN child[c] ELSE "starting"]
        /\ sshStep = "spawn" /\ sshStep' = "wait" /\ tunnel_pid' = tunnel_pid /\ tunnel_pid = 0
    BY <1>3 DEF Spawn, StartingAlone
  <2>2. DOMAIN child' = 1 .. (Newest + 1)
    BY <2>1
  <2>3. Newest' = Newest + 1
    BY <2>2, FS_Interval DEF Newest
  <2>4. \A c \in DOMAIN child : child[c] = "reaped"
    BY <2>1, <1>0 DEF NoOrphanNoStalePid
  <2>. QED  BY <1>0, <2>1, <2>2, <2>3, <2>4 DEF StartingAlone, NoOrphanNoStalePid
<1>4. CASE SpawnFails
  BY <1>4 DEF SpawnFails, StartingAlone, NoOrphanNoStalePid, Newest
<1>5. CASE WaitExited \/ ProbeTimesOut
  <2>1. /\ sshStep \in {"wait", "probe"} /\ sshStep' = "idle" /\ tunnel_pid' = tunnel_pid
        /\ child' = [child EXCEPT ![Newest] = "reaped"]
        /\ tunnel_pid = 0 /\ Newest \in DOMAIN child
    BY <1>0, <1>5 DEF WaitExited, ProbeTimesOut, Reap, StartingAlone
  <2>5. /\ Newest' = Newest /\ DOMAIN child' = DOMAIN child
        /\ child' \in [1 .. Newest -> {"starting", "listening", "zombie", "reaped"}]
        /\ child'[Newest] = "reaped"
        /\ \A d \in DOMAIN child : d # Newest => child'[d] = child[d]
    BY <2>1, OneChildChanges
  <2>. QED  BY <1>0, <2>1, <2>5 DEF StartingAlone, NoOrphanNoStalePid
<1>6. CASE WaitRunning \/ ProbeAgain
  BY <1>6 DEF WaitRunning, ProbeAgain, StartingAlone, NoOrphanNoStalePid, Newest
<1>7. CASE ProbeConnects
  BY <1>7 DEF ProbeConnects, StartingAlone, NoOrphanNoStalePid, Newest
<1>8. CASE \E c \in DOMAIN child : Listens(c) \/ Exits(c)
  <2>1. PICK c \in DOMAIN child : Listens(c) \/ Exits(c)
    BY <1>8
  <2>2. PICK s \in {"listening", "zombie"} :
          /\ child' = [child EXCEPT ![c] = s] /\ child[c] # "reaped"
          /\ UNCHANGED <<tunnel_pid, sshStep>>
    BY <2>1 DEF Listens, Exits, Running
  <2>5. /\ Newest' = Newest /\ DOMAIN child' = DOMAIN child
        /\ child' \in [1 .. Newest -> {"starting", "listening", "zombie", "reaped"}]
        /\ child'[c] = s
        /\ \A d \in DOMAIN child : d # c => child'[d] = child[d]
    BY <2>2, OneChildChanges
  <2>. QED  BY <1>0, <2>2, <2>5 DEF StartingAlone, NoOrphanNoStalePid
<1>9. CASE CannotForward
  BY <1>8, <1>9 DEF CannotForward
<1>10. CASE PortTaken \/ PortReleased \/ UNCHANGED sshVars
  BY <1>10 DEF PortTaken, PortReleased, sshVars, StartingAlone, NoOrphanNoStalePid, Newest
<1>. QED
  BY <1>1, <1>2, <1>3, <1>4, <1>5, <1>6, <1>7, <1>8, <1>9, <1>10 DEF SshNext, StartStep

\* No ssh process is left behind, and no pid that may belong to somebody else is kept, however
\* many probes ssh_tunnel_start makes and whatever the child does meanwhile (ssh_tunnel.c).
THEOREM SshChildAnsweredFor == SshSpec => []NoOrphanNoStalePid
<1>1. SshInv => NoOrphanNoStalePid
  BY DEF SshInv
<1>. QED  BY SshInitInv, SshStepInv, <1>1, PTL DEF SshSpec

-----------------------------------------------------------------------------
(* The update check.                                                       *)

UpdateTypes ==
    /\ worker \in Seq({"popen", "read", "reply", "gone"})
    /\ starter \in {"out", "copy", "create"}
    /\ result \in [status : {"idle", "checking", "failed", "available", "up_to_date"},
                   latest : Nat]
    /\ reply \in [of : Nat, tag : Nat]

RunningWorkers == {w \in DOMAIN worker : worker[w] # "gone"}

\* OneCheckAtATime without counting: who is at work excludes everybody else.
ChecksExclude ==
    /\ (result.status = "checking") <=> (starter # "out" \/ RunningWorkers # {})
    /\ starter # "out" => RunningWorkers = {}
    /\ \A v, w \in RunningWorkers : v = w
    /\ \A w \in RunningWorkers : worker[w] = "reply" => reply.of = w

\* The inductive invariant of the update check.
UpdateInv == UpdateTypes /\ ChecksExclude

\* No check runs at the start.
LEMMA UpdateInitInv == UpdateInit => UpdateInv
  BY DEF UpdateInit, UpdateInv, UpdateTypes, ChecksExclude, RunningWorkers

\* A check is started only when none is under way, and the one worker it gets is the only one to
\* move until it is gone.
LEMMA UpdateStepInv == UpdateInv /\ [UpdateNext]_updateVars => UpdateInv'
<1> SUFFICES ASSUME UpdateInv, [UpdateNext]_updateVars PROVE UpdateInv'
  OBVIOUS
<1> USE UpdateAssumption DEF UpdateInv, UpdateTypes
<1>1. CASE OpenAbout \/ AboutFrame \/ CloseAbout \/ UNCHANGED updateVars
  BY <1>1 DEF OpenAbout, AboutFrame, CloseAbout, updateVars, ChecksExclude, RunningWorkers
<1>2. CASE update_check_start
  BY <1>2 DEF update_check_start, Busy, ChecksExclude, RunningWorkers
<1>3. CASE CopyCurrent
  BY <1>3 DEF CopyCurrent, ChecksExclude, RunningWorkers
<1>4. CASE CreateWorker
  <2>1. /\ starter = "create" /\ starter' = "out" /\ worker' = Append(worker, "popen")
        /\ UNCHANGED <<result, reply>>
    BY <1>4 DEF CreateWorker
  <2>2. RunningWorkers' = {Len(worker) + 1}
    BY <2>1 DEF ChecksExclude, RunningWorkers
  <2>3. worker'[Len(worker) + 1] = "popen"
    BY <2>1
  <2>4. UpdateTypes'
    BY <2>1
  <2>. QED  BY <2>1, <2>2, <2>3, <2>4 DEF ChecksExclude
<1>5. CASE CreateFails
  BY <1>5 DEF CreateFails, Failed, ChecksExclude, RunningWorkers
<1>6. CASE \E w \in DOMAIN worker : WorkerStep(w)
  <2>1. PICK w \in DOMAIN worker : WorkerStep(w)
    BY <1>6
  <2>2. w \in RunningWorkers
    BY <2>1 DEF WorkerStep, WorkerFails, RunCurl, SetResult, ReadReply, RunningWorkers
  <2>3. RunningWorkers = {w} /\ starter = "out" /\ result.status = "checking"
    BY <2>2 DEF ChecksExclude
  <2>4. CASE WorkerFails(w) \/ SetResult(w)
    <3>1. worker' = [worker EXCEPT ![w] = "gone"] /\ UNCHANGED <<starter, reply>>
      BY <2>4 DEF WorkerFails, SetResult
    <3>2. result'.status # "checking" /\ UpdateTypes'
      BY <2>4, <3>1 DEF WorkerFails, SetResult, Failed
    <3>3. RunningWorkers' = {}
      BY <2>3, <3>1 DEF RunningWorkers
    <3>. QED  BY <2>3, <3>1, <3>2, <3>3 DEF ChecksExclude
  <2>5. CASE RunCurl(w) \/ \E tag \in Releases : ReadReply(w, tag)
    <3>1. PICK s \in {"read", "reply"} :
            /\ worker' = [worker EXCEPT ![w] = s] /\ UNCHANGED <<starter, result>>
            /\ s = "reply" => reply'.of = w
      BY <2>5 DEF RunCurl, ReadReply
    <3>2. UpdateTypes'
      BY <2>5, <3>1 DEF RunCurl, ReadReply
    <3>3. RunningWorkers' = {w} /\ worker'[w] = s
      BY <2>3, <3>1 DEF RunningWorkers
    <3>. QED  BY <2>3, <3>1, <3>2, <3>3 DEF ChecksExclude
  <2>. QED  BY <2>1, <2>4, <2>5 DEF WorkerStep
<1>. QED
  BY <1>1, <1>2, <1>3, <1>4, <1>5, <1>6 DEF UpdateNext

\* The static buffers that no mutex guards have one user at a time, however often the dialog is
\* opened and closed and checks are started (update_check.c:52).
THEOREM UpdateChecksExclude == UpdateSpec => []OneCheckAtATime
<1>1. UpdateInv => OneCheckAtATime
  <2> SUFFICES ASSUME UpdateInv PROVE OneCheckAtATime
    OBVIOUS
  <2>1. Cardinality(RunningWorkers) <= (IF starter = "out" THEN 1 ELSE 0)
    <3>1. CASE RunningWorkers = {}
      BY <3>1, FS_EmptySet
    <3>2. CASE RunningWorkers # {}
      <4>1. PICK w \in RunningWorkers : TRUE
        BY <3>2
      <4>2. RunningWorkers = {w} /\ starter = "out"
        BY <4>1 DEF UpdateInv, ChecksExclude
      <4>. QED  BY <4>2, FS_Singleton
    <3>. QED  BY <3>1, <3>2
  <2>. QED  BY <2>1 DEF UpdateInv, ChecksExclude, RunningWorkers, OneCheckAtATime
<1>. QED  BY UpdateInitInv, UpdateStepInv, <1>1, PTL DEF UpdateSpec

=============================================================================
