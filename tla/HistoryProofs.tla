--------------------------- MODULE HistoryProofs ---------------------------
(***************************************************************************)
(* Proofs about History: for every set of topics, size of the ring, of a   *)
(* batch, of the table and of what is loaded, whichever statements fail    *)
(* and wherever the process is killed.                                     *)
(***************************************************************************)
EXTENDS History, SubsequenceProofs, SequenceTheorems, TLAPS

-----------------------------------------------------------------------------
(* The inductive invariant, in parts.                                      *)

\* What is unsaved: a flush works on the generations from saved to pushed, and nothing is left
\* when Clear History comes to its DELETE.
Window ==
    /\ pc = "batch" => pushed = generation /\ WindowStart <= saved
    /\ pc \in {"delete", "remove"} => saved = generation

\* No message is from the future, and what has been trimmed is older than every row.
Dated ==
    /\ \A j \in DOMAIN rows : trimmed < rows[j].time /\ rows[j].time <= clock
    /\ \A k \in DOMAIN ring : ring[k].time <= clock

Ordered(log) == \A j, k \in DOMAIN log : j < k => log[j].time < log[k].time

\* The ring is in order too, and what is unsaved of it is newer than every row, the trimmed ones
\* included, so that a batch can be appended to the table.
UnsavedAreNewer ==
    /\ Ordered(ring)
    /\ \A k \in DOMAIN ring : WindowStart + k > saved =>
           trimmed < ring[k].time /\ \A j \in DOMAIN rows : rows[j].time < ring[k].time

\* Between the DELETE and the removal from the ring only the topic itself may be stale there.
RingCleared ==
    pc = "remove" =>
        \A r \in ToSet(ring) : r.topic # clearing => r.time > forgotten[r.topic]

Order == RowsInOrder /\ Dated /\ UnsavedAreNewer

Cleared == ClearedStaysCleared /\ RingCleared

\* The inductive invariant.
Inv == TypeOK /\ Window /\ Order /\ SavedUnlessFailed /\ Cleared

-----------------------------------------------------------------------------
(* The sequences the actions compute.                                      *)

\* The sizes of the tables and the bounds are numbers.
LEMMA Sizes ==
    /\ RingCapacity \in Nat /\ RingCapacity >= 1 /\ BatchSize \in Nat /\ BatchSize >= 1
    /\ MaxRows \in Nat /\ MaxRows >= 1 /\ LoadMax \in Nat /\ LoadMax >= 1 /\ LoadMax <= RingCapacity
    /\ MaxMessages \in Nat /\ MaxRequests \in Nat /\ MaxStarts \in Nat
  BY SizesAssumption, LoadAssumption, BoundsAssumption

\* db_load_messages and db_trim_messages: a suffix of the table.
LEMMA NewestFacts ==
    ASSUME rows \in Seq(Message), NEW n \in Nat, n >= 1
    PROVE  LET d == IF Len(rows) > n THEN Len(rows) - n ELSE 0
           IN  /\ Newest(n) \in Seq(Message)
               /\ Len(Newest(n)) = Len(rows) - d
               /\ \A k \in 1 .. Len(rows) - d : Newest(n)[k] = rows[d + k]
<1> DEFINE d == IF Len(rows) > n THEN Len(rows) - n ELSE 0
<1>1. d \in 0 .. Len(rows) /\ Len(rows) \in Nat
  OBVIOUS
<1>2. Newest(n) = SubSeq(rows, d + 1, Len(rows))
  BY DEF Newest
<1>3. \A i \in d + 1 .. Len(rows) : rows[i] \in Message
  BY <1>1
<1> HIDE DEF d
<1>4. /\ SubSeq(rows, d + 1, Len(rows)) \in Seq(Message)
      /\ Len(SubSeq(rows, d + 1, Len(rows))) =
             IF d + 1 <= Len(rows) THEN Len(rows) - (d + 1) + 1 ELSE 0
      /\ \A i \in 1 .. Len(rows) - (d + 1) + 1 :
             SubSeq(rows, d + 1, Len(rows))[i] = rows[d + 1 + i - 1]
  BY <1>1, <1>3, SubSeqProperties
<1>5. /\ Newest(n) \in Seq(Message)
      /\ Len(Newest(n)) = Len(rows) - d
      /\ \A k \in 1 .. Len(rows) - d : Newest(n)[k] = rows[d + k]
  BY <1>1, <1>2, <1>4
<1>. QED  BY <1>5 DEF d

\* The next batch: the unsaved records of the ring, from the first one on.
LEMMA BatchFacts ==
    ASSUME TypeOK, Window, pc = "batch", saved < pushed
    PROVE  \E n \in 1 .. generation - saved :
               /\ Batch \in Seq(Message) /\ Len(Batch) = n
               /\ \A k \in 1 .. n : /\ (saved - WindowStart) + k \in DOMAIN ring
                                    /\ Batch[k] = ring[(saved - WindowStart) + k]
<1> DEFINE start == saved - WindowStart
           n == IF pushed - saved > BatchSize THEN BatchSize ELSE pushed - saved
<1>1. /\ ring \in Seq(Message) /\ Len(ring) \in Nat /\ generation \in Nat /\ saved \in Nat
      /\ WindowStart = generation - Len(ring) /\ WindowStart <= saved /\ saved < generation
      /\ pushed = generation
  BY DEF TypeOK, Window, WindowStart
<1>2. start \in Nat /\ n \in Nat /\ n >= 1 /\ n <= generation - saved /\ start + n <= Len(ring)
  BY <1>1, Sizes
<1>3. Batch = SubSeq(ring, start + 1, start + n)
  BY DEF Batch
<1> HIDE DEF start, n
<1>4. \A i \in start + 1 .. start + n : i \in DOMAIN ring /\ ring[i] \in Message
  BY <1>1, <1>2
<1>5. /\ SubSeq(ring, start + 1, start + n) \in Seq(Message)
      /\ Len(SubSeq(ring, start + 1, start + n)) =
             IF start + 1 <= start + n THEN start + n - (start + 1) + 1 ELSE 0
      /\ \A i \in 1 .. start + n - (start + 1) + 1 :
             SubSeq(ring, start + 1, start + n)[i] = ring[start + 1 + i - 1]
  BY <1>2, <1>4, SubSeqProperties
<1>6. /\ Batch \in Seq(Message) /\ Len(Batch) = n
      /\ \A k \in 1 .. n : start + k \in DOMAIN ring /\ Batch[k] = ring[start + k]
  BY <1>1, <1>2, <1>3, <1>4, <1>5
<1>. QED  BY <1>1, <1>2, <1>6 DEF start

\* A log without a topic ...
Without(log, t) == Kept(log, {k \in DOMAIN log : log[k].topic # t})

\* ... the other records, all of them, in their order.
LEMMA WithoutFacts ==
    ASSUME NEW log \in Seq(Message), NEW t
    PROVE  /\ Without(log, t) \in Seq(Message) /\ Len(Without(log, t)) <= Len(log)
           /\ \A j \in DOMAIN Without(log, t) :
                  Without(log, t)[j].topic # t /\ Without(log, t)[j] \in ToSet(log)
           /\ \A r \in ToSet(log) : r.topic # t => r \in ToSet(Without(log, t))
           /\ Ordered(log) => Ordered(Without(log, t))
<1> DEFINE K == {k \in DOMAIN log : log[k].topic # t}
           w == Without(log, t)
<1>1. w \in Seq(Message) /\ Len(w) <= Len(log)
  BY KeptFacts DEF Without
<1>2. PICK e : Embeds(e, w, log, K, Len(log))
  BY KeptFacts DEF Without
<1> HIDE DEF w
<1>3. /\ e \in [1 .. Len(w) -> 1 .. Len(log)]
      /\ \A a \in 1 .. Len(w) : e[a] \in K /\ w[a] = log[e[a]]
      /\ \A a, b \in 1 .. Len(w) : a < b => e[a] < e[b]
      /\ \A k \in 1 .. Len(log) : k \in K => \E a \in 1 .. Len(w) : e[a] = k
  BY <1>2 DEF Embeds
<1>4. DOMAIN w = 1 .. Len(w) /\ DOMAIN log = 1 .. Len(log)
  BY <1>1
<1>5. ASSUME NEW j \in DOMAIN w PROVE w[j].topic # t /\ w[j] \in ToSet(log)
  <2>1. e[j] \in K /\ w[j] = log[e[j]]
    BY <1>3, <1>4
  <2>. QED  BY <2>1 DEF ToSet
<1>6. ASSUME NEW r \in ToSet(log), r.topic # t PROVE r \in ToSet(w)
  <2>1. PICK k \in DOMAIN log : r = log[k]
    BY DEF ToSet
  <2>2. PICK a \in 1 .. Len(w) : e[a] = k
    BY <1>3, <1>4, <1>6, <2>1
  <2>. QED  BY <1>3, <1>4, <2>1, <2>2 DEF ToSet
<1>7. ASSUME Ordered(log) PROVE Ordered(w)
  <2> SUFFICES ASSUME NEW j \in DOMAIN w, NEW k \in DOMAIN w, j < k
               PROVE  w[j].time < w[k].time
    BY DEF Ordered
  <2>1. /\ e[j] \in DOMAIN log /\ e[k] \in DOMAIN log /\ e[j] < e[k]
        /\ w[j] = log[e[j]] /\ w[k] = log[e[k]]
    BY <1>3, <1>4
  <2>. QED  BY <1>7, <2>1 DEF Ordered
<1>. QED  BY <1>1, <1>5, <1>6, <1>7 DEF w

\* The ring's own copy of the operator is the same one, and so is the table's.
LEMMA RingWithout == \A t : Ring!Without(t) = Without(ring, t) /\ RowsWithout(t) = Without(rows, t)
  BY DEF Ring!Without, Ring!Kept, Ring!KeptUpTo, Kept, KeptUpTo, Without, RowsWithout

-----------------------------------------------------------------------------
(* The steps.                                                              *)

\* What the types say of the counters and of the lengths of ring and table.
LEMMA Numbers ==
    ASSUME TypeOK
    PROVE  /\ clock \in Nat /\ trimmed \in Nat /\ generation \in Nat /\ saved \in Nat
           /\ saved <= generation /\ Len(ring) \in Nat /\ Len(ring) <= generation
           /\ WindowStart \in Nat /\ WindowStart = generation - Len(ring)
           /\ DOMAIN ring = 1 .. Len(ring) /\ DOMAIN rows = 1 .. Len(rows) /\ Len(rows) \in Nat
           /\ \A k \in DOMAIN ring : ring[k] \in Message /\ ring[k].time \in Nat
           /\ \A j \in DOMAIN rows : rows[j] \in Message /\ rows[j].time \in Nat
<1>1. /\ clock \in Nat /\ trimmed \in Nat /\ generation \in Nat /\ saved \in Nat
      /\ saved <= generation /\ Len(ring) \in Nat /\ Len(ring) <= generation
      /\ DOMAIN ring = 1 .. Len(ring) /\ DOMAIN rows = 1 .. Len(rows) /\ Len(rows) \in Nat
  BY Sizes DEF TypeOK
<1>2. WindowStart \in Nat /\ WindowStart = generation - Len(ring)
  BY <1>1 DEF WindowStart
<1>3. \A r \in Message : r.time \in Nat
  BY Sizes DEF Message
<1>4. /\ \A k \in DOMAIN ring : ring[k] \in Message
      /\ \A j \in DOMAIN rows : rows[j] \in Message
  BY DEF TypeOK
<1>. QED  BY <1>1, <1>2, <1>3, <1>4

\* The first start finds an empty table and an empty ring.
LEMMA InitInv == Init => Inv
<1> SUFFICES ASSUME Init PROVE Inv
  OBVIOUS
<1>1. Unset \in Topics
  BY TopicsAssumption DEF Unset
<1>2. TypeOK
  BY <1>1, Sizes DEF Init, TypeOK
<1>3. Window /\ Order /\ SavedUnlessFailed /\ Cleared
  BY DEF Init, Window, Order, RowsInOrder, Dated, UnsavedAreNewer, Ordered, SavedUnlessFailed,
         Cleared, ClearedStaysCleared, RingCleared, ToSet
<1>. QED  BY <1>2, <1>3 DEF Inv

\* A flush begins: records that the ring has dropped are given up, nothing else changes.
LEMMA BeginInv ==
    ASSUME Inv, pc = "frame", NEW next \in {"frame", "delete", "down"}, FlushBegin(next),
           UNCHANGED <<ring, generation, rows, clock, ghosts>>,
           clearing' \in Topics, requests' \in 0 .. MaxRequests, starts' \in 0 .. MaxStarts
    PROVE  Inv'
<1> USE DEF Inv, ghosts
<1>1. /\ generation \in Nat /\ saved \in Nat /\ saved <= generation
      /\ WindowStart \in Nat /\ WindowStart <= generation /\ WindowStart' = WindowStart
  BY Numbers DEF WindowStart
<1>2. /\ saved' \in 0 .. generation /\ saved <= saved' /\ WindowStart <= saved'
      /\ saved' \in {saved, WindowStart}
      /\ pc' \in {next, "batch"} /\ pushed' \in {pushed, generation} /\ cont' \in {cont, next}
      /\ pc' = "batch" => pushed' = generation
      /\ pc' = "delete" => saved' = generation
  <2>1. saved' = IF saved < WindowStart THEN WindowStart ELSE saved
    BY DEF FlushBegin
  <2>2. saved' \in 0 .. generation /\ saved <= saved' /\ WindowStart <= saved'
    BY <1>1, <2>1
  <2>3. CASE saved' >= generation
    BY <1>1, <2>1, <2>2, <2>3 DEF FlushBegin
  <2>4. CASE ~(saved' >= generation)
    BY <1>1, <2>1, <2>2, <2>4 DEF FlushBegin
  <2>. QED  BY <2>3, <2>4
<1>3. TypeOK'
  BY <1>2 DEF TypeOK
<1>4. Window'
  BY <1>1, <1>2 DEF Window
<1>5. Order'
  <2>1. \A k \in DOMAIN ring : WindowStart + k > saved' => WindowStart + k > saved
    BY <1>1, <1>2, Numbers, SMTT(30)
  <2>. QED  BY <1>1, <2>1 DEF Order, RowsInOrder, Dated, UnsavedAreNewer, Ordered
<1>6. SavedUnlessFailed'
  <2> SUFFICES ASSUME NEW k \in DOMAIN ring, WindowStart + k <= saved'
               PROVE  ring[k] \in ToSet(rows) \/ ring[k].time <= trimmed \/ ring[k].time \in failed
    BY <1>1, <1>2 DEF SavedUnlessFailed
  <2>1. k \in Nat /\ k >= 1
    BY DEF TypeOK
  <2>2. WindowStart + k <= saved
    BY <1>1, <1>2, <2>1
  <2>. QED  BY <2>2 DEF SavedUnlessFailed
<1>7. Cleared'
  BY <1>2 DEF Cleared, ClearedStaysCleared, RingCleared
<1>. QED  BY <1>3, <1>4, <1>5, <1>6, <1>7

\* main starts with nothing unsaved and with the newest rows of the table.
LEMMA StartInv == Inv /\ Start => Inv'
<1> SUFFICES ASSUME Inv, Start PROVE Inv'
  OBVIOUS
<1> USE DEF Inv, ghosts
<1>0. /\ ring' = <<>> \/ ring' = Newest(LoadMax)
      /\ generation' = Len(ring') /\ saved' = generation' /\ pc' = "frame" /\ starts' = starts + 1
      /\ UNCHANGED <<rows, pushed, cont, clearing, clock, forgotten, trimmed, failed, requests>>
      /\ starts < MaxStarts
  BY DEF Start
<1> DEFINE d == IF Len(rows) > LoadMax THEN Len(rows) - LoadMax ELSE 0
<1>1. rows \in Seq(Message) /\ Len(rows) \in Nat /\ d \in 0 .. Len(rows) /\ Len(rows) - d <= LoadMax
  BY Sizes DEF TypeOK
<1>2. \E m \in 0 .. Len(rows) - d :
        /\ ring' \in Seq(Message) /\ Len(ring') = m
        /\ \A k \in 1 .. m : ring'[k] = rows[d + k]
  <2>1. CASE ring' = <<>>
    BY <1>1, <2>1
  <2>2. CASE ring' = Newest(LoadMax)
    <3>1. /\ Newest(LoadMax) \in Seq(Message) /\ Len(Newest(LoadMax)) = Len(rows) - d
          /\ \A k \in 1 .. Len(rows) - d : Newest(LoadMax)[k] = rows[d + k]
      BY <1>1, Sizes, NewestFacts
    <3>. QED  BY <1>1, <2>2, <3>1, SMTT(30)
  <2>. QED  BY <1>0, <2>1, <2>2
<1> HIDE DEF d
<1>3. PICK m \in 0 .. Len(rows) - d :
        /\ ring' \in Seq(Message) /\ Len(ring') = m
        /\ \A k \in 1 .. m : ring'[k] = rows[d + k]
  BY <1>2
<1>4. \A k \in DOMAIN ring' : /\ k \in 1 .. m /\ d + k \in DOMAIN rows
                              /\ ring'[k] = rows[d + k] /\ ring'[k] \in ToSet(rows)
  <2> SUFFICES ASSUME NEW k \in DOMAIN ring'
               PROVE  /\ k \in 1 .. m /\ d + k \in DOMAIN rows
                      /\ ring'[k] = rows[d + k] /\ ring'[k] \in ToSet(rows)
    OBVIOUS
  <2>1. k \in 1 .. m /\ d + k \in DOMAIN rows /\ ring'[k] = rows[d + k]
    BY <1>1, <1>3
  <2>. QED  BY <2>1 DEF ToSet
<1>5. generation' = m /\ saved' = m /\ WindowStart' = 0 /\ m \in Nat /\ m <= RingCapacity
  BY <1>0, <1>1, <1>3, Sizes DEF WindowStart
<1>6. TypeOK'
  BY <1>0, <1>3, <1>5, Sizes DEF TypeOK
<1>7. Window'
  BY <1>0 DEF Window
<1>8. Order'
  <2>1. RowsInOrder' /\ Dated'
    BY <1>0, <1>4 DEF Order, RowsInOrder, Dated
  <2>2. Ordered(ring')
    <3> SUFFICES ASSUME NEW j \in DOMAIN ring', NEW k \in DOMAIN ring', j < k
                 PROVE  ring'[j].time < ring'[k].time
      BY DEF Ordered
    <3>1. /\ d + j \in DOMAIN rows /\ d + k \in DOMAIN rows /\ d + j < d + k
          /\ ring'[j] = rows[d + j] /\ ring'[k] = rows[d + k]
      BY <1>1, <1>4
    <3>. QED  BY <3>1 DEF Order, RowsInOrder
  <2>3. UnsavedAreNewer'
    BY <1>3, <1>4, <1>5, <2>2 DEF UnsavedAreNewer, Ordered
  <2>. QED  BY <2>1, <2>3 DEF Order
<1>9. SavedUnlessFailed'
  BY <1>0, <1>4 DEF SavedUnlessFailed
<1>10. \A r \in ToSet(ring') : r \in ToSet(rows)
  BY <1>4 DEF ToSet
<1>11. Cleared'
  BY <1>0, <1>10 DEF Cleared, ClearedStaysCleared, RingCleared
<1>. QED  BY <1>6, <1>7, <1>8, <1>9, <1>11

\* message_buf_push: the new record is unsaved and newer than everything.
LEMMA ReceiveInv == ASSUME NEW t \in Topics, Inv, Receive(t) PROVE Inv'
<1> USE DEF Inv, ghosts
<1> DEFINE new == [topic |-> t, time |-> clock + 1]
           o == IF Len(ring) = RingCapacity THEN 1 ELSE 0
<1>0. /\ pc = "frame" /\ clock < MaxMessages /\ clock' = clock + 1
      /\ ring' = Append(IF Len(ring) = RingCapacity THEN Tail(ring) ELSE ring, new)
      /\ generation' = generation + 1
      /\ UNCHANGED <<saved, rows, pc, pushed, cont, clearing, forgotten, trimmed, failed,
                     requests, starts>>
  BY DEF Receive, Ring!Push, Ring!Pushed
<1>1. /\ ring \in Seq(Message) /\ Len(ring) \in Nat /\ Len(ring) <= RingCapacity
      /\ clock \in Nat /\ new \in Message /\ generation \in Nat /\ saved \in Nat
      /\ Len(ring) <= generation
  BY <1>0, Sizes DEF TypeOK, Message
<1>2. /\ o \in {0, 1} /\ o <= Len(ring) /\ Len(ring) - o + 1 <= RingCapacity
      /\ ring' \in Seq(Message) /\ Len(ring') = Len(ring) - o + 1
      /\ \A k \in 1 .. Len(ring) - o : ring'[k] = ring[o + k]
      /\ ring'[Len(ring) - o + 1] = new
  <2>1. CASE Len(ring) = RingCapacity
    <3>1. /\ Tail(ring) \in Seq(Message) /\ Len(Tail(ring)) = Len(ring) - 1
          /\ \A k \in 1 .. Len(Tail(ring)) : Tail(ring)[k] = ring[k + 1]
      BY <1>1, <2>1, Sizes, HeadTailProperties
    <3>. QED  BY <1>0, <1>1, <2>1, <3>1, Sizes, AppendProperties
  <2>2. CASE Len(ring) # RingCapacity
    BY <1>0, <1>1, <2>2, Sizes, AppendProperties
  <2>. QED  BY <2>1, <2>2
<1>4. new.time = clock + 1 /\ new.topic = t
  OBVIOUS
<1> HIDE DEF new, o
<1>3. WindowStart' = WindowStart + o /\ WindowStart \in Nat /\ WindowStart = generation - Len(ring)
  <2>1. WindowStart \in Nat /\ WindowStart = generation - Len(ring)
    BY Numbers
  <2>2. WindowStart' = generation' - Len(ring')
    BY DEF WindowStart
  <2>3. generation' - Len(ring') = (generation + 1) - (Len(ring) - o + 1)
    BY <1>0, <1>2
  <2>4. (generation + 1) - (Len(ring) - o + 1) = (generation - Len(ring)) + o
    BY <1>1, <1>2
  <2>. QED  BY <2>1, <2>2, <2>3, <2>4
<1>5. \A k \in DOMAIN ring' :
        \/ k = Len(ring) - o + 1 /\ ring'[k] = new /\ WindowStart' + k = generation + 1
        \/ k + o \in DOMAIN ring /\ ring'[k] = ring[k + o] /\ WindowStart' + k = WindowStart + (k + o)
  <2> SUFFICES ASSUME NEW k \in DOMAIN ring'
               PROVE  \/ k = Len(ring) - o + 1 /\ ring'[k] = new /\ WindowStart' + k = generation + 1
                      \/ /\ k + o \in DOMAIN ring /\ ring'[k] = ring[k + o]
                         /\ WindowStart' + k = WindowStart + (k + o)
    OBVIOUS
  <2>1. k \in 1 .. Len(ring) - o + 1
    BY <1>1, <1>2
  <2>2. CASE k = Len(ring) - o + 1
    BY <1>1, <1>2, <1>3, <2>2
  <2>3. CASE k \in 1 .. Len(ring) - o
    <3>1. k \in Nat /\ o \in Nat /\ k + o \in DOMAIN ring /\ ring'[k] = ring[o + k]
      BY <1>1, <1>2, <2>3
    <3>2. o + k = k + o /\ WindowStart' + k = WindowStart + (k + o)
      BY <1>3, <3>1
    <3>. QED  BY <3>1, <3>2
  <2>. QED  BY <1>1, <1>2, <2>1, <2>2, <2>3
<1>6. TypeOK'
  <2>1. /\ clock' \in 0 .. MaxMessages /\ forgotten' \in [Topics -> 0 .. clock']
        /\ trimmed' \in 0 .. clock' /\ failed' \subseteq 1 .. clock'
    BY <1>0, <1>1, Sizes DEF TypeOK
  <2>2. /\ ring' \in Seq(Message) /\ Len(ring') <= RingCapacity
        /\ generation' \in Nat /\ Len(ring') <= generation' /\ saved' \in 0 .. generation'
    BY <1>0, <1>1, <1>2, Sizes DEF TypeOK
  <2>. QED  BY <1>0, <2>1, <2>2 DEF TypeOK
<1>7. Window'
  BY <1>0 DEF Window
<1>8. Order'
  <2>1. \A k \in DOMAIN ring : ring[k].time < new.time
    BY <1>4, Numbers DEF Order, Dated
  <2>2. Ordered(ring')
    <3> SUFFICES ASSUME NEW j \in DOMAIN ring', NEW k \in DOMAIN ring', j < k
                 PROVE  ring'[j].time < ring'[k].time
      BY DEF Ordered
    <3>1. j \in 1 .. Len(ring) - o /\ j + o \in DOMAIN ring /\ ring'[j] = ring[j + o]
      BY <1>1, <1>2
    <3>2. CASE k = Len(ring) - o + 1
      BY <1>2, <2>1, <3>1, <3>2
    <3>3. CASE k # Len(ring) - o + 1
      <4>1. k + o \in DOMAIN ring /\ ring'[k] = ring[k + o] /\ j + o < k + o
        BY <1>1, <1>2, <1>5, <3>3
      <4>. QED  BY <3>1, <4>1 DEF Order, UnsavedAreNewer, Ordered
    <3>. QED  BY <3>2, <3>3
  <2>3. Dated'
    <3>1. \A k \in DOMAIN ring' : ring'[k].time <= clock + 1
      BY <1>4, <1>5, Numbers DEF Order, Dated
    <3>2. \A j \in DOMAIN rows : trimmed < rows[j].time /\ rows[j].time <= clock + 1
      BY Numbers DEF Order, Dated
    <3>. QED  BY <1>0, <3>1, <3>2 DEF Dated
  <2>4. \A k \in DOMAIN ring' : WindowStart' + k > saved =>
           trimmed < ring'[k].time /\ \A j \in DOMAIN rows : rows[j].time < ring'[k].time
    <3>1. trimmed < new.time /\ \A j \in DOMAIN rows : rows[j].time < new.time
      <4>1. trimmed <= clock /\ clock \in Nat /\ trimmed \in Nat
        BY Numbers DEF TypeOK
      <4>. QED  BY <1>4, <4>1, Numbers DEF Order, Dated
    <3>. QED  BY <1>5, <3>1 DEF Order, UnsavedAreNewer
  <2>. QED  BY <1>0, <2>2, <2>3, <2>4 DEF Order, UnsavedAreNewer, Ordered, RowsInOrder
<1>9. SavedUnlessFailed'
  <2> SUFFICES ASSUME NEW k \in DOMAIN ring', WindowStart' + k <= saved
               PROVE  \/ ring'[k] \in ToSet(rows)
                      \/ ring'[k].time <= trimmed \/ ring'[k].time \in failed
    BY <1>0 DEF SavedUnlessFailed
  <2>1. saved <= generation /\ generation < generation + 1
    BY <1>1 DEF TypeOK
  <2>2. k + o \in DOMAIN ring /\ ring'[k] = ring[k + o] /\ WindowStart' + k = WindowStart + (k + o)
    BY <1>1, <1>5, <2>1
  <2>. QED  BY <1>0, <2>2 DEF SavedUnlessFailed
<1>10. Cleared'
  <2>1. \A r \in ToSet(ring') : r = new \/ r \in ToSet(ring)
    BY <1>5 DEF ToSet
  <2>2. new.time > forgotten[new.topic]
    BY <1>1, <1>4 DEF TypeOK
  <2>. QED  BY <1>0, <2>1, <2>2 DEF Cleared, ClearedStaysCleared, RingCleared
<1>. QED  BY <1>6, <1>7, <1>8, <1>9, <1>10

\* A batch, committed or rolled back: either way saved advances over exactly its records.
LEMMA BatchInv == Inv /\ FlushBatch => Inv'
<1> SUFFICES ASSUME Inv, FlushBatch PROVE Inv'
  OBVIOUS
<1> USE DEF Inv
<1> DEFINE start == saved - WindowStart
<1>0. /\ pc = "batch" /\ saved < pushed /\ saved' = saved + Len(Batch)
      /\ \/ rows' = rows \o Batch /\ UNCHANGED failed
         \/ failed' = failed \cup Times(Batch) /\ UNCHANGED rows
      /\ UNCHANGED <<ring, generation, pc, pushed, cont, clearing, clock,
                     forgotten, trimmed, requests, starts>>
  BY DEF FlushBatch
<1>a. /\ WindowStart \in Nat /\ saved \in Nat /\ generation \in Nat /\ WindowStart <= saved
      /\ pushed = generation /\ saved <= generation
  BY <1>0, Numbers DEF Window
<1>b. /\ Len(rows) \in Nat /\ DOMAIN rows = 1 .. Len(rows) /\ clock \in Nat
      /\ rows \in Seq(Message)
  BY Numbers DEF TypeOK
<1>c. \A k \in DOMAIN ring : k \in Nat
  BY Numbers
<1>1. PICK n \in 1 .. generation - saved :
        /\ Batch \in Seq(Message) /\ Len(Batch) = n
        /\ \A k \in 1 .. n : start + k \in DOMAIN ring /\ Batch[k] = ring[start + k]
  BY <1>0, BatchFacts
<1>2. /\ n \in Nat /\ start \in Nat /\ saved' = saved + n /\ saved' <= generation
      /\ WindowStart' = WindowStart /\ saved = WindowStart + start /\ saved' = WindowStart + (start + n)
  <2>1. WindowStart' = WindowStart
    BY <1>0 DEF WindowStart
  <2>. QED  BY <1>0, <1>1, <1>a, <2>1
<1> HIDE DEF start
<1>3. \A k \in 1 .. n : /\ Batch[k] \in ToSet(ring) /\ Batch[k].time \in Nat
                        /\ trimmed < Batch[k].time /\ Batch[k].time <= clock
                        /\ \A j \in DOMAIN rows : rows[j].time < Batch[k].time
                        /\ \A l \in 1 .. n : k < l => Batch[k].time < Batch[l].time
  <2> SUFFICES ASSUME NEW k \in 1 .. n
               PROVE  /\ Batch[k] \in ToSet(ring) /\ Batch[k].time \in Nat
                      /\ trimmed < Batch[k].time /\ Batch[k].time <= clock
                      /\ \A j \in DOMAIN rows : rows[j].time < Batch[k].time
                      /\ \A l \in 1 .. n : k < l => Batch[k].time < Batch[l].time
    OBVIOUS
  <2>1. start + k \in DOMAIN ring /\ Batch[k] = ring[start + k]
    BY <1>1
  <2>2. WindowStart + (start + k) > saved
    BY <1>a, <1>2
  <2>3. Batch[k] \in ToSet(ring)
    BY <2>1 DEF ToSet
  <2>4. Batch[k].time \in Nat /\ Batch[k].time <= clock
    BY <2>1, Numbers DEF Order, Dated
  <2>5. trimmed < Batch[k].time /\ \A j \in DOMAIN rows : rows[j].time < Batch[k].time
    BY <2>1, <2>2 DEF Order, UnsavedAreNewer
  <2>6. \A l \in 1 .. n : k < l => Batch[k].time < Batch[l].time
    <3> SUFFICES ASSUME NEW l \in 1 .. n, k < l PROVE Batch[k].time < Batch[l].time
      OBVIOUS
    <3>1. start + l \in DOMAIN ring /\ Batch[l] = ring[start + l] /\ start + k < start + l
      BY <1>1, <1>2
    <3>. QED  BY <2>1, <3>1 DEF Order, UnsavedAreNewer, Ordered
  <2>. QED  BY <2>3, <2>4, <2>5, <2>6
<1>4. ASSUME NEW k \in DOMAIN ring, WindowStart + k > saved'
      PROVE  /\ WindowStart + k > saved
             /\ \A a \in 1 .. n : Batch[a].time < ring[k].time
  <2>1. k \in Nat /\ WindowStart \in Nat /\ saved \in Nat
    BY Numbers
  <2>2. WindowStart + k > saved /\ k > start + n
    BY <1>2, <1>4, <2>1
  <2>3. ASSUME NEW a \in 1 .. n PROVE Batch[a].time < ring[k].time
    <3>1. start + a \in DOMAIN ring /\ Batch[a] = ring[start + a]
      BY <1>1
    <3>2. start + a < k
      BY <1>2, <2>1, <2>2
    <3>. QED  BY <3>1, <3>2 DEF Order, UnsavedAreNewer, Ordered
  <2>. QED  BY <2>2, <2>3
<1>5. ASSUME NEW k \in DOMAIN ring, WindowStart + k <= saved', ~(WindowStart + k <= saved)
      PROVE  \E a \in 1 .. n : ring[k] = Batch[a]
  <2>1. k \in Nat /\ WindowStart \in Nat /\ saved \in Nat
    BY Numbers
  <2>2. k - start \in 1 .. n /\ start + (k - start) = k
    BY <1>2, <1>5, <2>1
  <2>3. Batch[k - start] = ring[start + (k - start)]
    BY <1>1, <2>2
  <2>. QED  BY <2>2, <2>3
<1>6. CASE rows' = rows \o Batch /\ UNCHANGED failed
  <2>1. /\ rows' \in Seq(Message) /\ Len(rows') = Len(rows) + n
        /\ \A j \in 1 .. Len(rows) + n :
               rows'[j] = IF j <= Len(rows) THEN rows[j] ELSE Batch[j - Len(rows)]
    BY <1>1, <1>6, ConcatProperties DEF TypeOK
  <2>2. \A j \in DOMAIN rows' :
          \/ j \in DOMAIN rows /\ rows'[j] = rows[j]
          \/ j > Len(rows) /\ j - Len(rows) \in 1 .. n /\ rows'[j] = Batch[j - Len(rows)]
    <3> DEFINE l == Len(rows)
    <3>1. l \in Nat /\ DOMAIN rows = 1 .. l /\ DOMAIN rows' = 1 .. l + n
      BY <1>b, <2>1
    <3>2. \A j \in 1 .. l + n : rows'[j] = IF j <= l THEN rows[j] ELSE Batch[j - l]
      BY <2>1
    <3>3. \A j \in 1 .. l + n : j \in 1 .. l \/ (j > l /\ j - l \in 1 .. n)
      BY <1>2, <3>1
    <3> HIDE DEF l
    <3>4. \A j \in DOMAIN rows' :
            \/ j \in DOMAIN rows /\ rows'[j] = rows[j]
            \/ j > l /\ j - l \in 1 .. n /\ rows'[j] = Batch[j - l]
      BY <1>2, <3>1, <3>2, <3>3
    <3>. QED  BY <3>4 DEF l
  <2>3. \A r \in ToSet(rows) : r \in ToSet(rows')
    <3> SUFFICES ASSUME NEW j \in DOMAIN rows PROVE rows[j] \in ToSet(rows')
      BY DEF ToSet
    <3>1. j \in DOMAIN rows' /\ rows'[j] = rows[j]
      BY <1>b, <1>2, <2>1
    <3>. QED  BY <3>1 DEF ToSet
  <2>4. \A a \in 1 .. n : Batch[a] \in ToSet(rows')
    <3> SUFFICES ASSUME NEW a \in 1 .. n PROVE Batch[a] \in ToSet(rows')
      OBVIOUS
    <3> DEFINE l == Len(rows)
    <3>1. l \in Nat
      BY Numbers
    <3>2. \A j \in 1 .. l + n : rows'[j] = IF j <= l THEN rows[j] ELSE Batch[j - l]
      BY <2>1
    <3>3. DOMAIN rows' = 1 .. l + n
      BY <2>1
    <3> HIDE DEF l
    <3>4. l + a \in 1 .. l + n /\ ~(l + a <= l) /\ (l + a) - l = a
      BY <3>1, <1>2
    <3>5. rows'[l + a] = Batch[a]
      BY <3>2, <3>4
    <3>. QED  BY <3>3, <3>4, <3>5 DEF ToSet
  <2>5. TypeOK'
    <3>1. saved' \in 0 .. generation'
      BY <1>0, <1>2, <1>a
    <3>. QED  BY <1>0, <1>6, <2>1, <3>1 DEF TypeOK
  <2>6. Window'
    BY <1>0, <1>2, <1>a DEF Window
  <2>7. Order'
    <3>1. RowsInOrder'
      <4> SUFFICES ASSUME NEW j \in DOMAIN rows', NEW k \in DOMAIN rows', j < k
                   PROVE  rows'[j].time < rows'[k].time
        BY DEF RowsInOrder
      <4>1. CASE j \in DOMAIN rows /\ rows'[j] = rows[j]
        BY <1>3, <2>2, <4>1 DEF Order, RowsInOrder
      <4>2. CASE j > Len(rows) /\ j - Len(rows) \in 1 .. n /\ rows'[j] = Batch[j - Len(rows)]
        <5>1. /\ k - Len(rows) \in 1 .. n /\ rows'[k] = Batch[k - Len(rows)]
              /\ j - Len(rows) < k - Len(rows)
          BY <2>1, <2>2, <4>2, Numbers, SMTT(30)
        <5>. QED  BY <1>3, <4>2, <5>1
      <4>. QED  BY <2>2, <4>1, <4>2
    <3>2. Dated'
      BY <1>0, <1>3, <2>2 DEF Order, Dated
    <3>3. UnsavedAreNewer'
      BY <1>0, <1>2, <1>4, <2>2 DEF Order, UnsavedAreNewer, Ordered
    <3>. QED  BY <3>1, <3>2, <3>3 DEF Order
  <2>8. SavedUnlessFailed'
    BY <1>0, <1>2, <1>5, <1>6, <2>3, <2>4 DEF SavedUnlessFailed
  <2>9. Cleared'
    <3>1. \A r \in ToSet(rows') : r \in ToSet(rows) \/ r \in ToSet(ring)
      BY <1>3, <2>2 DEF ToSet
    <3>. QED  BY <1>0, <3>1 DEF Cleared, ClearedStaysCleared, RingCleared
  <2>. QED  BY <2>5, <2>6, <2>7, <2>8, <2>9
<1>7. CASE failed' = failed \cup Times(Batch) /\ UNCHANGED rows
  <2>1. \A a \in 1 .. n : Batch[a].time \in Times(Batch)
    BY <1>1 DEF Times, ToSet
  <2>2. Times(Batch) \subseteq 1 .. clock
    <3> SUFFICES ASSUME NEW a \in 1 .. n PROVE Batch[a].time \in 1 .. clock
      BY <1>1 DEF Times, ToSet
    <3>1. Batch[a] \in Message /\ Batch[a].time <= clock
      BY <1>1, <1>3
    <3>. QED  BY <3>1, Numbers, Sizes DEF Message
  <2>3. TypeOK'
    <3>1. saved' \in 0 .. generation'
      BY <1>0, <1>2, <1>a
    <3>2. failed' \subseteq 1 .. clock'
      BY <1>0, <1>7, <2>2 DEF TypeOK
    <3>. QED  BY <1>0, <1>7, <3>1, <3>2 DEF TypeOK
  <2>4. Window'
    BY <1>0, <1>2, <1>a DEF Window
  <2>5. Order'
    BY <1>0, <1>2, <1>4, <1>7 DEF Order, RowsInOrder, Dated, UnsavedAreNewer, Ordered
  <2>6. SavedUnlessFailed'
    BY <1>0, <1>2, <1>5, <1>7, <2>1 DEF SavedUnlessFailed
  <2>7. Cleared'
    BY <1>0, <1>7 DEF Cleared, ClearedStaysCleared, RingCleared
  <2>. QED  BY <2>3, <2>4, <2>5, <2>6, <2>7
<1>. QED  BY <1>0, <1>6, <1>7

\* db_trim_messages: what it drops is older than all that stays, and than all that is unsaved.
LEMMA TrimInv == Inv /\ FlushTrim => Inv'
<1> SUFFICES ASSUME Inv, FlushTrim PROVE Inv'
  OBVIOUS
<1> USE DEF Inv
<1>0. /\ pc = "batch" /\ saved = pushed /\ pc' = cont /\ pushed' = 0 /\ cont' = "frame"
      /\ \/ /\ rows' = Newest(MaxRows)
            /\ trimmed' = IF Len(rows) > MaxRows THEN rows[Len(rows) - MaxRows].time ELSE trimmed
         \/ UNCHANGED <<rows, trimmed>>
      /\ UNCHANGED <<ring, generation, saved, clearing, clock, forgotten, failed, requests, starts>>
  BY DEF FlushTrim
<1>1. saved = generation /\ WindowStart' = WindowStart /\ WindowStart \in Nat
  BY <1>0, Numbers DEF Window, WindowStart
<1>2. Window'
  BY <1>0, <1>1 DEF Window, TypeOK
<1>3. \A k \in DOMAIN ring : ~(WindowStart + k > saved)
  <2>1. \A k \in DOMAIN ring : k \in Nat /\ k <= Len(ring)
    BY Numbers
  <2>. QED  BY <1>1, <2>1, Numbers
<1>4. CASE UNCHANGED <<rows, trimmed>>
  <2>1. TypeOK'
    BY <1>0, <1>4 DEF TypeOK
  <2>2. Order'
    BY <1>0, <1>1, <1>3, <1>4 DEF Order, RowsInOrder, Dated, UnsavedAreNewer, Ordered
  <2>3. SavedUnlessFailed' /\ Cleared'
    BY <1>0, <1>1, <1>4 DEF SavedUnlessFailed, Cleared, ClearedStaysCleared, RingCleared, TypeOK
  <2>. QED  BY <1>2, <2>1, <2>2, <2>3
<1>5. CASE /\ rows' = Newest(MaxRows)
           /\ trimmed' = IF Len(rows) > MaxRows THEN rows[Len(rows) - MaxRows].time ELSE trimmed
  <2> DEFINE d == IF Len(rows) > MaxRows THEN Len(rows) - MaxRows ELSE 0
  <2>1. /\ rows' \in Seq(Message) /\ Len(rows') = Len(rows) - d
        /\ \A k \in 1 .. Len(rows) - d : rows'[k] = rows[d + k]
    BY <1>5, NewestFacts, Sizes DEF TypeOK
  <2>2. /\ d \in 0 .. Len(rows) /\ DOMAIN rows = 1 .. Len(rows)
        /\ trimmed' = IF d = 0 THEN trimmed ELSE rows[d].time
    <3>1. /\ Len(rows) \in Nat /\ DOMAIN rows = 1 .. Len(rows) /\ MaxRows \in Nat /\ MaxRows >= 1
      BY Numbers, Sizes
    <3>2. CASE Len(rows) > MaxRows
      <4>1. d = Len(rows) - MaxRows /\ trimmed' = rows[Len(rows) - MaxRows].time
        BY <1>5, <3>2
      <4> HIDE DEF d
      <4>2. d \in 0 .. Len(rows) /\ d # 0
        <5>1. Len(rows) \in Nat /\ MaxRows \in Nat /\ MaxRows >= 1 /\ d = Len(rows) - MaxRows
          BY <3>1, <4>1
        <5>. QED  BY <5>1, <3>2
      <4>. QED  BY <3>1, <4>1, <4>2
    <3>3. CASE ~(Len(rows) > MaxRows)
      BY <1>5, <3>1, <3>3
    <3>. QED  BY <3>2, <3>3
  <2> HIDE DEF d
  <2>3. \A k \in DOMAIN rows' : d + k \in DOMAIN rows /\ rows'[k] = rows[d + k] /\ k >= 1 /\ k \in Nat
    BY <2>1, <2>2
  <2>4. \A j \in DOMAIN rows : j <= d \/ (j - d \in DOMAIN rows' /\ rows'[j - d] = rows[j])
    BY <2>1, <2>2
  <2>5. trimmed' \in 0 .. clock /\ trimmed <= trimmed'
    <3>1. trimmed \in 0 .. clock /\ trimmed \in Nat /\ clock \in Nat
      BY Numbers DEF TypeOK
    <3>2. CASE d = 0
      BY <2>2, <3>1, <3>2
    <3>3. CASE d # 0
      <4>1. d \in DOMAIN rows /\ trimmed' = rows[d].time
        BY <2>2, <3>3
      <4>2. trimmed < rows[d].time /\ rows[d].time <= clock /\ rows[d].time \in Nat
        BY <4>1, Numbers DEF Order, Dated
      <4>. QED  BY <3>1, <4>1, <4>2
    <3>. QED  BY <3>2, <3>3
  <2>6. \A j \in DOMAIN rows : j <= d => rows[j].time <= trimmed'
    <3> SUFFICES ASSUME NEW j \in DOMAIN rows, j <= d PROVE rows[j].time <= trimmed'
      OBVIOUS
    <3>1. d \in DOMAIN rows /\ trimmed' = rows[d].time
      BY <2>2
    <3>2. j = d \/ j < d
      BY <2>2
    <3>. QED  BY <3>1, <3>2, Numbers DEF Order, RowsInOrder
  <2>7. TypeOK'
    BY <1>0, <2>1, <2>5 DEF TypeOK
  <2>8. Order'
    <3>1. RowsInOrder'
      <4> SUFFICES ASSUME NEW j \in DOMAIN rows', NEW k \in DOMAIN rows', j < k
                   PROVE  rows'[j].time < rows'[k].time
        BY DEF RowsInOrder
      <4>1. /\ d + j \in DOMAIN rows /\ d + k \in DOMAIN rows /\ d + j < d + k
            /\ rows'[j] = rows[d + j] /\ rows'[k] = rows[d + k]
        BY <2>2, <2>3
      <4>. QED  BY <4>1 DEF Order, RowsInOrder
    <3>2. Dated'
      <4>1. ASSUME NEW k \in DOMAIN rows' PROVE trimmed' < rows'[k].time /\ rows'[k].time <= clock
        <5>1. d + k \in DOMAIN rows /\ rows'[k] = rows[d + k] /\ d < d + k
          BY <2>2, <2>3
        <5>2. CASE d = 0
          BY <2>2, <5>1, <5>2 DEF Order, Dated
        <5>3. CASE d # 0
          <6>1. d \in DOMAIN rows
            BY <2>2, <5>3
          <6>. QED  BY <2>2, <5>1, <5>3, <6>1 DEF Order, Dated, RowsInOrder
        <5>. QED  BY <5>2, <5>3
      <4>. QED  BY <1>0, <4>1 DEF Order, Dated
    <3>3. UnsavedAreNewer'
      BY <1>0, <1>1, <1>3 DEF Order, UnsavedAreNewer, Ordered
    <3>. QED  BY <3>1, <3>2, <3>3 DEF Order
  <2>9. \A r \in ToSet(rows) : r \in ToSet(rows') \/ r.time <= trimmed'
    BY <2>4, <2>6 DEF ToSet
  <2>10. SavedUnlessFailed'
    <3> SUFFICES ASSUME NEW k \in DOMAIN ring, WindowStart + k <= saved
                 PROVE  \/ ring[k] \in ToSet(rows') \/ ring[k].time <= trimmed'
                        \/ ring[k].time \in failed
      BY <1>0, <1>1 DEF SavedUnlessFailed
    <3>1. ring[k] \in ToSet(rows) \/ ring[k].time <= trimmed \/ ring[k].time \in failed
      BY <1>0 DEF SavedUnlessFailed
    <3>2. ring[k].time \in Nat /\ trimmed \in Nat /\ trimmed' \in Nat
      BY <2>5, Numbers
    <3>. QED  BY <2>5, <2>9, <3>1, <3>2
  <2>11. Cleared'
    <3>1. \A r \in ToSet(rows') : r \in ToSet(rows)
      BY <2>3 DEF ToSet
    <3>. QED  BY <1>0, <3>1 DEF Cleared, ClearedStaysCleared, RingCleared, TypeOK
  <2>. QED  BY <1>2, <2>7, <2>8, <2>10, <2>11
<1>. QED  BY <1>0, <1>4, <1>5

\* db_delete_topic_messages, when the DELETE goes through and when it fails.
LEMMA DeleteInv == Inv /\ ClearRows => Inv'
<1> SUFFICES ASSUME Inv, ClearRows PROVE Inv'
  OBVIOUS
<1> USE DEF Inv
<1>0. /\ pc = "delete" /\ pc' = "remove"
      /\ \/ /\ rows' = RowsWithout(clearing)
            /\ forgotten' = [forgotten EXCEPT ![clearing] = clock]
         \/ UNCHANGED <<rows, forgotten>>
      /\ UNCHANGED <<ring, generation, saved, pushed, cont, clearing, clock, trimmed, failed,
                     requests, starts>>
  BY DEF ClearRows
<1>1. Window' /\ WindowStart' = WindowStart
  BY <1>0 DEF Window, WindowStart
<1>2. CASE UNCHANGED <<rows, forgotten>>
  <2>1. TypeOK'
    BY <1>0, <1>2 DEF TypeOK
  <2>2. Order'
    BY <1>0, <1>1, <1>2 DEF Order, RowsInOrder, Dated, UnsavedAreNewer, Ordered
  <2>3. SavedUnlessFailed' /\ Cleared'
    BY <1>0, <1>1, <1>2 DEF SavedUnlessFailed, Cleared, ClearedStaysCleared, RingCleared
  <2>. QED  BY <1>1, <2>1, <2>2, <2>3
<1>3. CASE rows' = RowsWithout(clearing) /\ forgotten' = [forgotten EXCEPT ![clearing] = clock]
  <2>1. /\ rows' \in Seq(Message)
        /\ \A j \in DOMAIN rows' : rows'[j].topic # clearing /\ rows'[j] \in ToSet(rows)
        /\ \A r \in ToSet(rows) : r.topic # clearing => r \in ToSet(rows')
        /\ Ordered(rows) => Ordered(rows')
    <3>1. rows' = Without(rows, clearing) /\ rows \in Seq(Message)
      BY <1>3, RingWithout DEF TypeOK
    <3>. QED  BY <3>1, WithoutFacts
  <2>2. TypeOK'
    BY <1>0, <1>3, <2>1, Numbers DEF TypeOK
  <2>3. \A j \in DOMAIN rows' : \E i \in DOMAIN rows : rows'[j] = rows[i]
    BY <2>1 DEF ToSet
  <2>4. Order'
    <3>1. RowsInOrder'
      BY <2>1 DEF Order, RowsInOrder, Ordered
    <3>2. Dated'
      BY <1>0, <2>3 DEF Order, Dated
    <3>3. UnsavedAreNewer'
      BY <1>0, <1>1, <2>3 DEF Order, UnsavedAreNewer, Ordered
    <3>. QED  BY <3>1, <3>2, <3>3 DEF Order
  <2>5. SavedUnlessFailed'
    BY <1>0, <1>1, <2>1 DEF SavedUnlessFailed
  <2>6. Cleared'
    <3>1. \A r \in ToSet(rows') : r \in ToSet(rows) /\ r.topic # clearing
      BY <2>1 DEF ToSet
    <3>2. \A t : t # clearing => forgotten'[t] = forgotten[t]
      BY <1>3 DEF TypeOK
    <3>3. \A r \in ToSet(rows') : r.time > forgotten'[r.topic]
      BY <3>1, <3>2 DEF Cleared, ClearedStaysCleared
    <3>4. \A r \in ToSet(ring) : r.topic # clearing => r.time > forgotten'[r.topic]
      BY <1>0, <3>2 DEF Cleared, ClearedStaysCleared
    <3>. QED  BY <1>0, <3>3, <3>4 DEF Cleared, ClearedStaysCleared, RingCleared
  <2>. QED  BY <1>1, <2>2, <2>4, <2>5, <2>6
<1>. QED  BY <1>0, <1>2, <1>3

\* message_buf_remove_topic: everything was saved before, so that what stays may count as saved.
LEMMA RemoveInv == Inv /\ ClearRing => Inv'
<1> SUFFICES ASSUME Inv, ClearRing PROVE Inv'
  OBVIOUS
<1> USE DEF Inv
<1>0. /\ pc = "remove" /\ pc' = "frame" /\ clearing' = Unset
      /\ ring' = Without(ring, clearing)
      /\ generation' \in {generation, generation + 1}
      /\ saved' = generation'
      /\ UNCHANGED <<rows, pushed, cont, clock, forgotten, trimmed, failed, requests, starts>>
  BY RingWithout DEF ClearRing, ghosts
<1>1. /\ ring' \in Seq(Message) /\ Len(ring') <= Len(ring)
      /\ \A j \in DOMAIN ring' : ring'[j].topic # clearing /\ ring'[j] \in ToSet(ring)
      /\ Ordered(ring) => Ordered(ring')
  <2>1. ring \in Seq(Message)
    BY DEF TypeOK
  <2>. QED  BY <1>0, <2>1, WithoutFacts
<1>2. /\ Len(ring') \in Nat /\ DOMAIN ring' = 1 .. Len(ring') /\ generation' \in Nat
      /\ Len(ring') <= generation' /\ Len(ring') <= RingCapacity
      /\ WindowStart' \in Nat /\ WindowStart' = generation' - Len(ring')
  <2>1. /\ Len(ring') \in Nat /\ DOMAIN ring' = 1 .. Len(ring') /\ Len(ring) <= RingCapacity
    BY <1>1 DEF TypeOK
  <2>2. generation' \in Nat /\ Len(ring') <= generation' /\ Len(ring') <= RingCapacity
    BY <1>0, <1>1, <2>1, Numbers, Sizes
  <2>. QED  BY <2>1, <2>2 DEF WindowStart
<1>3. \A k \in DOMAIN ring' : ~(WindowStart' + k > saved')
  BY <1>0, <1>2
<1>4. \A j \in DOMAIN ring' : \E i \in DOMAIN ring : ring'[j] = ring[i]
  BY <1>1 DEF ToSet
<1>5. TypeOK'
  <2>1. clearing' \in Topics
    BY <1>0, TopicsAssumption DEF Unset
  <2>. QED  BY <1>0, <1>1, <1>2, <2>1 DEF TypeOK
<1>6. Window'
  BY <1>0 DEF Window
<1>7. Order'
  <2>1. Dated'
    BY <1>0, <1>4 DEF Order, Dated
  <2>. QED  BY <1>0, <1>1, <1>3, <2>1 DEF Order, RowsInOrder, UnsavedAreNewer, Ordered
<1>8. SavedUnlessFailed'
  <2> SUFFICES ASSUME NEW j \in DOMAIN ring'
               PROVE  \/ ring'[j] \in ToSet(rows) \/ ring'[j].time <= trimmed
                      \/ ring'[j].time \in failed
    BY <1>0 DEF SavedUnlessFailed
  <2>1. PICK i \in DOMAIN ring : ring'[j] = ring[i] /\ ring[i].topic # clearing
    BY <1>1, <1>4
  <2>2. WindowStart + i <= saved
    BY <1>0, Numbers DEF Window
  <2>. QED  BY <1>0, <2>1, <2>2 DEF SavedUnlessFailed
<1>9. Cleared'
  <2>1. \A r \in ToSet(ring') : r \in ToSet(ring) /\ r.topic # clearing
    BY <1>1 DEF ToSet
  <2>. QED  BY <1>0, <2>1 DEF Cleared, ClearedStaysCleared, RingCleared
<1>. QED  BY <1>5, <1>6, <1>7, <1>8, <1>9

\* Disconnect and the end of the process leave nothing in memory to be wrong about.
LEMMA EmptyRingInv ==
    ASSUME Inv, ring' = <<>>, saved' = generation', generation' \in Nat,
           pc' \in {"frame", "down"}, pushed' \in {pushed, 0}, cont' \in {cont, "frame"},
           clearing' \in Topics, requests' \in 0 .. MaxRequests, UNCHANGED <<rows, clock, ghosts, starts>>
    PROVE  Inv'
<1> USE DEF Inv, ghosts
<1>1. TypeOK'
  BY Sizes DEF TypeOK
<1>2. Window' /\ Order'
  BY DEF Window, Order, RowsInOrder, Dated, UnsavedAreNewer, Ordered
<1>3. SavedUnlessFailed' /\ Cleared'
  BY DEF SavedUnlessFailed, Cleared, ClearedStaysCleared, RingCleared, ToSet
<1>. QED  BY <1>1, <1>2, <1>3

\* Every step keeps the invariant.
LEMMA StepInv == Inv /\ [Next]_vars => Inv'
<1> SUFFICES ASSUME Inv, [Next]_vars PROVE Inv'
  OBVIOUS
<1> USE DEF ghosts
<1>1. CASE Start
  BY <1>1, StartInv
<1>2. CASE Crash
  <2>1. Unset \in Topics /\ requests' \in 0 .. MaxRequests
    BY <1>2, TopicsAssumption DEF Unset, Crash, Inv, TypeOK
  <2>. QED  BY <1>2, <2>1, EmptyRingInv DEF Crash
<1>3. CASE Disconnect
  <2>1. ring' = <<>> /\ generation' = generation + 1 /\ saved' = generation'
    BY <1>3 DEF Disconnect, Ring!Clear
  <2>2. generation' \in Nat /\ requests' \in 0 .. MaxRequests /\ clearing' \in Topics
    BY <1>3, <2>1, Sizes DEF Disconnect, Inv, TypeOK
  <2>. QED  BY <1>3, <2>1, <2>2, EmptyRingInv DEF Disconnect
<1>4. CASE Quit \/ FlushTimer
  <2>1. PICK next \in {"frame", "down"} :
          /\ pc = "frame" /\ FlushBegin(next)
          /\ UNCHANGED <<ring, generation, rows, clearing, clock, ghosts, requests, starts>>
    BY <1>4 DEF Quit, FlushTimer
  <2>. QED  BY <2>1, BeginInv DEF Inv, TypeOK
<1>5. CASE \E t \in Topics : ClearTopic(t)
  <2>1. PICK t \in Topics : ClearTopic(t)
    BY <1>5
  <2>2. /\ pc = "frame" /\ FlushBegin("delete") /\ clearing' \in Topics
        /\ UNCHANGED <<ring, generation, rows, clock, ghosts, starts>>
    BY <2>1 DEF ClearTopic
  <2>3. requests' \in 0 .. MaxRequests /\ starts' \in 0 .. MaxStarts
    BY <2>1, Sizes DEF ClearTopic, Inv, TypeOK
  <2>. QED  BY <2>2, <2>3, BeginInv
<1>6. CASE \E t \in Topics : Receive(t)
  BY <1>6, ReceiveInv
<1>7. CASE Flush
  BY <1>7, BatchInv, TrimInv DEF Flush
<1>8. CASE ClearRows
  BY <1>8, DeleteInv
<1>9. CASE ClearRing
  BY <1>9, RemoveInv
<1>10. CASE UNCHANGED vars
  BY <1>10 DEF vars, Inv, TypeOK, Window, Order, RowsInOrder, Dated, UnsavedAreNewer, Ordered,
               SavedUnlessFailed, Cleared, ClearedStaysCleared, RingCleared, WindowStart
<1>11. CASE Off
  BY <1>10, <1>11 DEF Off
<1>. QED
  BY <1>1, <1>2, <1>3, <1>4, <1>5, <1>6, <1>7, <1>8, <1>9, <1>10, <1>11 DEF Next, User

\* The invariant holds in every reachable state, restarts included.
LEMMA AlwaysInv == Spec => []Inv
  BY InitInv, StepInv, PTL DEF Spec

-----------------------------------------------------------------------------
\* Ring, table and counters keep their types: the ring and what is loaded into it never exceed
\* its capacity, and history_saved never runs ahead of the generation.
THEOREM TypeCorrect == Spec => []TypeOK
  BY AlwaysInv, PTL DEF Inv

\* No message gets two rows and none is inserted out of order, whatever was loaded, evicted,
\* cleared, failed or interrupted (db_flush_history, db.c).
THEOREM RowsStayInOrder == Spec => []RowsInOrder
  BY AlwaysInv, PTL DEF Inv, Order

\* A record that counts as saved (history_saved) is missing in the table only if it was trimmed,
\* cleared or in a batch that failed, after every eviction, disconnect and restart.
THEOREM MissingRowsFailed == Spec => []SavedUnlessFailed
  BY AlwaysInv, PTL DEF Inv

\* A topic that has been cleared stays cleared, also across restarts.
THEOREM ClearIsFinal == Spec => []ClearedStaysCleared
  BY AlwaysInv, PTL DEF Inv, Cleared

\* A row goes only with a Clear History of its topic or in a trim that leaves MaxRows newer ones.
THEOREM RowsAreKept == Spec => DiskKeeps
<1> DEFINE Keeps == \A r \in ToSet(rows) \ ToSet(rows') :
                        \/ pc = "delete" /\ r.topic = clearing
                        \/ Len(rows') = MaxRows /\ \A s \in ToSet(rows') : r.time < s.time
<1>1. Inv /\ [Next]_vars => [Keeps]_vars
  <2> SUFFICES ASSUME Inv, Next PROVE Keeps
    OBVIOUS
  <2>1. CASE UNCHANGED rows
    BY <2>1
  <2>2. CASE FlushBatch
    <3>1. rows' = rows \/ rows' = rows \o Batch
      BY <2>2 DEF FlushBatch
    <3>2. CASE rows' = rows \o Batch
      <4>1. Batch \in Seq(Message) /\ rows \in Seq(Message)
        BY <2>2, BatchFacts DEF FlushBatch, Inv, TypeOK
      <4>2. /\ rows' \in Seq(Message) /\ Len(rows') = Len(rows) + Len(Batch)
            /\ \A j \in 1 .. Len(rows) + Len(Batch) :
                   rows'[j] = IF j <= Len(rows) THEN rows[j] ELSE Batch[j - Len(rows)]
        BY <3>2, <4>1, ConcatProperties
      <4>3. \A j \in DOMAIN rows : j \in DOMAIN rows' /\ rows'[j] = rows[j]
        BY <4>1, <4>2
      <4>. QED  BY <4>3 DEF ToSet
    <3>. QED  BY <3>1, <3>2
  <2>3. CASE FlushTrim /\ ~UNCHANGED rows
    <3> DEFINE d == IF Len(rows) > MaxRows THEN Len(rows) - MaxRows ELSE 0
    <3>1. /\ rows' \in Seq(Message) /\ Len(rows') = Len(rows) - d
          /\ \A k \in 1 .. Len(rows) - d : rows'[k] = rows[d + k]
      BY <2>3, NewestFacts, Sizes DEF FlushTrim, Inv, TypeOK
    <3>2. Len(rows) \in Nat /\ d \in 0 .. Len(rows) /\ DOMAIN rows = 1 .. Len(rows)
      BY Numbers, Sizes DEF Inv
    <3>3. d # 0 => Len(rows') = MaxRows
      <4>1. MaxRows \in Nat /\ Len(rows) \in Nat
        BY <3>2, Sizes
      <4>2. d # 0 => d = Len(rows) - MaxRows
        OBVIOUS
      <4>3. Len(rows') = Len(rows) - d
        BY <3>1
      <4> HIDE DEF d
      <4>. QED  BY <4>1, <4>2, <4>3
    <3> HIDE DEF d
    <3>4. \A k \in DOMAIN rows' : d + k \in DOMAIN rows /\ rows'[k] = rows[d + k] /\ d < d + k
      BY <3>1, <3>2
    <3>5. \A j \in DOMAIN rows : j <= d \/ (j - d \in DOMAIN rows' /\ rows'[j - d] = rows[j])
      BY <3>1, <3>2
    <3>6. ASSUME NEW j \in DOMAIN rows, rows[j] \notin ToSet(rows')
          PROVE  Len(rows') = MaxRows /\ \A s \in ToSet(rows') : rows[j].time < s.time
      <4>1. j <= d /\ d # 0
        BY <3>2, <3>5, <3>6 DEF ToSet
      <4>2. \A k \in DOMAIN rows' : j < d + k
        BY <3>2, <3>4, <4>1
      <4>3. \A k \in DOMAIN rows' : rows[j].time < rows'[k].time
        BY <3>4, <4>2 DEF Inv, Order, RowsInOrder
      <4>. QED  BY <3>3, <4>1, <4>3 DEF ToSet
    <3>. QED  BY <3>6 DEF ToSet
  <2>4. CASE ClearRows /\ ~UNCHANGED rows
    <3>1. \A r \in ToSet(rows) : r.topic # clearing => r \in ToSet(rows')
      <4>1. rows' = Without(rows, clearing) /\ rows \in Seq(Message)
        BY <2>4, RingWithout DEF ClearRows, Inv, TypeOK
      <4>. QED  BY <4>1, WithoutFacts
    <3>. QED  BY <2>4, <3>1 DEF ClearRows
  <2>5. \/ FlushBatch \/ FlushTrim \/ ClearRows \/ UNCHANGED rows
    BY DEF Next, User, Flush, Start, Crash, Off, Disconnect, Quit, ClearTopic, Receive, FlushTimer,
           ClearRing, vars
  <2>. QED  BY <2>1, <2>2, <2>3, <2>4, <2>5
<1>2. Spec => [][Keeps]_vars
  BY <1>1, AlwaysInv, PTL DEF Spec
<1>. QED  BY <1>2 DEF DiskKeeps

=============================================================================
