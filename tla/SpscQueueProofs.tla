-------------------------- MODULE SpscQueueProofs --------------------------
(***************************************************************************)
(* Proofs about SpscQueue, for every capacity, every set of messages and   *)
(* every drain limit.                                                      *)
(***************************************************************************)
EXTENDS SpscQueue, SequenceTheorems, TLAPS

-----------------------------------------------------------------------------
(* The inductive invariant.                                                *)

(* A push in progress has a slot to write to, and a pop in progress an     *)
(* element to read.                                                        *)
InProgress ==
    /\ ppc # "idle" => Count(headView, tail) < Capacity /\ elem \in Elements
    /\ cpc \in {"copy", "publish"} => head # tailView /\ drained < DrainMax

(* The slots between head and tail hold complete elements; the slot of a   *)
(* push that is about to publish holds its element.                        *)
SlotsHold ==
    /\ \A s \in Slots : Count(head, s) < Count(head, tail) => buffer[s] \in Elements
    /\ ppc = "publish" => buffer[tail] = elem
    /\ NoTornPop

IndInv == TypeOK /\ ViewsAreSafe /\ InProgress /\ SlotsHold

-----------------------------------------------------------------------------
(* The next index without the remainder: back to slot 0 after the last. *)
LEMMA IncStep ==
    ASSUME NEW i \in Slots
    PROVE  Inc(i) = IF i = Capacity THEN 0 ELSE i + 1
<1>1. CASE i = Capacity
  BY <1>1, CapacityAssumption DEF Inc, Slots
<1>2. CASE i # Capacity
  BY <1>2, CapacityAssumption DEF Inc, Slots
<1> QED BY <1>1, <1>2

(* The next index is a slot. *)
LEMMA IncSlot ==
    ASSUME NEW i \in Slots
    PROVE  Inc(i) \in Slots
BY IncStep, CapacityAssumption DEF Slots

(* spsc_queue_count is between 0 and the capacity, and 0 only for equal    *)
(* indices.                                                                *)
LEMMA CountRange ==
    ASSUME NEW a \in Slots, NEW b \in Slots
    PROVE  /\ Count(a, b) \in 0 .. Capacity
           /\ Count(a, b) = 0 <=> a = b
BY CapacityAssumption DEF Count, Slots

(* Storing the next tail adds one element, unless the ring is full. *)
LEMMA CountIncTail ==
    ASSUME NEW a \in Slots, NEW b \in Slots, Count(a, b) # Capacity
    PROVE  Count(a, Inc(b)) = Count(a, b) + 1
BY IncStep, CapacityAssumption DEF Count, Slots

(* Storing the next head removes one, unless the ring is empty. *)
LEMMA CountIncHead ==
    ASSUME NEW a \in Slots, NEW b \in Slots, a # b
    PROVE  Count(Inc(a), b) = Count(a, b) - 1
BY IncStep, CapacityAssumption DEF Count, Slots

(* The initial state satisfies the invariant. *)
LEMMA InitInv == Init => IndInv
<1> SUFFICES ASSUME Init PROVE IndInv
  OBVIOUS
<1> USE CapacityAssumption, DrainMaxAssumption DEF Init, Slots
<1>1. TypeOK
  BY DEF TypeOK
<1>2. ViewsAreSafe /\ InProgress /\ SlotsHold
  BY DEF ViewsAreSafe, InProgress, SlotsHold, Count, NoTornPop
<1> QED BY <1>1, <1>2 DEF IndInv

(* Every step preserves it: one step of the proof per action. *)
LEMMA NextInv == IndInv /\ [Next]_vars => IndInv'
<1> SUFFICES ASSUME IndInv, [Next]_vars PROVE IndInv'
  OBVIOUS
<1> USE CapacityAssumption, DrainMaxAssumption
<1>0. Inc(head) \in Slots /\ Inc(tail) \in Slots /\ Inc(headView) \in Slots /\ Inc(tailView) \in Slots
  BY IncSlot DEF IndInv, TypeOK
<1>i. \A i \in Slots : Inc(i) = IF i = Capacity THEN 0 ELSE i + 1
  BY IncStep
<1>1. ASSUME NEW e \in Elements, PushBegin(e) PROVE IndInv'
  <2> USE <1>1 DEF IndInv, PushBegin
  <2>1. TypeOK'
    BY DEF TypeOK
  <2>2. ViewsAreSafe'
    BY DEF ViewsAreSafe, Count
  <2>3. InProgress'
    BY <1>i DEF InProgress, SeemsFull, Count, ViewsAreSafe, TypeOK, Slots
  <2>4. SlotsHold'
    BY DEF SlotsHold, NoTornPop, Count, TypeOK, Slots
  <2> QED BY <2>1, <2>2, <2>3, <2>4
<1>2. ASSUME NEW e \in Elements, PushReject(e) PROVE IndInv'
  BY <1>2 DEF IndInv, PushReject, TypeOK, ViewsAreSafe, InProgress, SlotsHold, NoTornPop, Count
<1>3. CASE PushCopy
  <2> USE <1>3 DEF IndInv, PushCopy
  <2>1. TypeOK'
    BY DEF TypeOK, InProgress
  <2>2. ViewsAreSafe'
    BY DEF ViewsAreSafe, Count
  <2>3. InProgress'
    BY DEF InProgress, Count
  <2>4. SlotsHold'
    BY DEF SlotsHold, NoTornPop, Count, TypeOK, Slots, InProgress
  <2> QED BY <2>1, <2>2, <2>3, <2>4
<1>4. CASE PushPublish
  <2> USE <1>0, <1>4 DEF IndInv, PushPublish
  <2>1. TypeOK'
    BY DEF TypeOK
  <2>2. ViewsAreSafe'
    <3>1. /\ Count(headView, tail) < Capacity
          /\ Count(head, tail) < Capacity
          /\ Count(tailView, tail) < Capacity
      BY CountRange DEF ViewsAreSafe, InProgress, TypeOK
    <3>2. /\ Count(headView, Inc(tail)) = Count(headView, tail) + 1
          /\ Count(head, Inc(tail)) = Count(head, tail) + 1
          /\ Count(tailView, Inc(tail)) = Count(tailView, tail) + 1
      BY <3>1, CountIncTail, CountRange DEF TypeOK
    <3> QED BY <3>1, <3>2, CountRange DEF ViewsAreSafe, TypeOK
  <2>3. InProgress'
    BY DEF InProgress
  <2>4. SlotsHold'
    <3>1. Count(head, tail) < Capacity
      BY CountRange DEF ViewsAreSafe, InProgress, TypeOK
    <3>2. Count(head, Inc(tail)) = Count(head, tail) + 1
      BY <3>1, CountIncTail, CountRange DEF TypeOK
    <3>3. ASSUME NEW s \in Slots, Count(head, s) < Count(head, tail) + 1
          PROVE  s = tail \/ Count(head, s) < Count(head, tail)
      BY <3>3 DEF Count, TypeOK, Slots
    <3>4. ASSUME NEW s \in Slots, Count(head, s) < Count(head, Inc(tail))
          PROVE  buffer[s] \in Elements
      BY <3>2, <3>3, <3>4 DEF SlotsHold, InProgress
    <3> QED BY <3>4 DEF SlotsHold, NoTornPop
  <2> QED BY <2>1, <2>2, <2>3, <2>4
<1>5. CASE DrainBegin
  BY <1>5 DEF DrainBegin, IndInv, TypeOK, ViewsAreSafe, InProgress, SlotsHold, NoTornPop, Count
<1>6. CASE PopBegin
  BY <1>6 DEF PopBegin, MorePops, IndInv, TypeOK, ViewsAreSafe, InProgress, SlotsHold, NoTornPop, Count
<1>7. CASE DrainEnd
  BY <1>7 DEF DrainEnd, IndInv, TypeOK, ViewsAreSafe, InProgress, SlotsHold, NoTornPop, Count
<1>8. CASE PopCopy
  <2> USE <1>8 DEF IndInv, PopCopy
  <2>0. buffer[head] \in Elements
    BY DEF SlotsHold, InProgress, ViewsAreSafe, Count, TypeOK, Slots
  <2>1. TypeOK'
    BY <2>0 DEF TypeOK
  <2>2. ViewsAreSafe' /\ InProgress'
    BY DEF ViewsAreSafe, InProgress, Count
  <2>4. SlotsHold'
    BY <2>0 DEF SlotsHold, NoTornPop, Count
  <2> QED BY <2>1, <2>2, <2>4
<1>9. CASE PopPublish
  <2> USE <1>0, <1>9 DEF IndInv, PopPublish
  <2>1. TypeOK'
    BY DEF TypeOK, InProgress
  <2>0. head # tailView /\ head # tail
    BY CountRange DEF InProgress, ViewsAreSafe, TypeOK
  <2>5. /\ Count(Inc(head), tail) = Count(head, tail) - 1
        /\ Count(Inc(head), tailView) = Count(head, tailView) - 1
    BY <2>0, CountIncHead DEF TypeOK
  <2>2. ViewsAreSafe'
    <3>1. Count(headView, head) < Capacity
      BY <2>0, CountRange DEF ViewsAreSafe, TypeOK
    <3>2. Count(headView, Inc(head)) = Count(headView, head) + 1
      BY <3>1, CountIncTail, CountRange DEF TypeOK
    <3> QED BY <2>5, <3>2, CountRange DEF ViewsAreSafe, TypeOK
  <2>3. InProgress'
    BY DEF InProgress, Count
  <2>4. SlotsHold'
    <3>1. ASSUME NEW s \in Slots, Count(Inc(head), s) < Count(Inc(head), tail)
          PROVE  buffer[s] \in Elements
      <4>1. s # head
        <5>1. Inc(head) = IF head = Capacity THEN 0 ELSE head + 1
          BY IncStep DEF TypeOK
        <5>2. Count(Inc(head), head) = Capacity
          BY <5>1 DEF Count, TypeOK, Slots
        <5> QED BY <3>1, <5>2, <2>5, CountRange DEF TypeOK
      <4>2. Count(Inc(head), s) = Count(head, s) - 1
        BY <4>1, CountIncHead DEF TypeOK
      <4> QED BY <3>1, <4>2, <2>5, CountRange DEF SlotsHold, TypeOK
    <3> QED BY <3>1 DEF SlotsHold, NoTornPop
  <2> QED BY <2>1, <2>2, <2>3, <2>4
<1>10. CASE PropagateHead
  <2> USE <1>0, <1>10 DEF IndInv, PropagateHead
  <2>1. TypeOK'
    BY DEF TypeOK
  <2>0. headView # tail
    BY CountRange DEF ViewsAreSafe, TypeOK
  <2>5. /\ Count(Inc(headView), head) = Count(headView, head) - 1
        /\ Count(Inc(headView), tail) = Count(headView, tail) - 1
    BY <2>0, CountIncHead DEF TypeOK
  <2>2. ViewsAreSafe'
    BY <2>5, CountRange DEF ViewsAreSafe, TypeOK
  <2>3. InProgress'
    BY <2>5, CountRange DEF InProgress, TypeOK
  <2>4. SlotsHold'
    BY DEF SlotsHold, NoTornPop, Count
  <2> QED BY <2>1, <2>2, <2>3, <2>4
<1>11. CASE PropagateTail
  <2> USE <1>0, <1>11 DEF IndInv, PropagateTail
  <2>1. TypeOK'
    BY DEF TypeOK
  <2>0. Count(head, tailView) < Capacity
    BY CountRange DEF ViewsAreSafe, TypeOK
  <2>5. /\ Count(head, Inc(tailView)) = Count(head, tailView) + 1
        /\ Count(Inc(tailView), tail) = Count(tailView, tail) - 1
    BY <2>0, CountIncHead, CountIncTail DEF TypeOK
  <2>2. ViewsAreSafe'
    BY <2>5, CountRange DEF ViewsAreSafe, TypeOK
  <2>3. InProgress'
    BY <2>5, CountRange DEF InProgress, Count, TypeOK
  <2>4. SlotsHold'
    BY DEF SlotsHold, NoTornPop, Count
  <2> QED BY <2>1, <2>2, <2>3, <2>4
<1>12. CASE UNCHANGED vars
  BY <1>12 DEF vars, IndInv, TypeOK, ViewsAreSafe, InProgress, SlotsHold, NoTornPop, Count
<1> QED
  BY <1>1, <1>2, <1>3, <1>4, <1>5, <1>6, <1>7, <1>8, <1>9, <1>10, <1>11, <1>12
     DEF Next, Producer, Consumer, Memory

-----------------------------------------------------------------------------
(* IndInv is an invariant. *)
THEOREM Invariance == Spec => []IndInv
BY InitInv, NextInv, PTL DEF Spec

(* Every variable of spsc_queue.c stays within its type; in particular     *)
(* head and tail always index a slot of the buffer, also when they wrap.   *)
THEOREM TypeCorrect == Spec => []TypeOK
<1>1. IndInv => TypeOK
  BY DEF IndInv
<1> QED BY <1>1, Invariance, PTL

(* The copies of spsc_queue_push and spsc_queue_pop never work on the same *)
(* slot, for every capacity and however stale the loaded indices are.      *)
THEOREM RaceFreedom == Spec => []NoSlotRace
<1>1. IndInv => NoSlotRace
  BY CountRange DEF IndInv, NoSlotRace, InProgress, ViewsAreSafe, TypeOK
<1> QED BY <1>1, Invariance, PTL

(* spsc_queue_pop never returns a torn or unwritten message. *)
THEOREM NoTearing == Spec => []NoTornPop
<1>1. IndInv => NoTornPop
  BY DEF IndInv, SlotsHold
<1> QED BY <1>1, Invariance, PTL

(* A stale index makes the producer see the ring fuller and the consumer   *)
(* see it emptier than it is, never the other way round.                   *)
THEOREM SafeViews == Spec => []ViewsAreSafe
<1>1. IndInv => ViewsAreSafe
  BY DEF IndInv
<1> QED BY <1>1, Invariance, PTL

-----------------------------------------------------------------------------
(* The refinement.                                                         *)

(* The i-th element from slot a on is in a slot, i - 1 places after a, and *)
(* not in the slot b where the elements end.                               *)
LEMMA WrapSlot ==
    ASSUME NEW a \in Slots, NEW b \in Slots, NEW i \in 1 .. Count(a, b)
    PROVE  /\ Wrap(a + i - 1) \in Slots
           /\ Count(a, Wrap(a + i - 1)) = i - 1
           /\ Wrap(a + i - 1) # b
BY CapacityAssumption DEF Count, Slots, Wrap

(* The place after the last element is the slot where they end. *)
LEMMA WrapEnd ==
    ASSUME NEW a \in Slots, NEW b \in Slots
    PROVE  Wrap(a + Count(a, b)) = b
BY CapacityAssumption DEF Count, Slots, Wrap

(* Counting from the next slot on. *)
LEMMA WrapShift ==
    ASSUME NEW a \in Slots, NEW i \in 1 .. Capacity
    PROVE  Wrap(Inc(a) + i - 1) = Wrap(a + i)
BY IncStep, CapacityAssumption DEF Slots, Wrap

(* The abstract queue starts at a slot, ends at tail, and its length is    *)
(* the number of elements from there to tail.                              *)
LEMMA ContentsShape ==
    ASSUME IndInv
    PROVE  /\ first \in Slots
           /\ Count(first, tail) \in 0 .. Capacity
           /\ Count(first, tail) <= Count(head, tail)
           /\ contents \in Seq(Elements \cup {Torn})
           /\ Len(contents) = Count(first, tail)
           /\ \A i \in 1 .. Count(first, tail) : contents[i] = buffer[Wrap(first + i - 1)]
<1> USE DEF IndInv
<1>1. first \in Slots
  BY IncSlot DEF TypeOK, first
<1>2. Count(first, tail) \in 0 .. Capacity
  BY <1>1, CountRange DEF TypeOK
<1>3. Count(first, tail) <= Count(head, tail)
  <2>1. CASE cpc = "publish"
    <3>1. head # tail
      BY <2>1, CountRange DEF InProgress, ViewsAreSafe, TypeOK
    <3> QED BY <2>1, <3>1, CountIncHead, CountRange DEF first, TypeOK
  <2>2. CASE cpc # "publish"
    BY <2>2, CountRange DEF first, TypeOK
  <2> QED BY <2>1, <2>2
<1>4. \A i \in 1 .. Count(first, tail) : buffer[Wrap(first + i - 1)] \in Elements \cup {Torn}
  BY <1>1, WrapSlot DEF TypeOK
<1>5. /\ contents \in Seq(Elements \cup {Torn})
      /\ Len(contents) = Count(first, tail)
  BY <1>2, <1>4, CapacityAssumption DEF contents
<1> QED BY <1>1, <1>2, <1>3, <1>5 DEF contents

(* The initial queue is empty. *)
LEMMA InitRefines == Init => Fifo!Init
<1> SUFFICES ASSUME Init PROVE contents = <<>>
  BY DEF Fifo!Init
<1>1. Count(first, tail) = 0
  BY CapacityAssumption DEF Init, first, Count
<1> QED BY <1>1 DEF contents

(* Append as a function on its indices. *)
LEMMA AppendShape ==
    ASSUME NEW S, NEW s \in Seq(S), NEW e \in S
    PROVE  Append(s, e) = [i \in 1 .. Len(s) + 1 |-> IF i <= Len(s) THEN s[i] ELSE e]
<1> DEFINE t == [i \in 1 .. Len(s) + 1 |-> IF i <= Len(s) THEN s[i] ELSE e]
<1>1. t \in Seq(S) /\ Len(t) = Len(s) + 1
  <2>1. \A i \in 1 .. Len(s) : s[i] \in S
    BY ElementOfSeq
  <2> QED BY <2>1
<1>2. \A i \in 1 .. Len(s) + 1 : Append(s, e)[i] = t[i]
  BY AppendProperties
<1> HIDE DEF t
<1>3. /\ Append(s, e) \in Seq(S)
      /\ Len(Append(s, e)) = Len(t)
      /\ \A i \in 1 .. Len(Append(s, e)) : Append(s, e)[i] = t[i]
  BY <1>1, <1>2, AppendProperties
<1>4. Append(s, e) = t
  BY <1>1, <1>3, SeqEqual, Zenon
<1> QED BY <1>4 DEF t

(* Tail drops the first element and moves the others up by one. *)
LEMMA TailShape ==
    ASSUME NEW S, NEW s \in Seq(S), s # <<>>
    PROVE  Tail(s) = [i \in 1 .. Len(s) - 1 |-> s[i + 1]]
<1> DEFINE t == [i \in 1 .. Len(s) - 1 |-> s[i + 1]]
<1>1. Len(s) - 1 \in Nat
  BY EmptySeq
<1>2. t \in Seq(S) /\ Len(t) = Len(s) - 1
  <2>1. \A i \in 1 .. Len(s) - 1 : s[i + 1] \in S
    BY ElementOfSeq, <1>1
  <2> QED BY <1>1, <2>1
<1>3. \A i \in 1 .. Len(s) - 1 : Tail(s)[i] = t[i]
  BY HeadTailProperties
<1> HIDE DEF t
<1>4. /\ Tail(s) \in Seq(S)
      /\ Len(Tail(s)) = Len(t)
      /\ \A i \in 1 .. Len(Tail(s)) : Tail(s)[i] = t[i]
  BY <1>2, <1>3, HeadTailProperties
<1>5. Tail(s) = t
  BY <1>2, <1>4, SeqEqual, Zenon
<1> QED BY <1>5 DEF t

(* Writing to the slot at tail does not touch the abstract queue. *)
LEMMA TailSlotFree ==
    ASSUME IndInv, NEW v, buffer' = [buffer EXCEPT ![tail] = v],
           UNCHANGED <<head, tail, cpc>>
    PROVE  contents' = contents
<1>1. first' = first /\ Count(first, tail)' = Count(first, tail)
  BY DEF first, Count
<1>2. ASSUME NEW i \in 1 .. Count(first, tail)
      PROVE  buffer'[Wrap(first + i - 1)] = buffer[Wrap(first + i - 1)]
  BY WrapSlot, ContentsShape DEF IndInv, TypeOK
<1> QED BY <1>1, <1>2 DEF contents

(* The store to tail is the Enqueue of the element of the push. *)
LEMMA PublishEnqueues ==
    ASSUME IndInv, PushPublish
    PROVE  Fifo!Enqueue(elem)
<1> USE DEF IndInv, PushPublish
<1>1. first' = first
  BY DEF first
<1>2. Count(head, tail) < Capacity
  BY CountRange, CapacityAssumption DEF InProgress, ViewsAreSafe, TypeOK
<1>3. Count(first, tail) < Capacity
  <2>1. Count(head, tail) \in 0 .. Capacity
    BY CountRange DEF TypeOK
  <2> QED BY <1>2, <2>1, ContentsShape, CapacityAssumption
<1>4. Count(first, Inc(tail)) = Count(first, tail) + 1
  BY <1>3, ContentsShape, CountIncTail DEF TypeOK
<1>5. Wrap(first + (Count(first, tail) + 1) - 1) = tail
  BY WrapEnd, ContentsShape DEF TypeOK
<1>6. contents' = [i \in 1 .. Count(first, tail) + 1 |-> buffer[Wrap(first + i - 1)]]
  BY <1>1, <1>4 DEF contents
<1>7. contents' = [i \in 1 .. Count(first, tail) + 1 |->
                      IF i <= Count(first, tail) THEN contents[i] ELSE elem]
  BY <1>5, <1>6, ContentsShape DEF SlotsHold
<1>8. contents' = Append(contents, elem)
  <2>1. elem \in Elements \cup {Torn}
    BY DEF TypeOK
  <2> QED BY <1>7, <2>1, ContentsShape, AppendShape
<1> QED BY <1>3, <1>8, ContentsShape DEF Fifo!Enqueue

(* The end of the copy out is the Dequeue. *)
LEMMA CopyDequeues ==
    ASSUME IndInv, PopCopy
    PROVE  Fifo!Dequeue
<1> USE DEF IndInv, PopCopy
<1>1. first = head /\ first' = Inc(head)
  BY DEF first
<1>2. head # tail
  BY CountRange DEF InProgress, ViewsAreSafe, TypeOK
<1>3. /\ Count(head, tail) \in 1 .. Capacity
      /\ Count(Inc(head), tail) = Count(head, tail) - 1
  BY <1>2, CountIncHead, CountRange, CapacityAssumption DEF TypeOK
<1>4. contents # <<>> /\ Len(contents) = Count(head, tail)
  BY <1>1, <1>3, ContentsShape
<1>5. Head(contents) = buffer[head]
  <2>1. Wrap(head + 1 - 1) = head
    BY CapacityAssumption DEF Wrap, TypeOK, Slots
  <2> QED BY <1>1, <1>3, <1>4, <2>1, ContentsShape
<1>6. contents' = [i \in 1 .. Count(head, tail) - 1 |-> buffer[Wrap(Inc(head) + i - 1)]]
  BY <1>1, <1>3 DEF contents
<1>7. ASSUME NEW i \in 1 .. Count(head, tail) - 1
      PROVE  buffer[Wrap(Inc(head) + i - 1)] = contents[i + 1]
  <2>1. i \in 1 .. Capacity /\ i + 1 \in 1 .. Count(head, tail)
    BY <1>3, CapacityAssumption
  <2>2. Wrap(Inc(head) + i - 1) = Wrap(head + (i + 1) - 1)
    BY <2>1, WrapShift DEF TypeOK
  <2> QED BY <1>1, <2>1, <2>2, ContentsShape
<1>8. contents' = [i \in 1 .. Len(contents) - 1 |-> contents[i + 1]]
  BY <1>4, <1>6, <1>7
<1>9. contents' = Tail(contents)
  BY <1>4, <1>8, ContentsShape, TailShape
<1> QED BY <1>4, <1>5, <1>9 DEF Fifo!Dequeue

(* Every step is a step of the abstract queue or leaves it unchanged. *)
LEMMA NextRefines == IndInv /\ [Next]_vars => [Fifo!Next]_<<contents, out>>
<1> SUFFICES ASSUME IndInv, [Next]_vars PROVE [Fifo!Next]_<<contents, out>>
  OBVIOUS
<1>1. ASSUME NEW e \in Elements, PushBegin(e) PROVE UNCHANGED <<contents, out>>
  BY <1>1, TailSlotFree DEF PushBegin
<1>2. ASSUME NEW e \in Elements, PushReject(e) PROVE UNCHANGED <<contents, out>>
  BY <1>2 DEF PushReject, contents, first, Count
<1>3. CASE PushCopy
  BY <1>3, TailSlotFree DEF PushCopy
<1>4. CASE PushPublish
  BY <1>4, PublishEnqueues DEF PushPublish, IndInv, InProgress, Fifo!Next
<1>5. CASE DrainBegin
  BY <1>5 DEF DrainBegin, contents, first, Count
<1>6. CASE PopBegin
  BY <1>6 DEF PopBegin, contents, first, Count
<1>7. CASE DrainEnd
  BY <1>7 DEF DrainEnd, contents, first, Count
<1>8. CASE PopCopy
  BY <1>8, CopyDequeues DEF Fifo!Next
<1>9. CASE PopPublish
  BY <1>9 DEF PopPublish, contents, first, Count
<1>10. CASE Memory
  BY <1>10 DEF Memory, PropagateHead, PropagateTail, contents, first, Count
<1>11. CASE UNCHANGED vars
  BY <1>11 DEF vars, contents, first, Count
<1> QED
  BY <1>1, <1>2, <1>3, <1>4, <1>5, <1>6, <1>7, <1>8, <1>9, <1>10, <1>11
     DEF Next, Producer, Consumer

(* spsc_queue.c implements the bounded first-in first-out queue, whatever  *)
(* its capacity: no accepted message is lost, duplicated, reordered or     *)
(* overwritten.                                                            *)
THEOREM Refinement == Spec => ImplementsFifo
<1>1. Init => Fifo!Init
  BY InitRefines
<1>2. IndInv /\ [Next]_vars => [Fifo!Next]_(Fifo!fifoVars)
  BY NextRefines DEF Fifo!fifoVars
<1> QED BY <1>1, <1>2, Invariance, PTL DEF Spec, ImplementsFifo, Fifo!Spec
=============================================================================
