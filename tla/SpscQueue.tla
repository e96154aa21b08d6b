----------------------------- MODULE SpscQueue -----------------------------
(***************************************************************************)
(* The lock-free single-producer single-consumer ring of                   *)
(* src/model/spsc_queue.c, as it is used: the libmosquitto network thread  *)
(* pushes every received message (on_message), the UI thread drains up to  *)
(* DrainMax of them in every frame (main.c).                               *)
(*                                                                         *)
(* Every atomic access is a step of its own.  A thread reads its own index *)
(* exactly, and the other thread's index through a view that lags behind:  *)
(* C11 lets an acquire load return any store of the modification order     *)
(* that is not older than the one it returned last.  The views advance in  *)
(* PropagateHead and PropagateTail.  memcpy is not atomic: from the moment *)
(* a push may have begun to copy, the slot holds Torn, until it is done.   *)
(***************************************************************************)
EXTENDS Integers, Sequences

CONSTANTS Capacity,   \* MSG_QUEUE_CAPACITY in the application
          Elements,   \* the messages
          Torn,       \* the contents of a slot that is not (yet) a message
          DrainMax    \* the most elements one drain call takes

ASSUME CapacityAssumption == Capacity \in Nat \ {0}
ASSUME TornAssumption == Torn \notin Elements
ASSUME DrainMaxAssumption == DrainMax \in Nat \ {0}

VARIABLES buffer,     \* the Capacity + 1 slots
          head,       \* index of the oldest element, written by the consumer
          tail,       \* index of the next free slot, written by the producer
          headView,   \* the store to head the producer's load returns
          tailView,   \* the store to tail the consumer's load returns
          ppc,        \* where the producer is in spsc_queue_push
          elem,       \* the argument of the push in progress
          cpc,        \* where the consumer is in spsc_queue_drain
          out,        \* what the last pop copied out
          drained     \* count, the elements this drain call has taken

vars == <<buffer, head, tail, headView, tailView, ppc, elem, cpc, out, drained>>

Slots == 0 .. Capacity

(* (i + 1) % (capacity + 1) *)
Inc(i) == (i + 1) % (Capacity + 1)

(* spsc_queue_count, on the two indices it has loaded. *)
Count(h, t) == IF t >= h THEN t - h ELSE (Capacity + 1) - h + t

-----------------------------------------------------------------------------
(* spsc_queue_init: malloc leaves the slots unwritten. *)
Init == /\ buffer = [s \in Slots |-> Torn]
        /\ head = 0
        /\ tail = 0
        /\ headView = 0
        /\ tailView = 0
        /\ ppc = "idle"
        /\ elem = Torn
        /\ cpc = "idle"
        /\ out = Torn
        /\ drained = 0

-----------------------------------------------------------------------------
Mutant_SeemsFull(t, h) == FALSE

(* The full test of spsc_queue_push, on the loaded indices. *)
SeemsFull(t, h) == Inc(t) = h

(* spsc_queue_push finds room and starts to copy the element in. *)
PushBegin(e) == /\ ppc = "idle"
                /\ ~SeemsFull(tail, headView)
                /\ elem' = e
                /\ buffer' = [buffer EXCEPT ![tail] = Torn]
                /\ ppc' = "copy"
                /\ UNCHANGED <<head, tail, headView, tailView, cpc, out, drained>>

(* spsc_queue_push returns false: on_message frees the payload and counts  *)
(* the message as dropped.                                                 *)
PushReject(e) == /\ ppc = "idle"
                 /\ SeemsFull(tail, headView)
                 /\ elem' = e
                 /\ UNCHANGED <<buffer, head, tail, headView, tailView, ppc, cpc,
                                out, drained>>

(* The memcpy into the slot is complete. *)
PushCopy == /\ ppc = "copy"
            /\ buffer' = [buffer EXCEPT ![tail] = elem]
            /\ ppc' = "publish"
            /\ UNCHANGED <<head, tail, headView, tailView, elem, cpc, out, drained>>

(* The release store of next_tail; spsc_queue_push returns true. *)
PushPublish == /\ ppc = "publish"
               /\ tail' = Inc(tail)
               /\ ppc' = "idle"
               /\ UNCHANGED <<buffer, head, headView, tailView, elem, cpc, out,
                              drained>>

-----------------------------------------------------------------------------
Mutant_DrainBegin ==
    /\ cpc = "idle"
    /\ cpc' = "load"
    /\ UNCHANGED <<buffer, head, tail, headView, tailView, ppc, elem, out, drained>>

(* A frame of the UI thread calls spsc_queue_drain. *)
DrainBegin == /\ cpc = "idle"
              /\ drained' = 0
              /\ cpc' = "load"
              /\ UNCHANGED <<buffer, head, tail, headView, tailView, ppc, elem, out>>

(* The loop condition of spsc_queue_drain together with the empty test of  *)
(* spsc_queue_pop: does another pop copy an element out?                   *)
MorePops(n, h, t) == n < DrainMax /\ h # t

(* spsc_queue_pop finds an element and starts to copy it out. *)
PopBegin == /\ cpc = "load"
            /\ MorePops(drained, head, tailView)
            /\ cpc' = "copy"
            /\ UNCHANGED <<buffer, head, tail, headView, tailView, ppc, elem, out,
                           drained>>

(* The drain is at its limit or spsc_queue_pop returns false. *)
DrainEnd == /\ cpc = "load"
            /\ ~MorePops(drained, head, tailView)
            /\ cpc' = "idle"
            /\ UNCHANGED <<buffer, head, tail, headView, tailView, ppc, elem, out,
                           drained>>

(* The memcpy out of the slot is complete. *)
PopCopy == /\ cpc = "copy"
           /\ out' = buffer[head]
           /\ cpc' = "publish"
           /\ UNCHANGED <<buffer, head, tail, headView, tailView, ppc, elem, drained>>

Mutant_PopPublishBatch ==
    /\ cpc = "publish"
    /\ head' = tailView
    /\ drained' = drained + 1
    /\ cpc' = "load"
    /\ UNCHANGED <<buffer, tail, headView, tailView, ppc, elem, out>>

(* The release store of next_head; spsc_queue_pop returns true. *)
PopPublish == /\ cpc = "publish"
              /\ head' = Inc(head)
              /\ drained' = drained + 1
              /\ cpc' = "load"
              /\ UNCHANGED <<buffer, tail, headView, tailView, ppc, elem, out>>

-----------------------------------------------------------------------------
(* The next store of the other thread becomes visible. *)
PropagateHead == /\ headView # head
                 /\ headView' = Inc(headView)
                 /\ UNCHANGED <<buffer, head, tail, tailView, ppc, elem, cpc, out,
                                drained>>

PropagateTail == /\ tailView # tail
                 /\ tailView' = Inc(tailView)
                 /\ UNCHANGED <<buffer, head, tail, headView, ppc, elem, cpc, out,
                                drained>>

Producer == PushCopy \/ PushPublish \/ \E e \in Elements : PushBegin(e) \/ PushReject(e)

Consumer == DrainBegin \/ PopBegin \/ DrainEnd \/ PopCopy \/ PopPublish

Memory == PropagateHead \/ PropagateTail

Next == Producer \/ Consumer \/ Memory

Spec == Init /\ [][Next]_vars

(* The frame loop runs for as long as the application does, a push that    *)
(* has begun ends (it takes no lock), and a store becomes visible in       *)
(* finite time.  Nothing makes messages arrive: PushBegin is not fair.     *)
Fairness == /\ WF_vars(Consumer)
            /\ WF_vars(PushCopy \/ PushPublish)
            /\ WF_vars(PropagateHead)
            /\ WF_vars(PropagateTail)

FairSpec == Spec /\ Fairness

-----------------------------------------------------------------------------
TypeOK == /\ buffer \in [Slots -> Elements \cup {Torn}]
          /\ head \in Slots
          /\ tail \in Slots
          /\ headView \in Slots
          /\ tailView \in Slots
          /\ ppc \in {"idle", "copy", "publish"}
          /\ elem \in Elements \cup {Torn}
          /\ cpc \in {"idle", "load", "copy", "publish"}
          /\ out \in Elements \cup {Torn}
          /\ drained \in 0 .. DrainMax

(* The two memcpy of spsc_queue_push and spsc_queue_pop never work on the  *)
(* same slot at the same time, however far the views lag.                  *)
NoSlotRace == ~(ppc = "copy" /\ cpc = "copy" /\ head = tail)

(* No message that is copied out is torn: spsc_queue_pop only ever returns *)
(* what a completed spsc_queue_push has put into the slot.                 *)
NoTornPop == cpc = "publish" => out \in Elements

(* A lagging view errs on the safe side only: the producer sees at least   *)
(* the elements there are, and the consumer at most those.  This is what   *)
(* keeps the wrapped indices unambiguous, with one slot always left free.  *)
ViewsAreSafe ==
    /\ Count(headView, tail) <= Capacity
    /\ Count(headView, tail) = Count(headView, head) + Count(head, tail)
    /\ Count(head, tail) = Count(head, tailView) + Count(tailView, tail)

-----------------------------------------------------------------------------
(* The refinement: an element is accepted by the store to tail and         *)
(* delivered when its copy out is complete.                                *)
first == IF cpc = "publish" THEN Inc(head) ELSE head

Wrap(i) == IF i > Capacity THEN i - (Capacity + 1) ELSE i

contents == [i \in 1 .. Count(first, tail) |-> buffer[Wrap(first + i - 1)]]

Fifo == INSTANCE BoundedFifo WITH queue <- contents

(* spsc_queue.c implements the bounded queue: nothing accepted is lost,    *)
(* duplicated, reordered or overwritten.                                   *)
ImplementsFifo == Fifo!Spec

(* Every accepted message is delivered: a slot that holds one is emptied   *)
(* by a later frame, no matter how fast messages arrive.                   *)
EveryMessageDelivered ==
    \A s \in Slots : (Count(head, s) < Count(head, tail)) ~> (head = Inc(s))
=============================================================================
