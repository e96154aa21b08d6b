---------------------------- MODULE BoundedFifo ----------------------------
(***************************************************************************)
(* What the message queue between the MQTT network thread and the UI       *)
(* thread promises: a first-in first-out queue of at most Capacity         *)
(* elements, in which an accepted element is delivered once, whole, and in *)
(* the order of acceptance.  A rejected push and every internal step of    *)
(* the implementation leave it unchanged.                                  *)
(***************************************************************************)
EXTENDS Naturals, Sequences

CONSTANTS Capacity,  \* the most elements the queue holds
          Elements   \* what is queued

VARIABLES queue,     \* the accepted elements that are not yet delivered
          out        \* the element delivered last

fifoVars == <<queue, out>>

Init == queue = <<>>

(* An element is accepted. *)
Enqueue(e) == /\ Len(queue) < Capacity
              /\ queue' = Append(queue, e)
              /\ out' = out

(* The oldest element is delivered. *)
Dequeue == /\ queue # <<>>
           /\ out' = Head(queue)
           /\ queue' = Tail(queue)

Next == Dequeue \/ \E e \in Elements : Enqueue(e)

Spec == Init /\ [][Next]_fifoVars
=============================================================================
