---------------------------- MODULE MessageBuf ----------------------------
(***************************************************************************)
(* The history ring of src/model/message_buf.c with its slots and the heap *)
(* blocks that hold the payloads: who owns which block when records are    *)
(* evicted, cleared or, in message_buf_remove_topic, moved together in     *)
(* place.  Only the UI thread uses the ring; the loop of                   *)
(* message_buf_remove_topic is a step per turn because its invariant is    *)
(* what the ownership rests on.                                            *)
(***************************************************************************)
EXTENDS Naturals, Sequences, Subsequence

CONSTANTS Capacity,       \* HISTORY_CAPACITY in the application
          Topics,
          Blocks,         \* the heap blocks malloc can return
          Null,
          MaxGeneration   \* bound: changes of the ring

ASSUME CapacityAssumption == Capacity \in Nat \ {0}
ASSUME NullAssumption == Null \notin Blocks

VARIABLES entries,     \* the slots: topic and payload pointer of a record
          head,        \* the slot of the oldest record
          count,
          generation,
          live,        \* the blocks that are allocated
          pc,          \* "idle", or in the loop of message_buf_remove_topic
          topic,       \* its argument
          i,           \* its loop counter
          kept         \* the records it has kept so far

vars == <<entries, head, count, generation, live, pc, topic, i, kept>>

Slots == 0 .. Capacity - 1

Entry == [topic : Topics \cup {Null}, payload : Blocks \cup {Null}]

(* The slot of the k-th record from the oldest one on. *)
Slot(k) == (head + k) % Capacity

(* free: of a NULL pointer it does nothing. *)
Freed(ptrs) == live \ ptrs

-----------------------------------------------------------------------------
(* message_buf_init: calloc. *)
Init == /\ entries = [s \in Slots |-> [topic |-> Null, payload |-> Null]]
        /\ head = 0
        /\ count = 0
        /\ generation = 0
        /\ live = {}
        /\ pc = "idle"
        /\ topic \in Topics
        /\ i = 0
        /\ kept = 0

(* message_buf_push of a record on topic t.  A full ring drops its oldest  *)
(* record, whose block is free before the new one is allocated; p is what  *)
(* malloc returns, or Null for a record without a payload.                 *)
Push(t, p) ==
    /\ pc = "idle"
    /\ generation < MaxGeneration
    /\ LET idx == Slot(count)
           afterEvict == IF count = Capacity THEN Freed({entries[idx].payload}) ELSE live
       IN  /\ p = Null \/ p \in Blocks \ afterEvict
           /\ live' = afterEvict \cup ({p} \ {Null})
           /\ entries' = [entries EXCEPT ![idx] = [topic |-> t, payload |-> p]]
    /\ IF count = Capacity
       THEN head' = (head + 1) % Capacity /\ UNCHANGED count
       ELSE count' = count + 1 /\ UNCHANGED head
    /\ generation' = generation + 1
    /\ UNCHANGED <<pc, topic, i, kept>>

(* message_buf_clear, also the first part of message_buf_destroy. *)
Clear ==
    /\ pc = "idle"
    /\ generation < MaxGeneration
    /\ LET window == {Slot(k) : k \in 0 .. count - 1}
       IN  /\ live' = Freed({entries[s].payload : s \in window})
           /\ entries' = [s \in Slots |-> IF s \in window
                                          THEN [entries[s] EXCEPT !.payload = Null]
                                          ELSE entries[s]]
    /\ generation' = generation + 1
    /\ head' = 0
    /\ count' = 0
    /\ UNCHANGED <<pc, topic, i, kept>>

(* message_buf_remove_topic is called. *)
RemoveBegin(t) == /\ pc = "idle"
                  /\ generation < MaxGeneration
                  /\ pc' = "remove"
                  /\ topic' = t
                  /\ i' = 0
                  /\ kept' = 0
                  /\ UNCHANGED <<entries, head, count, generation, live>>

(* A turn of its loop: a record of the topic is freed ... *)
RemoveDrop == /\ pc = "remove"
              /\ i < count
              /\ entries[Slot(i)].topic = topic
              /\ live' = Freed({entries[Slot(i)].payload})
              /\ entries' = [entries EXCEPT ![Slot(i)].payload = Null]
              /\ i' = i + 1
              /\ UNCHANGED <<head, count, generation, pc, topic, kept>>

Mutant_RemoveKeep ==
    /\ pc = "remove"
    /\ i < count
    /\ entries[Slot(i)].topic # topic
    /\ entries' = [entries EXCEPT ![kept] = entries[Slot(i)]]
    /\ kept' = kept + 1
    /\ i' = i + 1
    /\ UNCHANGED <<head, count, generation, live, pc, topic>>

(* ... and another record is moved up to the ones kept so far; the slot it *)
(* comes from still holds the same pointer.                                *)
RemoveKeep == /\ pc = "remove"
              /\ i < count
              /\ entries[Slot(i)].topic # topic
              /\ entries' = [entries EXCEPT ![Slot(kept)] = entries[Slot(i)]]
              /\ kept' = kept + 1
              /\ i' = i + 1
              /\ UNCHANGED <<head, count, generation, live, pc, topic>>

Mutant_RemoveEnd == /\ pc = "remove"
                    /\ i = count
                    /\ pc' = "idle"
                    /\ count' = kept
                    /\ i' = 0
                    /\ kept' = 0
                    /\ UNCHANGED <<entries, head, generation, live, topic>>

(* The end of message_buf_remove_topic: the generation changes only if a   *)
(* record was removed.                                                     *)
RemoveEnd == /\ pc = "remove"
             /\ i = count
             /\ pc' = "idle"
             /\ IF kept < count
                THEN count' = kept /\ generation' = generation + 1
                ELSE UNCHANGED <<count, generation>>
             /\ i' = 0
             /\ kept' = 0
             /\ UNCHANGED <<entries, head, live, topic>>

(* message_buf_get, message_buf_count and message_buf_generation: the       *)
(* views, the CSV export and db_flush_history read the ring between calls. *)
Read == pc = "idle" /\ UNCHANGED vars

Next == \/ Read
        \/ \E t \in Topics : RemoveBegin(t) \/ \E p \in Blocks \cup {Null} : Push(t, p)
        \/ Clear \/ RemoveDrop \/ RemoveKeep \/ RemoveEnd

Spec == Init /\ [][Next]_vars

-----------------------------------------------------------------------------
TypeOK == /\ entries \in [Slots -> Entry]
          /\ head \in Slots
          /\ count \in 0 .. Capacity
          /\ generation \in Nat
          /\ live \subseteq Blocks
          /\ pc \in {"idle", "remove"}
          /\ topic \in Topics
          /\ i \in 0 .. count
          /\ kept \in 0 .. i
          /\ pc = "idle" => i = 0

(* The positions that hold a record: all of them, or, within the loop, the *)
(* ones kept so far and the ones still to be looked at.                    *)
Held == (0 .. kept - 1) \cup (i .. count - 1)

Payload(k) == entries[Slot(k)].payload

(* The block of a held record is allocated: message_buf_get hands the      *)
(* pointer to the views, to the CSV export and to db_flush_history.        *)
NoDanglingPayload == \A k \in Held : Payload(k) \in live \cup {Null}

(* No two held records have the same block.                                *)
NoSharedPayload == \A k, l \in Held : k # l /\ Payload(k) # Null => Payload(k) # Payload(l)

(* Every allocated block belongs to a held record.                         *)
NoLeak == \A b \in live : \E k \in Held : Payload(k) = b

(* The held records and the allocated blocks belong to each other one to   *)
(* one, also in the middle of an in-place removal that leaves stale        *)
(* copies of pointers behind: no sequence of message_buf_push, clear and   *)
(* remove_topic uses a freed payload, frees one twice or leaks one.  Each  *)
(* part needs the others: a record may be freed without harm only if no    *)
(* other shares its block, and the heap is empty after a clear only if     *)
(* nothing was leaked before it.                                           *)
OneOwner == NoDanglingPayload /\ NoSharedPayload /\ NoLeak

-----------------------------------------------------------------------------
(* The refinement: message_buf_remove_topic takes effect when it is        *)
(* called.                                                                 *)
RecordAt(k) == entries[Slot(k)]

Seen == [k \in 1 .. kept |-> RecordAt(k - 1)]
Unseen == [k \in 1 .. count - i |-> RecordAt(i + k - 1)]
Others == Kept(Unseen, {k \in DOMAIN Unseen : Unseen[k].topic # topic})

records == Seen \o (IF pc = "idle" THEN Unseen ELSE Others)

changes == IF pc = "remove" /\ (kept < i \/ Others # Unseen)
           THEN generation + 1 ELSE generation

Log == INSTANCE RecordLog WITH Records <- Entry, log <- records, generation <- changes

(* The ring holds the newest records in order through every eviction,      *)
(* clear and in-place removal, and its generation changes exactly when the *)
(* records do: message_buf.c implements the record log.                    *)
ImplementsLog == Log!Spec
=============================================================================
