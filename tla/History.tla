------------------------------ MODULE History ------------------------------
(***************************************************************************)
(* The message history and its database: the frame loop of src/main.c      *)
(* pushes what it drains from the queue into the history ring, and         *)
(* db_flush_history of src/platform/db.c writes what is new in the ring to *)
(* the messages table, batch by batch, a transaction each.  A flush runs   *)
(* every five seconds, before Clear History and at the end of main.  The   *)
(* process may be killed between any two steps and started again.          *)
(*                                                                         *)
(* The ring is the record log that message_buf.c implements (MessageBuf).  *)
(* A message is its topic and its time of arrival; the clock is assumed    *)
(* not to go back, so no two messages have the same time.  SQLite is       *)
(* external: its transactions are atomic and durable.                      *)
(***************************************************************************)
EXTENDS Naturals, Sequences, SequencesExt, Subsequence

CONSTANTS Topics,
          RingCapacity,   \* HISTORY_CAPACITY
          BatchSize,      \* 256, the records db_flush_history saves at once
          MaxRows,        \* 10000, the rows it keeps
          LoadMax,        \* 200, the rows main loads
          MayFail,        \* the statements that can fail: "load", "save", ...
          MaxMessages,    \* bound: messages received
          MaxRequests,    \* bound: Clear History and Disconnect clicks
          MaxStarts       \* bound: times the program is started

ASSUME TopicsAssumption == Topics # {}
ASSUME SizesAssumption ==
    {RingCapacity, BatchSize, MaxRows, LoadMax} \subseteq Nat \ {0}
ASSUME LoadAssumption == LoadMax <= RingCapacity
ASSUME MayFailAssumption == MayFail \subseteq {"load", "save", "trim", "delete"}
ASSUME BoundsAssumption == {MaxMessages, MaxRequests, MaxStarts} \subseteq Nat

VARIABLES ring,        \* state.global_history, the oldest record first
          generation,  \* its generation
          saved,       \* history_saved
          rows,        \* the messages table, in the order of insertion
          pc,          \* where main is: in the frame loop, in a flush, ...
          pushed,      \* the local of db_flush_history, 0 outside of it
          cont,        \* what follows the flush: "frame", "delete" or "down"
          clearing,    \* the topic of the Clear History in progress, or Unset
          clock,       \* the time of the last message
          forgotten,   \* ghost: per topic, the time up to which it was deleted
          trimmed,     \* ghost: the time up to which rows have been trimmed
          failed,      \* ghost: the times of the messages in saves that failed
          requests,
          starts

ghosts == <<forgotten, trimmed, failed>>
vars == <<ring, generation, saved, rows, pc, pushed, cont, clearing, clock, ghosts,
          requests, starts>>

Message == [topic : Topics, time : 1 .. MaxMessages]

Ring == INSTANCE RecordLog
          WITH Capacity <- RingCapacity, Records <- Message, log <- ring

(* The value of clearing outside of a Clear History: any topic. *)
Unset == CHOOSE t \in Topics : TRUE

-----------------------------------------------------------------------------
(* The first start finds an empty database. *)
Init == /\ ring = <<>>
        /\ generation = 0
        /\ saved = 0
        /\ rows = <<>>
        /\ pc = "down"
        /\ pushed = 0
        /\ cont = "frame"
        /\ clearing = Unset
        /\ clock = 0
        /\ forgotten = [t \in Topics |-> 0]
        /\ trimmed = 0
        /\ failed = {}
        /\ requests = 0
        /\ starts = 0

(* The messages of a sequence by their times. *)
Times(log) == {r.time : r \in ToSet(log)}

(* The n rows with the latest times, as the queries of db_load_messages    *)
(* and db_trim_messages select them: the last ones inserted.               *)
Newest(n) == SubSeq(rows, IF Len(rows) > n THEN Len(rows) - n + 1 ELSE 1, Len(rows))

(* main starts: db_load_messages, which gives nothing if it fails, and a   *)
(* message_buf_push for each row from the oldest to the newest one, in a   *)
(* new ring, large enough for them.                                        *)
Start == /\ pc = "down"
         /\ starts < MaxStarts
         /\ starts' = starts + 1
         /\ \/ ring' = Newest(LoadMax)
            \/ "load" \in MayFail /\ ring' = <<>>
         /\ generation' = Len(ring')
         /\ saved' = generation'
         /\ pc' = "frame"
         /\ UNCHANGED <<rows, pushed, cont, clearing, clock, ghosts, requests>>

(* A message drained from the queue goes into the ring. *)
Receive(t) == /\ pc = "frame"
              /\ clock < MaxMessages
              /\ clock' = clock + 1
              /\ Ring!Push([topic |-> t, time |-> clock'])
              /\ UNCHANGED <<saved, rows, pc, pushed, cont, clearing, ghosts,
                             requests, starts>>

-----------------------------------------------------------------------------
(* db_flush_history.                                                       *)

(* The generation of the newest record that is no longer in the ring. *)
WindowStart == generation - Len(ring)

Mutant_FlushBegin(next) ==
    /\ saved' = IF saved < WindowStart THEN WindowStart ELSE saved
    /\ IF saved' + BatchSize > generation
       THEN pc' = next /\ UNCHANGED <<pushed, cont>>
       ELSE pc' = "batch" /\ pushed' = generation /\ cont' = next

(* It begins: records the ring has dropped are skipped, and without new    *)
(* ones there is nothing to do.                                            *)
FlushBegin(next) ==
    /\ saved' = IF saved < WindowStart THEN WindowStart ELSE saved
    /\ IF saved' >= generation
       THEN pc' = next /\ UNCHANGED <<pushed, cont>>
       ELSE pc' = "batch" /\ pushed' = generation /\ cont' = next

(* The timer of the frame loop: five seconds have passed. *)
FlushTimer == /\ pc = "frame"
              /\ FlushBegin("frame")
              /\ UNCHANGED <<ring, generation, rows, clearing, clock, ghosts,
                             requests, starts>>

(* The next records to save, at most a batch. *)
Batch == LET start == saved - WindowStart
             n == IF pushed - saved > BatchSize THEN BatchSize ELSE pushed - saved
         IN  SubSeq(ring, start + 1, start + n)

Mutant_FlushBatch == /\ pc = "batch"
                     /\ saved < pushed
                     /\ saved' = pushed
                     /\ rows' = rows \o Batch
                     /\ UNCHANGED <<ring, generation, pc, pushed, cont, clearing,
                                    clock, ghosts, requests, starts>>

(* A turn of its loop: db_save_messages commits the batch or rolls it      *)
(* back; saved advances all the same.  The results of BEGIN and COMMIT are *)
(* not looked at either: a COMMIT that fails with an error after which     *)
(* SQLite rolls back is a batch that failed.                               *)
FlushBatch == /\ pc = "batch"
              /\ saved < pushed
              /\ saved' = saved + Len(Batch)
              /\ \/ rows' = rows \o Batch /\ UNCHANGED failed
                 \/ /\ "save" \in MayFail
                    /\ failed' = failed \cup Times(Batch)
                    /\ UNCHANGED rows
              /\ UNCHANGED <<ring, generation, pc, pushed, cont, clearing, clock,
                             forgotten, trimmed, requests, starts>>

Mutant_FlushTrim == /\ pc = "batch"
                    /\ saved = pushed
                    /\ rows' = SubSeq(rows, 1, IF Len(rows) > MaxRows
                                               THEN MaxRows ELSE Len(rows))
                    /\ pc' = cont
                    /\ pushed' = 0
                    /\ cont' = "frame"
                    /\ UNCHANGED <<ring, generation, saved, clearing, clock, ghosts,
                                   requests, starts>>

(* Its end: db_trim_messages. *)
FlushTrim == /\ pc = "batch"
             /\ saved = pushed
             /\ \/ /\ rows' = Newest(MaxRows)
                   /\ trimmed' = IF Len(rows) > MaxRows
                                 THEN rows[Len(rows) - MaxRows].time ELSE trimmed
                \/ "trim" \in MayFail /\ UNCHANGED <<rows, trimmed>>
             /\ pc' = cont
             /\ pushed' = 0
             /\ cont' = "frame"
             /\ UNCHANGED <<ring, generation, saved, clearing, clock, forgotten, failed,
                            requests, starts>>

-----------------------------------------------------------------------------
(* The requests of the user.                                               *)

(* db_delete_topic_messages: DELETE ... WHERE topic = ?. *)
RowsWithout(t) == Kept(rows, {k \in DOMAIN rows : rows[k].topic # t})

Mutant_ClearTopicFlushLast(t) ==
    /\ pc = "frame"
    /\ requests < MaxRequests
    /\ requests' = requests + 1
    /\ clearing' = t
    /\ rows' = RowsWithout(t)
    /\ forgotten' = [forgotten EXCEPT ![t] = clock]
    /\ FlushBegin("remove")
    /\ UNCHANGED <<ring, generation, clock, trimmed, failed, starts>>

(* Clear History on topic t: first everything is flushed ... *)
ClearTopic(t) == /\ pc = "frame"
                 /\ requests < MaxRequests
                 /\ requests' = requests + 1
                 /\ clearing' = t
                 /\ FlushBegin("delete")
                 /\ UNCHANGED <<ring, generation, rows, clock, ghosts, starts>>

(* ... then db_delete_topic_messages ... *)
ClearRows == /\ pc = "delete"
             /\ \/ /\ rows' = RowsWithout(clearing)
                   /\ forgotten' = [forgotten EXCEPT ![clearing] = clock]
                \/ "delete" \in MayFail /\ UNCHANGED <<rows, forgotten>>
             /\ pc' = "remove"
             /\ UNCHANGED <<ring, generation, saved, pushed, cont, clearing, clock,
                            trimmed, failed, requests, starts>>

Mutant_ClearRing ==
    /\ pc = "remove"
    /\ ring' = Ring!Without(clearing)
    /\ generation' = IF ring' = ring THEN generation ELSE generation + 1
    /\ pc' = "frame"
    /\ UNCHANGED <<saved, rows, pushed, cont, clearing, clock, ghosts, requests,
                   starts>>

(* ... and message_buf_remove_topic: what is left in the ring counts as    *)
(* saved.                                                                  *)
ClearRing == /\ pc = "remove"
             /\ ring' = Ring!Without(clearing)
             /\ generation' = IF ring' = ring THEN generation ELSE generation + 1
             /\ saved' = generation'
             /\ clearing' = Unset
             /\ pc' = "frame"
             /\ UNCHANGED <<rows, pushed, cont, clock, ghosts, requests, starts>>

(* Disconnect: message_buf_clear, without a flush. *)
Disconnect == /\ pc = "frame"
              /\ requests < MaxRequests
              /\ requests' = requests + 1
              /\ Ring!Clear
              /\ saved' = generation'
              /\ UNCHANGED <<rows, pc, pushed, cont, clearing, clock, ghosts,
                             starts>>

(* The window is closed: a last flush, then the process ends. *)
Quit == /\ pc = "frame"
        /\ FlushBegin("down")
        /\ UNCHANGED <<ring, generation, rows, clearing, clock, ghosts, requests,
                       starts>>

(* The process is killed.  What it had in memory is gone with it. *)
Crash == /\ pc # "down"
         /\ pc' = "down"
         /\ ring' = <<>>
         /\ generation' = 0
         /\ saved' = 0
         /\ pushed' = 0
         /\ cont' = "frame"
         /\ clearing' = Unset
         /\ UNCHANGED <<rows, clock, ghosts, requests, starts>>

(* The program is not running. *)
Off == pc = "down" /\ UNCHANGED vars

Flush == FlushBatch \/ FlushTrim

User == Disconnect \/ Quit \/ \E t \in Topics : ClearTopic(t)

Next == \/ Start \/ Crash \/ Off \/ User
        \/ \E t \in Topics : Receive(t)
        \/ FlushTimer \/ Flush \/ ClearRows \/ ClearRing

Spec == Init /\ [][Next]_vars

(* The frame loop goes on, so its timer fires again and again, and the     *)
(* calls made from it return.                                              *)
Fairness == /\ WF_vars(FlushTimer)
            /\ WF_vars(Flush \/ ClearRows \/ ClearRing)

FairSpec == Spec /\ Fairness

-----------------------------------------------------------------------------
TypeOK == /\ ring \in Seq(Message) /\ Len(ring) <= RingCapacity
          /\ generation \in Nat /\ Len(ring) <= generation
          /\ saved \in 0 .. generation
          /\ rows \in Seq(Message)
          /\ pc \in {"down", "frame", "batch", "delete", "remove"}
          /\ pushed \in Nat
          /\ cont \in {"frame", "delete", "down"}
          /\ clearing \in Topics
          /\ clock \in 0 .. MaxMessages
          /\ forgotten \in [Topics -> 0 .. clock]
          /\ trimmed \in 0 .. clock
          /\ failed \subseteq 1 .. clock
          /\ requests \in 0 .. MaxRequests
          /\ starts \in 0 .. MaxStarts

(* Every message is stored at most once and in the order of arrival,       *)
(* whatever was loaded, evicted, cleared or interrupted: the batches of    *)
(* db_flush_history neither overlap nor swap.                              *)
RowsInOrder == \A j, k \in DOMAIN rows : j < k => rows[j].time < rows[k].time

(* A record of the ring that counts as saved (history_saved) is missing in *)
(* the table only if it was trimmed since or in a batch whose transaction  *)
(* failed, which db_flush_history does not try again: no position computed *)
(* from generations skips a record.  (Clear History deletes the rows of    *)
(* the topic one step before it removes the topic from the ring.)          *)
SavedUnlessFailed ==
    pc # "down" =>
        \A k \in DOMAIN ring :
            WindowStart + k <= saved =>
                \/ ring[k] \in ToSet(rows)
                \/ ring[k].time <= trimmed
                \/ ring[k].time \in failed
                \/ pc = "remove" /\ ring[k].topic = clearing

(* What db.h says of history_saved: it is "the generation up to which      *)
(* everything is on disk".  db_flush_history does not look at the result   *)
(* of db_save_messages and counts a batch that was rolled back as saved.   *)
SavedIsOnDisk ==
    pc # "down" =>
        \A k \in DOMAIN ring :
            WindowStart + k <= saved =>
                \/ ring[k] \in ToSet(rows)
                \/ ring[k].time <= trimmed
                \/ pc = "remove" /\ ring[k].topic = clearing

(* After a Clear History whose DELETE went through, no message of before   *)
(* on that topic is left, in the ring or in the table, and none comes back *)
(* with a later flush, a load or a restart.                                *)
ClearedStaysCleared ==
    /\ \A r \in ToSet(rows) : r.time > forgotten[r.topic]
    /\ pc \notin {"down", "remove"} => \A r \in ToSet(ring) : r.time > forgotten[r.topic]

(* What is on disk goes only with Clear History of its topic or, the       *)
(* oldest rows first, when MaxRows newer ones are there.                   *)
DiskKeeps ==
    [][\A r \in ToSet(rows) \ ToSet(rows') :
           \/ pc = "delete" /\ r.topic = clearing
           \/ Len(rows') = MaxRows /\ \A s \in ToSet(rows') : r.time < s.time]_vars

(* Messages "are stored in a local SQLite database across sessions": the   *)
(* Disconnect button drops none that has not been stored.                  *)
StoredAcrossSessions ==
    [][Disconnect => \A r \in ToSet(ring) : r \in ToSet(rows) \/ r.time <= trimmed]_vars

(* Every message in the ring gets its row (once, if its transaction does   *)
(* not fail), unless the process dies or the message is evicted, cleared   *)
(* or disconnected away before the next flush.                             *)
EventuallySaved ==
    \A n \in 1 .. MaxMessages :
        (pc # "down" /\ n \in Times(ring)) ~>
            \/ n \in Times(rows) \/ n <= trimmed \/ n \in failed
            \/ pc = "down" \/ n \notin Times(ring)
=============================================================================
