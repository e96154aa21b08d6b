----------------------------- MODULE RecordLog -----------------------------
(***************************************************************************)
(* What src/model/message_buf.h promises of the message history: the       *)
(* newest Capacity records in the order of arrival, and a generation that  *)
(* changes whenever they do (the history views and db_flush_history rely   *)
(* on it).                                                                 *)
(***************************************************************************)
EXTENDS Naturals, Sequences, Subsequence

CONSTANTS Capacity,  \* the most records kept
          Records    \* the records, each with a field topic

VARIABLES log, generation

logVars == <<log, generation>>

Init == log = <<>> /\ generation = 0

(* The log with one more record, without its oldest one if it was full. *)
Pushed(r) == Append(IF Len(log) = Capacity THEN Tail(log) ELSE log, r)

Without(t) == Kept(log, {k \in DOMAIN log : log[k].topic # t})

Push(r) == log' = Pushed(r) /\ generation' = generation + 1

Clear == log' = <<>> /\ generation' = generation + 1

RemoveTopic(t) == /\ Without(t) # log
                  /\ log' = Without(t)
                  /\ generation' = generation + 1

Next == \/ Clear
        \/ \E r \in Records : Push(r) \/ RemoveTopic(r.topic)

Spec == Init /\ [][Next]_logVars
=============================================================================
