-------------------------- MODULE MessageBufProofs --------------------------
(***************************************************************************)
(* Proofs about MessageBuf, for every capacity, every set of topics and    *)
(* every heap.                                                             *)
(***************************************************************************)
EXTENDS MessageBuf, SubsequenceProofs, TLAPS

(* OneOwner is inductive only as a whole. *)
IndInv == TypeOK /\ OneOwner

-----------------------------------------------------------------------------
(* The slot of a position without the remainder. *)
LEMMA SlotStep ==
    ASSUME NEW h \in Slots, NEW k \in 0 .. Capacity
    PROVE  (h + k) % Capacity = IF h + k < Capacity THEN h + k ELSE h + k - Capacity
<1>1. CASE h + k < Capacity
  BY <1>1, CapacityAssumption DEF Slots
<1>2. CASE h + k >= Capacity
  BY <1>2, CapacityAssumption DEF Slots
<1> QED BY <1>1, <1>2, CapacityAssumption DEF Slots

(* Positions have slots of their own. *)
LEMMA SlotsApart ==
    ASSUME NEW h \in Slots, NEW k \in 0 .. Capacity - 1, NEW l \in 0 .. Capacity - 1
    PROVE  /\ (h + k) % Capacity \in Slots
           /\ (h + k) % Capacity = (h + l) % Capacity => k = l
<1>1. (h + k) % Capacity = IF h + k < Capacity THEN h + k ELSE h + k - Capacity
  BY SlotStep, CapacityAssumption
<1>2. (h + l) % Capacity = IF h + l < Capacity THEN h + l ELSE h + l - Capacity
  BY SlotStep, CapacityAssumption
<1> QED BY <1>1, <1>2, CapacityAssumption DEF Slots

(* Position Capacity is position 0 again, and after the head has moved on  *)
(* every position is the one after it of before.                           *)
LEMMA SlotsTurn ==
    ASSUME NEW h \in Slots
    PROVE  /\ (h + 1) % Capacity \in Slots
           /\ (h + Capacity) % Capacity = (h + 0) % Capacity
           /\ \A k \in 0 .. Capacity - 1 :
                  (((h + 1) % Capacity) + k) % Capacity = (h + (k + 1)) % Capacity
<1>1. (h + 1) % Capacity = IF h + 1 < Capacity THEN h + 1 ELSE h + 1 - Capacity
  BY SlotStep, CapacityAssumption
<1>2. (h + 1) % Capacity \in Slots
  BY <1>1, CapacityAssumption DEF Slots
<1>3. (h + Capacity) % Capacity = (h + 0) % Capacity
  <2>1. (h + Capacity) % Capacity
            = IF h + Capacity < Capacity THEN h + Capacity ELSE h + Capacity - Capacity
    BY SlotStep, CapacityAssumption
  <2>2. (h + 0) % Capacity = IF h + 0 < Capacity THEN h + 0 ELSE h + 0 - Capacity
    BY SlotStep, CapacityAssumption
  <2> QED BY <2>1, <2>2, CapacityAssumption DEF Slots
<1>4. ASSUME NEW k \in 0 .. Capacity - 1
      PROVE  (((h + 1) % Capacity) + k) % Capacity = (h + (k + 1)) % Capacity
  <2> DEFINE g == (h + 1) % Capacity
  <2>1. (g + k) % Capacity = IF g + k < Capacity THEN g + k ELSE g + k - Capacity
    BY <1>2, SlotStep, CapacityAssumption
  <2>2. (h + (k + 1)) % Capacity
            = IF h + (k + 1) < Capacity THEN h + (k + 1) ELSE h + (k + 1) - Capacity
    BY SlotStep, CapacityAssumption
  <2> QED BY <1>1, <2>1, <2>2, CapacityAssumption DEF Slots
<1> QED BY <1>2, <1>3, <1>4

(* In a typed state the held positions are positions of the ring. *)
LEMMA HeldRange ==
    ASSUME TypeOK
    PROVE  /\ Held \subseteq 0 .. Capacity - 1
           /\ pc = "idle" => Held = 0 .. count - 1
           /\ \A k \in 0 .. Capacity - 1 : Slot(k) \in Slots
           /\ \A k, l \in 0 .. Capacity - 1 : Slot(k) = Slot(l) => k = l
<1>1. Held \subseteq 0 .. Capacity - 1
  BY CapacityAssumption DEF TypeOK, Held
<1>2. pc = "idle" => Held = 0 .. count - 1
  BY CapacityAssumption DEF TypeOK, Held
<1>3. \A k, l \in 0 .. Capacity - 1 : Slot(k) \in Slots /\ (Slot(k) = Slot(l) => k = l)
  BY SlotsApart DEF TypeOK, Slot
<1> QED BY <1>1, <1>2, <1>3

(* An empty ring owns nothing. *)
LEMMA InitInv == Init => IndInv
<1> SUFFICES ASSUME Init PROVE IndInv
  OBVIOUS
<1>1. TypeOK
  BY CapacityAssumption DEF Init, TypeOK, Slots, Entry
<1>2. Held = {}
  BY DEF Init, Held
<1> QED BY <1>1, <1>2 DEF Init, IndInv, OneOwner, NoDanglingPayload, NoSharedPayload, NoLeak

-----------------------------------------------------------------------------
(* Every step keeps the types. *)
LEMMA NextType == TypeOK /\ [Next]_vars => TypeOK'
<1> SUFFICES ASSUME TypeOK, [Next]_vars PROVE TypeOK'
  OBVIOUS
<1> USE CapacityAssumption, HeldRange DEF TypeOK
<1>1. ASSUME NEW t \in Topics, NEW p \in Blocks \cup {Null}, Push(t, p) PROVE TypeOK'
  <2>1. entries' \in [Slots -> Entry]
    BY <1>1 DEF Push, Entry
  <2>2. head' \in Slots /\ count' \in 0 .. Capacity
    BY <1>1, SlotsTurn DEF Push
  <2>3. live' \subseteq Blocks
    BY <1>1 DEF Push, Freed
  <2>4. /\ i = 0 /\ kept = 0 /\ generation' \in Nat
        /\ UNCHANGED <<pc, topic, i, kept>>
    BY <1>1 DEF Push
  <2> QED BY <2>1, <2>2, <2>3, <2>4
<1>2. CASE Clear
  <2>1. entries' \in [Slots -> Entry]
    BY <1>2 DEF Clear, Entry
  <2> QED BY <1>2, <2>1 DEF Clear, Freed, Slots
<1>3. ASSUME NEW t \in Topics, RemoveBegin(t) PROVE TypeOK'
  BY <1>3 DEF RemoveBegin
<1>4. CASE RemoveDrop
  <2>1. i \in 0 .. Capacity - 1
    BY <1>4 DEF RemoveDrop
  <2>2. entries' \in [Slots -> Entry]
    BY <1>4, <2>1 DEF RemoveDrop, Entry
  <2> QED BY <1>4, <2>2 DEF RemoveDrop, Freed
<1>5. CASE RemoveKeep
  <2>1. i \in 0 .. Capacity - 1 /\ kept \in 0 .. Capacity - 1
    BY <1>5 DEF RemoveKeep
  <2>2. entries' \in [Slots -> Entry]
    BY <1>5, <2>1 DEF RemoveKeep
  <2> QED BY <1>5, <2>2 DEF RemoveKeep
<1>6. CASE RemoveEnd
  BY <1>6 DEF RemoveEnd
<1>7. CASE UNCHANGED vars
  BY <1>7 DEF vars
<1> QED BY <1>1, <1>2, <1>3, <1>4, <1>5, <1>6, <1>7 DEF Next, Read

(* message_buf_push gives the new record a block of its own, after the     *)
(* evicted one has given back its block.                                   *)
LEMMA PushOwns ==
    ASSUME IndInv, NEW t \in Topics, NEW p \in Blocks \cup {Null}, Push(t, p)
    PROVE  OneOwner'
<1> USE CapacityAssumption, NullAssumption DEF IndInv
<1>1. /\ TypeOK /\ head \in Slots /\ count \in 0 .. Capacity
      /\ pc = "idle" /\ i = 0 /\ kept = 0 /\ live \subseteq Blocks
      /\ entries \in [Slots -> Entry]
  BY DEF Push, TypeOK
<1>2. \A k \in 0 .. count - 1 : Payload(k) \in live \cup {Null}
  BY <1>1, HeldRange DEF OneOwner, NoDanglingPayload
<1>3. \A k, l \in 0 .. count - 1 : k # l /\ Payload(k) # Null => Payload(k) # Payload(l)
  BY <1>1, HeldRange DEF OneOwner, NoSharedPayload
<1>4. \A b \in live : \E k \in 0 .. count - 1 : Payload(k) = b
  BY <1>1, HeldRange DEF OneOwner, NoLeak
<1>5. CASE count < Capacity
  <2>1. /\ count' = count + 1 /\ head' = head
        /\ live' = live \cup ({p} \ {Null})
        /\ p \notin live
        /\ entries' = [entries EXCEPT ![Slot(count)] = [topic |-> t, payload |-> p]]
    BY <1>1, <1>5 DEF Push
  <2>2. Held' = 0 .. count
    BY <1>1, <2>1 DEF Held, Push
  <2>3. \A k \in 0 .. count : Payload(k)' = IF k = count THEN p ELSE Payload(k)
    <3> SUFFICES ASSUME NEW k \in 0 .. count
                 PROVE  Payload(k)' = IF k = count THEN p ELSE Payload(k)
      OBVIOUS
    <3>1. /\ Slot(k)' = Slot(k)
          /\ Slot(k) \in Slots /\ Slot(count) \in Slots
          /\ Slot(k) = Slot(count) => k = count
      <4>1. k \in 0 .. Capacity - 1 /\ count \in 0 .. Capacity - 1
        BY <1>1, <1>5
      <4>2. Slot(k)' = Slot(k)
        BY <2>1 DEF Slot
      <4> QED BY <1>1, <4>1, <4>2, HeldRange
    <3> QED BY <1>1, <2>1, <3>1 DEF Payload
  <2>4. NoDanglingPayload'
    BY <1>1, <1>2, <2>1, <2>2, <2>3 DEF NoDanglingPayload
  <2>5. NoSharedPayload'
    BY <1>1, <1>2, <1>3, <2>1, <2>2, <2>3 DEF NoSharedPayload
  <2>6. NoLeak'
    BY <1>1, <1>4, <2>1, <2>2, <2>3 DEF NoLeak
  <2> QED BY <2>4, <2>5, <2>6 DEF OneOwner
<1>6. CASE count = Capacity
  <2>1. Slot(count) = Slot(0) /\ Slot(0) \in Slots
    BY <1>1, <1>6, SlotsTurn, HeldRange DEF Slot
  <2>2. /\ count' = Capacity /\ head' = (head + 1) % Capacity
        /\ live' = (live \ {Payload(0)}) \cup ({p} \ {Null})
        /\ p = Null \/ p \notin live \ {Payload(0)}
        /\ entries' = [entries EXCEPT ![Slot(0)] = [topic |-> t, payload |-> p]]
    BY <1>1, <1>6, <2>1 DEF Push, Freed, Payload
  <2>3. Held' = 0 .. Capacity - 1
    BY <1>1, <2>2 DEF Held, Push
  <2>4. \A k \in 0 .. Capacity - 1 : Slot(k)' = Slot(k + 1)
    BY <1>1, <2>2, SlotsTurn DEF Slot
  <2>5. Payload(Capacity - 1)' = p
    BY <1>1, <1>6, <2>1, <2>2, <2>4 DEF Payload
  <2>6. \A k \in 0 .. Capacity - 2 : Payload(k)' = Payload(k + 1)
    <3> SUFFICES ASSUME NEW k \in 0 .. Capacity - 2
                 PROVE  entries'[Slot(k)'] = entries[Slot(k + 1)]
      BY DEF Payload
    <3>1. Slot(k)' = Slot(k + 1) /\ Slot(k + 1) # Slot(0) /\ Slot(k + 1) \in Slots
      BY <1>1, <2>4, HeldRange
    <3> QED BY <1>1, <2>2, <3>1
  <2>7. NoDanglingPayload'
    <3> SUFFICES ASSUME NEW k \in 0 .. Capacity - 1
                 PROVE  Payload(k)' \in live' \cup {Null}
      BY <2>3 DEF NoDanglingPayload
    <3>1. CASE k = Capacity - 1
      BY <2>2, <2>5, <3>1
    <3>2. CASE k < Capacity - 1
      <4>1. Payload(k)' = Payload(k + 1) /\ k + 1 \in 0 .. count - 1 /\ 0 \in 0 .. count - 1
        BY <1>6, <2>6, <3>2
      <4> QED BY <1>2, <1>3, <2>2, <4>1
    <3> QED BY <3>1, <3>2
  <2>8. NoSharedPayload'
    <3>1. \A k \in 0 .. Capacity - 2 : Payload(k)' # Null => Payload(k)' \in live \ {Payload(0)}
      <4> SUFFICES ASSUME NEW k \in 0 .. Capacity - 2, Payload(k + 1) # Null
                   PROVE  Payload(k + 1) \in live \ {Payload(0)}
        BY <2>6
      <4>1. k + 1 \in 0 .. count - 1 /\ 0 \in 0 .. count - 1 /\ k + 1 # 0
        BY <1>6
      <4> QED BY <1>2, <1>3, <4>1
    <3>2. \A k, l \in 0 .. Capacity - 2 :
              k # l /\ Payload(k)' # Null => Payload(k)' # Payload(l)'
      <4> SUFFICES ASSUME NEW k \in 0 .. Capacity - 2, NEW l \in 0 .. Capacity - 2,
                          k # l, Payload(k + 1) # Null
                   PROVE  Payload(k + 1) # Payload(l + 1)
        BY <2>6
      <4>1. k + 1 \in 0 .. count - 1 /\ l + 1 \in 0 .. count - 1 /\ k + 1 # l + 1
        BY <1>6
      <4> QED BY <1>3, <4>1
    <3>3. SUFFICES ASSUME NEW k \in 0 .. Capacity - 1, NEW l \in 0 .. Capacity - 1,
                          k # l, Payload(k)' # Null
                   PROVE  Payload(k)' # Payload(l)'
      BY <2>3 DEF NoSharedPayload
    <3>4. CASE k = Capacity - 1
      BY <2>2, <2>5, <3>1, <3>3, <3>4
    <3>5. CASE l = Capacity - 1
      BY <2>2, <2>5, <3>1, <3>3, <3>5
    <3>6. CASE k # Capacity - 1 /\ l # Capacity - 1
      <4>1. k \in 0 .. Capacity - 2 /\ l \in 0 .. Capacity - 2
        BY <3>6
      <4> QED BY <3>2, <3>3, <4>1
    <3> QED BY <3>4, <3>5, <3>6
  <2>9. NoLeak'
    <3> SUFFICES ASSUME NEW b \in live' PROVE \E k \in 0 .. Capacity - 1 : Payload(k)' = b
      BY <2>3 DEF NoLeak
    <3>1. CASE b = p
      BY <2>5, <3>1
    <3>2. CASE b \in live \ {Payload(0)}
      <4>1. PICK k \in 0 .. count - 1 : Payload(k) = b
        BY <1>4, <3>2
      <4>2. k # 0 /\ k - 1 \in 0 .. Capacity - 2 /\ (k - 1) + 1 = k
        BY <1>6, <3>2, <4>1
      <4>3. Payload(k - 1)' = b
        BY <2>6, <4>1, <4>2
      <4> QED BY <4>2, <4>3
    <3> QED BY <2>2, <3>1, <3>2
  <2> QED BY <2>7, <2>8, <2>9 DEF OneOwner
<1> QED BY <1>1, <1>5, <1>6

(* message_buf_clear frees all there is. *)
LEMMA ClearOwns ==
    ASSUME IndInv, Clear
    PROVE  OneOwner'
<1>1. Held' = {}
  BY DEF Held, Clear, IndInv, TypeOK
<1>2. Held = 0 .. count - 1
  BY HeldRange DEF IndInv, Clear
<1>3. live' = live \ {Payload(k) : k \in 0 .. count - 1}
  BY DEF Clear, Freed, Payload
<1>4. live' = {}
  BY <1>2, <1>3 DEF IndInv, OneOwner, NoLeak
<1> QED BY <1>1, <1>4 DEF OneOwner, NoDanglingPayload, NoSharedPayload, NoLeak

(* A turn of message_buf_remove_topic that drops a record frees a block    *)
(* that no other record has.                                               *)
LEMMA DropOwns ==
    ASSUME IndInv, RemoveDrop
    PROVE  OneOwner'
<1> USE DEF IndInv
<1>1. /\ i \in 0 .. count - 1 /\ i \in 0 .. Capacity - 1 /\ i \in Held
      /\ kept \in 0 .. i /\ count \in 0 .. Capacity
      /\ entries \in [Slots -> Entry]
  BY CapacityAssumption DEF RemoveDrop, TypeOK, Held
<1>2. Held' = Held \ {i}
  BY <1>1 DEF RemoveDrop, Held
<1>3. live' = live \ {Payload(i)}
  BY DEF RemoveDrop, Freed, Payload
<1>4. \A k \in Held' : Payload(k)' = Payload(k)
  <2> SUFFICES ASSUME NEW k \in Held' PROVE Payload(k)' = Payload(k)
    OBVIOUS
  <2>1. k \in 0 .. Capacity - 1 /\ Slot(k) # Slot(i) /\ Slot(k) \in Slots /\ Slot(i) \in Slots
    BY <1>1, <1>2, HeldRange
  <2>2. Slot(k)' = Slot(k)
    BY DEF RemoveDrop, Slot
  <2> QED BY <1>1, <2>1, <2>2 DEF RemoveDrop, Payload
<1>5. NoDanglingPayload'
  BY <1>1, <1>2, <1>3, <1>4 DEF OneOwner, NoDanglingPayload, NoSharedPayload
<1>6. NoSharedPayload'
  BY <1>2, <1>4 DEF OneOwner, NoSharedPayload
<1>7. NoLeak'
  BY <1>2, <1>3, <1>4 DEF OneOwner, NoLeak
<1> QED BY <1>5, <1>6, <1>7 DEF OneOwner

(* A turn that keeps a record moves it to a position no held record has. *)
LEMMA KeepOwns ==
    ASSUME IndInv, RemoveKeep
    PROVE  OneOwner'
<1> USE DEF IndInv
<1>1. /\ i \in 0 .. count - 1 /\ i \in 0 .. Capacity - 1 /\ i \in Held
      /\ kept \in 0 .. i /\ kept \in 0 .. Capacity - 1 /\ count \in 0 .. Capacity
      /\ entries \in [Slots -> Entry]
  BY CapacityAssumption DEF RemoveKeep, TypeOK, Held
<1>2. Held' = (Held \ {i}) \cup {kept} /\ kept \notin Held \ {i}
  BY <1>1 DEF RemoveKeep, Held
<1>3. live' = live
  BY DEF RemoveKeep
<1>4. \A k \in Held' : Payload(k)' = IF k = kept THEN Payload(i) ELSE Payload(k)
  <2> SUFFICES ASSUME NEW k \in Held'
               PROVE  Payload(k)' = IF k = kept THEN Payload(i) ELSE Payload(k)
    OBVIOUS
  <2>1. Slot(k)' = Slot(k)
    BY DEF RemoveKeep, Slot
  <2>2. /\ Slot(k) \in Slots /\ Slot(kept) \in Slots
        /\ Slot(k) = Slot(kept) => k = kept
    BY <1>1, <1>2, HeldRange
  <2> QED BY <1>1, <2>1, <2>2 DEF RemoveKeep, Payload
<1>5. NoDanglingPayload'
  BY <1>1, <1>2, <1>3, <1>4 DEF OneOwner, NoDanglingPayload
<1>6. NoSharedPayload'
  BY <1>1, <1>2, <1>4 DEF OneOwner, NoSharedPayload
<1>7. NoLeak'
  BY <1>1, <1>2, <1>3, <1>4 DEF OneOwner, NoLeak
<1> QED BY <1>5, <1>6, <1>7 DEF OneOwner

(* A step that moves no record and holds the same positions changes no     *)
(* owner.                                                                  *)
LEMMA SameOwners ==
    ASSUME OneOwner, Held' = Held, UNCHANGED <<entries, head, live>>
    PROVE  OneOwner'
<1>1. \A k : Payload(k)' = Payload(k)
  BY DEF Payload, Slot
<1> QED BY <1>1 DEF OneOwner, NoDanglingPayload, NoSharedPayload, NoLeak

(* Every step keeps the invariant: one step of the proof per action. *)
LEMMA NextInv == IndInv /\ [Next]_vars => IndInv'
<1> SUFFICES ASSUME IndInv, [Next]_vars PROVE OneOwner'
  BY NextType DEF IndInv
<1>1. ASSUME NEW t \in Topics, NEW p \in Blocks \cup {Null}, Push(t, p) PROVE OneOwner'
  BY <1>1, PushOwns
<1>2. CASE Clear
  BY <1>2, ClearOwns
<1>3. ASSUME NEW t \in Topics, RemoveBegin(t) PROVE OneOwner'
  <2>1. Held' = Held
    BY <1>3 DEF RemoveBegin, Held, IndInv, TypeOK
  <2> QED BY <1>3, <2>1, SameOwners DEF RemoveBegin, IndInv
<1>4. CASE RemoveDrop
  BY <1>4, DropOwns
<1>5. CASE RemoveKeep
  BY <1>5, KeepOwns
<1>6. CASE RemoveEnd
  <2>1. Held' = Held
    BY <1>6 DEF RemoveEnd, Held, IndInv, TypeOK
  <2> QED BY <1>6, <2>1, SameOwners DEF RemoveEnd, IndInv
<1>7. CASE UNCHANGED vars
  <2>1. Held' = Held
    BY <1>7 DEF vars, Held
  <2> QED BY <1>7, <2>1, SameOwners DEF vars, IndInv
<1> QED BY <1>1, <1>2, <1>3, <1>4, <1>5, <1>6, <1>7 DEF Next, Read

-----------------------------------------------------------------------------
(* The invariant holds in every reachable state of the ring. *)
THEOREM Invariance == Spec => []IndInv
BY InitInv, NextInv, PTL DEF Spec

(* Indices and counters of the ring stay in range: message_buf.c never     *)
(* reaches past its slots.                                                 *)
THEOREM TypeCorrect == Spec => []TypeOK
BY Invariance, PTL DEF IndInv

(* Every payload in the ring is allocated and has one owner, also in the   *)
(* middle of message_buf_remove_topic, and nothing else is allocated: no   *)
(* use after free, no double free and no leak.                             *)
THEOREM PayloadsHaveOneOwner == Spec => []OneOwner
BY Invariance, PTL DEF IndInv

-----------------------------------------------------------------------------
(* The refinement of RecordLog.  The proof sees the ring as stretches of    *)
(* consecutive positions.                                                  *)

(* The records at n positions from position a on, of slots e from head h. *)
Stretch(e, h, a, n) == [k \in 1 .. n |-> e[(h + (a + k - 1)) % Capacity]]

(* Slots e and f have the same records at the positions from a to b. *)
Agree(e, f, h, a, b) ==
    \A j \in a .. b : f[(h + j) % Capacity] = e[(h + j) % Capacity]

(* The records of sequence s that message_buf_remove_topic keeps. *)
OthersOf(s, t) == Kept(s, {k \in DOMAIN s : s[k].topic # t})

(* A stretch is a sequence of records. *)
LEMMA StretchFacts ==
    ASSUME NEW e \in [Slots -> Entry], NEW h \in Slots,
           NEW a \in Nat, NEW n \in Nat, a + n <= Capacity
    PROVE  /\ Stretch(e, h, a, n) \in Seq(Entry)
           /\ Len(Stretch(e, h, a, n)) = n
           /\ \A k \in 1 .. n : Stretch(e, h, a, n)[k] = e[(h + (a + k - 1)) % Capacity]
<1>1. ASSUME NEW k \in 1 .. n PROVE e[(h + (a + k - 1)) % Capacity] \in Entry
  <2>1. a + k - 1 \in 0 .. Capacity - 1
    BY CapacityAssumption
  <2>2. (h + (a + k - 1)) % Capacity \in Slots
    BY <2>1, SlotsApart
  <2> QED BY <2>2
<1>2. Stretch(e, h, a, n) \in [1 .. n -> Entry]
  BY <1>1 DEF Stretch
<1>3. Stretch(e, h, a, n) \in Seq(Entry) /\ Len(Stretch(e, h, a, n)) = n
  BY <1>2, SeqDef
<1> QED BY <1>3 DEF Stretch

(* The same for a stretch from the oldest record on. *)
LEMMA StretchWhole ==
    ASSUME NEW e \in [Slots -> Entry], NEW h \in Slots, NEW n \in Nat, n <= Capacity
    PROVE  /\ Stretch(e, h, 0, n) \in Seq(Entry)
           /\ Len(Stretch(e, h, 0, n)) = n
           /\ \A k \in 1 .. n : Stretch(e, h, 0, n)[k] = e[(h + (k - 1)) % Capacity]
<1> DEFINE a == 0
<1>1. a \in Nat /\ a + n <= Capacity /\ \A k \in 1 .. n : a + k - 1 = k - 1
  BY CapacityAssumption
<1> HIDE DEF a
<1>2. /\ Stretch(e, h, a, n) \in Seq(Entry)
      /\ Len(Stretch(e, h, a, n)) = n
      /\ \A k \in 1 .. n : Stretch(e, h, a, n)[k] = e[(h + (a + k - 1)) % Capacity]
  BY <1>1, StretchFacts
<1>3. \A k \in 1 .. n : Stretch(e, h, a, n)[k] = e[(h + (k - 1)) % Capacity]
  BY <1>1, <1>2
<1> QED BY <1>2, <1>3 DEF a

(* Slots that agree at the positions of a stretch have the same stretch. *)
LEMMA StretchSame ==
    ASSUME NEW e, NEW f, NEW h \in Nat, NEW n \in Nat,
           Agree(e, f, h, 0, n - 1)
    PROVE  Stretch(f, h, 0, n) = Stretch(e, h, 0, n)
<1>1. \A k \in 1 .. n : k - 1 \in 0 .. (n - 1) /\ 0 + k - 1 = k - 1
  OBVIOUS
<1>2. \A k \in 1 .. n : f[(h + (0 + k - 1)) % Capacity] = e[(h + (0 + k - 1)) % Capacity]
  BY <1>1 DEF Agree
<1> QED BY <1>2 DEF Stretch

(* A stretch without its first record. *)
LEMMA StretchTail ==
    ASSUME NEW e \in [Slots -> Entry], NEW f \in [Slots -> Entry], NEW h \in Slots,
           NEW a \in Nat, NEW n \in Nat, n # 0, a + n <= Capacity,
           Agree(e, f, h, a + 1, a + n - 1)
    PROVE  /\ Stretch(e, h, a, n) # <<>>
           /\ Stretch(e, h, a, n)[1] = e[(h + a) % Capacity]
           /\ Tail(Stretch(e, h, a, n)) = Stretch(f, h, a + 1, n - 1)
<1> DEFINE s == Stretch(e, h, a, n)
           u == Stretch(f, h, a + 1, n - 1)
<1>1. /\ s \in Seq(Entry) /\ Len(s) = n
      /\ \A k \in 1 .. n : s[k] = e[(h + (a + k - 1)) % Capacity]
  BY StretchFacts
<1>2. /\ u \in Seq(Entry) /\ Len(u) = n - 1
      /\ \A k \in 1 .. (n - 1) : u[k] = f[(h + ((a + 1) + k - 1)) % Capacity]
  <2>1. a + 1 \in Nat /\ n - 1 \in Nat /\ (a + 1) + (n - 1) <= Capacity
    BY CapacityAssumption
  <2> QED BY <2>1, StretchFacts, ZenonT(60)
<1> HIDE DEF s, u
<1>3. s # <<>>
  BY <1>1, EmptySeq
<1>4. s[1] = e[(h + a) % Capacity]
  <2>1. 1 \in 1 .. n /\ a + 1 - 1 = a
    OBVIOUS
  <2> QED BY <1>1, <2>1
<1>5. /\ Tail(s) \in Seq(Entry) /\ Len(Tail(s)) = n - 1
      /\ \A k \in 1 .. (n - 1) : Tail(s)[k] = s[k + 1]
  BY <1>1, <1>3, HeadTailProperties
<1>6. ASSUME NEW k \in 1 .. (n - 1) PROVE Tail(s)[k] = u[k]
  <2>1. /\ k + 1 \in 1 .. n /\ a + (k + 1) - 1 = a + k /\ (a + 1) + k - 1 = a + k
        /\ a + k \in (a + 1) .. (a + n - 1)
    OBVIOUS
  <2>2. Tail(s)[k] = e[(h + (a + k)) % Capacity]
    BY <1>1, <1>5, <2>1
  <2>3. u[k] = f[(h + (a + k)) % Capacity]
    BY <1>2, <2>1
  <2> QED BY <2>1, <2>2, <2>3 DEF Agree
<1>7. Tail(s) = u
  BY <1>2, <1>5, <1>6, SeqEqual
<1> QED BY <1>3, <1>4, <1>7 DEF s, u

(* A stretch with one more record at its end. *)
LEMMA StretchMore ==
    ASSUME NEW e \in [Slots -> Entry], NEW f \in [Slots -> Entry], NEW h \in Slots,
           NEW n \in Nat, n < Capacity,
           Agree(e, f, h, 0, n - 1)
    PROVE  Stretch(f, h, 0, n + 1) = Append(Stretch(e, h, 0, n), f[(h + n) % Capacity])
<1> DEFINE s == Stretch(e, h, 0, n)
           u == Stretch(f, h, 0, n + 1)
           x == f[(h + n) % Capacity]
<1>1. /\ s \in Seq(Entry) /\ Len(s) = n
      /\ \A k \in 1 .. n : s[k] = e[(h + (k - 1)) % Capacity]
  <2>1. n <= Capacity
    BY CapacityAssumption
  <2> QED BY <2>1, StretchWhole
<1>2. /\ u \in Seq(Entry) /\ Len(u) = n + 1
      /\ \A k \in 1 .. (n + 1) : u[k] = f[(h + (k - 1)) % Capacity]
  <2>1. n + 1 \in Nat /\ n + 1 <= Capacity
    BY CapacityAssumption
  <2> QED BY <2>1, StretchWhole
<1>3. x \in Entry
  <2>1. n \in 0 .. Capacity - 1
    BY CapacityAssumption
  <2>2. (h + n) % Capacity \in Slots
    BY <2>1, SlotsApart
  <2> QED BY <2>2
<1>4. u[n + 1] = x
  <2>1. n + 1 \in 1 .. (n + 1) /\ (n + 1) - 1 = n
    OBVIOUS
  <2> QED BY <1>2, <2>1
<1>5. \A k \in 1 .. n : u[k] = s[k]
  <2>1. \A k \in 1 .. n : k \in 1 .. (n + 1) /\ k - 1 \in 0 .. (n - 1)
    OBVIOUS
  <2> QED BY <1>1, <1>2, <2>1 DEF Agree
<1> HIDE DEF s, u, x
<1>6. /\ Append(s, x) \in Seq(Entry) /\ Len(Append(s, x)) = n + 1
      /\ Append(s, x)[n + 1] = x
      /\ \A k \in 1 .. n : Append(s, x)[k] = s[k]
  BY <1>1, <1>3, AppendProperties
<1>7. \A k \in 1 .. (n + 1) : u[k] = Append(s, x)[k]
  BY <1>4, <1>5, <1>6
<1>8. u = Append(s, x)
  BY <1>2, <1>6, <1>7, SeqEqual
<1> QED BY <1>8 DEF s, u, x

(* The kept records are a sequence, no longer than the given one. *)
LEMMA OthersFacts ==
    ASSUME NEW s \in Seq(Entry), NEW t
    PROVE  OthersOf(s, t) \in Seq(Entry) /\ Len(OthersOf(s, t)) <= Len(s)
BY KeptFacts DEF OthersOf

(* The first record is kept or dropped by its topic alone. *)
LEMMA OthersCons ==
    ASSUME NEW s \in Seq(Entry), s # <<>>, NEW t
    PROVE  OthersOf(s, t) = (IF s[1].topic # t THEN <<s[1]>> ELSE <<>>) \o OthersOf(Tail(s), t)
<1> DEFINE K == {k \in DOMAIN s : s[k].topic # t}
           L == {k \in DOMAIN Tail(s) : Tail(s)[k].topic # t}
<1>1. /\ Len(s) \in Nat /\ Len(s) # 0 /\ DOMAIN s = 1 .. Len(s)
      /\ Tail(s) \in Seq(Entry) /\ Len(Tail(s)) = Len(s) - 1
      /\ DOMAIN Tail(s) = 1 .. (Len(s) - 1)
      /\ \A k \in 1 .. (Len(s) - 1) : Tail(s)[k] = s[k + 1]
  BY HeadTailProperties, EmptySeq
<1>2. \A k \in 1 .. (Len(s) - 1) : k \in L <=> k + 1 \in K
  BY <1>1
<1>3. 1 \in K <=> s[1].topic # t
  BY <1>1
<1> HIDE DEF K, L
<1>4. Kept(s, K) = (IF 1 \in K THEN <<s[1]>> ELSE <<>>) \o Kept(Tail(s), L)
  BY <1>2, KeptCons
<1>5. OthersOf(s, t) = Kept(s, K) /\ OthersOf(Tail(s), t) = Kept(Tail(s), L)
  BY DEF OthersOf, K, L
<1> QED BY <1>3, <1>4, <1>5

(* One first record added to each of two sequences keeps them the same or  *)
(* apart.                                                                  *)
LEMMA SameAfterFirst ==
    ASSUME NEW S, NEW x \in S, NEW s \in Seq(S), NEW u \in Seq(S)
    PROVE  (<<x>> \o s = <<x>> \o u) <=> (s = u)
<1>1. ASSUME <<x>> \o s = <<x>> \o u PROVE s = u
  <2>1. <<x>> \in Seq(S) /\ Len(<<x>>) = 1
    OBVIOUS
  <2>2. Len(s) = Len(u) /\ Len(s) \in Nat
    BY <1>1, <2>1, ConcatProperties
  <2>3. ASSUME NEW k \in 1 .. Len(s) PROVE s[k] = u[k]
    <3>1. (<<x>> \o s)[k + 1] = s[k]
      BY <2>1, ConcatProperties
    <3>2. (<<x>> \o u)[k + 1] = u[k]
      BY <2>1, <2>2, ConcatProperties
    <3> QED BY <1>1, <3>1, <3>2
  <2> QED BY <2>2, <2>3, SeqEqual
<1> QED BY <1>1

(* A sequence is its first element and the rest. *)
LEMMA FirstAndRest ==
    ASSUME NEW S, NEW s \in Seq(S), s # <<>>
    PROVE  s = <<s[1]>> \o Tail(s)
<1>1. Len(s) \in Nat /\ Len(s) # 0 /\ s[1] \in S
  BY EmptySeq, ElementOfSeq
<1>2. /\ Tail(s) \in Seq(S) /\ Len(Tail(s)) = Len(s) - 1
      /\ \A k \in 1 .. (Len(s) - 1) : Tail(s)[k] = s[k + 1]
  BY HeadTailProperties
<1>3. <<s[1]>> \in Seq(S) /\ Len(<<s[1]>>) = 1 /\ <<s[1]>>[1] = s[1]
  BY <1>1
<1> DEFINE u == <<s[1]>> \o Tail(s)
<1>4. /\ u \in Seq(S) /\ Len(u) = Len(s)
      /\ \A k \in 1 .. Len(s) : u[k] = IF k <= 1 THEN <<s[1]>>[k] ELSE Tail(s)[k - 1]
  BY <1>1, <1>2, <1>3, ConcatProperties
<1> HIDE DEF u
<1>5. ASSUME NEW k \in 1 .. Len(s) PROVE u[k] = s[k]
  <2>1. CASE k = 1
    BY <1>3, <1>4, <2>1
  <2>2. CASE k # 1
    <3>1. k - 1 \in 1 .. (Len(s) - 1) /\ (k - 1) + 1 = k /\ ~(k <= 1)
      BY <1>1, <2>2
    <3> QED BY <1>2, <1>4, <3>1
  <2> QED BY <2>1, <2>2
<1>6. u = s
  BY <1>4, <1>5, SeqEqual
<1> QED BY <1>6 DEF u

(* RecordLog removes a topic as OthersOf does. *)
LEMMA SameKept == \A s, K : Log!Kept(s, K) = Kept(s, K)
BY DEF Log!Kept, Log!KeptUpTo, Kept, KeptUpTo

(* What the mapping makes of a state. *)
LEMMA MappingIs ==
    ASSUME TypeOK
    PROVE  /\ Seen = Stretch(entries, head, 0, kept)
           /\ Unseen = Stretch(entries, head, i, count - i)
           /\ Others = OthersOf(Unseen, topic)
<1>1. \A k \in 1 .. kept : 0 + k - 1 = k - 1
  BY DEF TypeOK
<1>2. Seen = Stretch(entries, head, 0, kept)
  BY <1>1 DEF Seen, RecordAt, Slot, Stretch
<1>3. Unseen = Stretch(entries, head, i, count - i)
  BY DEF Unseen, RecordAt, Slot, Stretch
<1> QED BY <1>2, <1>3 DEF Others, OthersOf

(* Between calls of the ring the mapping is the ring itself. *)
LEMMA IdleIs ==
    ASSUME TypeOK, pc = "idle"
    PROVE  /\ i = 0 /\ kept = 0
           /\ records = Stretch(entries, head, 0, count)
           /\ changes = generation
<1>1. i = 0 /\ kept = 0 /\ count - 0 = count /\ head \in Slots /\ entries \in [Slots -> Entry]
      /\ count \in Nat /\ count <= Capacity
  BY CapacityAssumption DEF TypeOK
<1>2. Unseen = Stretch(entries, head, 0, count)
  BY <1>1, MappingIs
<1>3. Unseen \in Seq(Entry)
  BY <1>1, <1>2, StretchFacts
<1>4. Seen = <<>>
  BY <1>1 DEF Seen
<1>5. records = Unseen
  BY <1>3, <1>4, ConcatEmptySeq DEF records
<1> QED BY <1>1, <1>2, <1>5 DEF changes

(* Both hold after a step as well. *)
LEMMA MappingNext ==
    /\ TypeOK' => /\ Seen' = Stretch(entries', head', 0, kept')
                  /\ Unseen' = Stretch(entries', head', i', count' - i')
                  /\ Others' = OthersOf(Unseen', topic')
    /\ TypeOK' /\ pc' = "idle" => /\ i' = 0 /\ kept' = 0
                                  /\ records' = Stretch(entries', head', 0, count')
                                  /\ changes' = generation'
<1>1. (TypeOK => /\ Seen = Stretch(entries, head, 0, kept)
                 /\ Unseen = Stretch(entries, head, i, count - i)
                 /\ Others = OthersOf(Unseen, topic))'
  BY MappingIs, PTL
<1>2. (TypeOK /\ pc = "idle" => /\ i = 0 /\ kept = 0
                                /\ records = Stretch(entries, head, 0, count)
                                /\ changes = generation)'
  BY IdleIs, PTL
<1> QED BY <1>1, <1>2

(* message_buf_push appends, dropping the oldest record of a full ring. *)
LEMMA PushLogs ==
    ASSUME TypeOK, TypeOK', NEW t \in Topics, NEW p \in Blocks \cup {Null}, Push(t, p)
    PROVE  Log!Next
<1> DEFINE x == [topic |-> t, payload |-> p]
           s == Stretch(entries, head, 0, count)
<1>1. /\ pc = "idle" /\ pc' = "idle" /\ head \in Slots /\ head' \in Slots
      /\ count \in Nat /\ count <= Capacity /\ generation' = generation + 1
      /\ entries \in [Slots -> Entry] /\ entries' \in [Slots -> Entry]
      /\ entries' = [entries EXCEPT ![Slot(count)] = x]
  BY DEF Push, TypeOK
<1>2. /\ records = s /\ changes = generation
      /\ records' = Stretch(entries', head', 0, count') /\ changes' = generation'
  BY <1>1, IdleIs, MappingNext
<1>3. s \in Seq(Entry) /\ Len(s) = count
  BY <1>1, StretchFacts
<1>4. x \in Entry
  BY DEF Entry
<1> HIDE DEF x, s
<1>5. records' = Append(IF count = Capacity THEN Tail(s) ELSE s, x)
  <2>1. CASE count < Capacity
    <3>1. count' = count + 1 /\ head' = head
      BY <1>1, <2>1 DEF Push
    <3>2. count \in 0 .. Capacity - 1
      BY <1>1, <2>1, CapacityAssumption
    <3>3. Slot(count) \in Slots /\ entries'[(head + count) % Capacity] = x
      BY <1>1, <3>2, HeldRange DEF Slot
    <3>4. Agree(entries, entries', head, 0, count - 1)
      <4> SUFFICES ASSUME NEW j \in 0 .. (count - 1)
                   PROVE  entries'[Slot(j)] = entries[Slot(j)]
        BY DEF Agree, Slot
      <4>1. j \in 0 .. Capacity - 1 /\ j # count
        BY <1>1, CapacityAssumption
      <4>2. Slot(j) \in Slots /\ Slot(j) # Slot(count)
        BY <3>2, <4>1, HeldRange
      <4> QED BY <1>1, <4>2
    <3>5. Stretch(entries', head, 0, count + 1)
              = Append(Stretch(entries, head, 0, count), entries'[(head + count) % Capacity])
      <4>1. /\ entries \in [Slots -> Entry] /\ entries' \in [Slots -> Entry]
            /\ head \in Slots /\ count \in Nat /\ count < Capacity
        BY <1>1, <2>1
      <4> QED BY <3>4, <4>1, StretchMore
    <3>6. records' = Append(s, x)
      BY <1>2, <3>1, <3>3, <3>5, Zenon DEF s
    <3>7. count # Capacity
      BY <1>1, <2>1, CapacityAssumption
    <3> QED BY <3>6, <3>7
  <2>2. CASE count = Capacity
    <3>1. count' = Capacity /\ head' = (head + 1) % Capacity
      BY <1>1, <2>2 DEF Push
    <3>2. Slot(count) = Slot(0) /\ Slot(0) \in Slots
      BY <1>1, <2>2, CapacityAssumption, SlotsTurn, HeldRange DEF Slot
    <3> DEFINE u == Stretch(entries', head', 0, Capacity)
    <3>3. /\ u \in Seq(Entry) /\ Len(u) = Capacity
          /\ \A k \in 1 .. Capacity : u[k] = entries'[(head' + (k - 1)) % Capacity]
      <4>1. Capacity \in Nat /\ Capacity <= Capacity
        BY CapacityAssumption
      <4> QED BY <1>1, <4>1, StretchWhole, ZenonT(60)
    <3>4. \A k \in 1 .. Capacity : u[k] = entries'[(head + k) % Capacity]
      <4> SUFFICES ASSUME NEW k \in 1 .. Capacity
                   PROVE  u[k] = entries'[(head + k) % Capacity]
        OBVIOUS
      <4>1. k - 1 \in 0 .. Capacity - 1 /\ (k - 1) + 1 = k
        BY CapacityAssumption
      <4>2. (head' + (k - 1)) % Capacity = (head + k) % Capacity
        BY <1>1, <3>1, <4>1, SlotsTurn
      <4> QED BY <3>3, <4>1, <4>2
    <3> HIDE DEF u
    <3>5. /\ s # <<>> /\ Tail(s) \in Seq(Entry) /\ Len(Tail(s)) = Capacity - 1
          /\ \A k \in 1 .. (Capacity - 1) : Tail(s)[k] = s[k + 1]
      <4>1. s # <<>>
        BY <1>3, <2>2, CapacityAssumption, EmptySeq
      <4> QED BY <1>3, <2>2, <4>1, HeadTailProperties
    <3>6. \A k \in 1 .. (Capacity - 1) : s[k + 1] = entries[(head + k) % Capacity]
      <4>1. \A k \in 1 .. count : s[k] = entries[(head + (k - 1)) % Capacity]
        BY <1>1, StretchWhole DEF s
      <4>2. \A k \in 1 .. (Capacity - 1) : k + 1 \in 1 .. count /\ (k + 1) - 1 = k
        BY <2>2, CapacityAssumption
      <4> QED BY <4>1, <4>2
    <3>7. /\ Append(Tail(s), x) \in Seq(Entry) /\ Len(Append(Tail(s), x)) = Capacity
          /\ Append(Tail(s), x)[Capacity] = x
          /\ \A k \in 1 .. (Capacity - 1) : Append(Tail(s), x)[k] = Tail(s)[k]
      BY <1>4, <3>5, CapacityAssumption, AppendProperties
    <3>8. u[Capacity] = x
      <4>1. Capacity \in 1 .. Capacity /\ (head + Capacity) % Capacity = Slot(0)
        BY <1>1, CapacityAssumption, SlotsTurn DEF Slot
      <4>2. entries'[Slot(0)] = x
        BY <1>1, <3>2
      <4> QED BY <3>4, <4>1, <4>2
    <3>9. ASSUME NEW k \in 1 .. (Capacity - 1) PROVE u[k] = s[k + 1]
      <4>1. k \in 0 .. Capacity - 1 /\ 0 \in 0 .. Capacity - 1 /\ k # 0 /\ k \in 1 .. Capacity
        BY CapacityAssumption
      <4>2. Slot(k) \in Slots /\ Slot(k) # Slot(0)
        BY <4>1, HeldRange
      <4>3. entries'[Slot(k)] = entries[Slot(k)]
        BY <1>1, <3>2, <4>2
      <4> QED BY <3>4, <3>6, <4>1, <4>3 DEF Slot
    <3>10. \A k \in 1 .. Capacity : u[k] = Append(Tail(s), x)[k]
      BY <3>5, <3>7, <3>8, <3>9, CapacityAssumption
    <3>11. u = Append(Tail(s), x)
      BY <3>3, <3>7, <3>10, SeqEqual
    <3> QED BY <1>2, <2>2, <3>1, <3>11 DEF u
  <2> QED BY <1>1, <2>1, <2>2, CapacityAssumption
<1>6. Log!Push(x)
  BY <1>1, <1>2, <1>3, <1>5 DEF Log!Push, Log!Pushed
<1> QED BY <1>4, <1>6 DEF Log!Next

(* message_buf_clear leaves the log empty. *)
LEMMA ClearLogs ==
    ASSUME TypeOK, TypeOK', Clear
    PROVE  Log!Next
<1>1. /\ pc = "idle" /\ pc' = "idle" /\ count' = 0 /\ generation' = generation + 1
      /\ changes = generation
  BY IdleIs DEF Clear
<1>2. records' = Stretch(entries', head', 0, 0) /\ changes' = generation'
  BY <1>1, MappingNext
<1>3. records' = <<>>
  BY <1>2 DEF Stretch
<1>4. Log!Clear
  BY <1>1, <1>2, <1>3 DEF Log!Clear
<1> QED BY <1>4 DEF Log!Next

(* In the loop the log is what was kept and what is still to be kept. *)
LEMMA LoopIs ==
    ASSUME TypeOK, pc = "remove"
    PROVE  /\ Seen \in Seq(Entry) /\ Unseen \in Seq(Entry) /\ Len(Unseen) = count - i
           /\ Others = OthersOf(Unseen, topic)
           /\ records = Seen \o Others
           /\ changes = IF kept < i \/ Others # Unseen THEN generation + 1 ELSE generation
<1>1. /\ entries \in [Slots -> Entry] /\ head \in Slots /\ kept \in Nat /\ kept <= Capacity
      /\ i \in Nat /\ count - i \in Nat /\ i + (count - i) <= Capacity
  BY CapacityAssumption DEF TypeOK
<1>2. Seen \in Seq(Entry)
  BY <1>1, MappingIs, StretchWhole
<1>3. Unseen \in Seq(Entry) /\ Len(Unseen) = count - i
  BY <1>1, MappingIs, StretchFacts
<1> QED BY <1>2, <1>3, MappingIs DEF records, changes

(* The same after a step. *)
LEMMA LoopNext ==
    TypeOK' /\ pc' = "remove"
        => /\ Seen' \in Seq(Entry) /\ Unseen' \in Seq(Entry) /\ Len(Unseen') = count' - i'
           /\ Others' = OthersOf(Unseen', topic')
           /\ records' = Seen' \o Others'
           /\ changes' = IF kept' < i' \/ Others' # Unseen'
                         THEN generation' + 1 ELSE generation'
<1>1. (TypeOK /\ pc = "remove"
        => /\ Seen \in Seq(Entry) /\ Unseen \in Seq(Entry) /\ Len(Unseen) = count - i
           /\ Others = OthersOf(Unseen, topic)
           /\ records = Seen \o Others
           /\ changes = IF kept < i \/ Others # Unseen THEN generation + 1 ELSE generation)'
  BY LoopIs, PTL
<1> QED BY <1>1

(* message_buf_remove_topic takes effect when it is called, if the ring    *)
(* has a record of the topic.                                              *)
LEMMA BeginLogs ==
    ASSUME TypeOK, TypeOK', NEW t \in Topics, RemoveBegin(t)
    PROVE  Log!Next \/ UNCHANGED <<records, changes>>
<1>1. /\ pc = "idle" /\ pc' = "remove" /\ i' = 0 /\ kept' = 0 /\ topic' = t
      /\ UNCHANGED <<entries, head, count, generation>>
  BY DEF RemoveBegin
<1>2. /\ i = 0 /\ kept = 0 /\ changes = generation
      /\ records = Stretch(entries, head, 0, count)
      /\ count \in Nat /\ count - 0 = count
  BY <1>1, IdleIs DEF TypeOK
<1>3. Unseen' = records
  BY <1>1, <1>2, MappingNext
<1>4. Seen' = <<>>
  BY <1>1 DEF Seen
<1>5. /\ Unseen' \in Seq(Entry) /\ Others' = OthersOf(records, t)
      /\ records' = Seen' \o Others'
      /\ changes' = IF OthersOf(records, t) # records THEN generation + 1 ELSE generation
  BY <1>1, <1>3, LoopNext
<1>6. records' = OthersOf(records, t)
  BY <1>3, <1>4, <1>5, OthersFacts, ConcatEmptySeq
<1>7. Log!Without(t) = OthersOf(records, t)
  BY SameKept DEF Log!Without, OthersOf
<1>8. CASE OthersOf(records, t) = records
  BY <1>2, <1>5, <1>6, <1>8
<1>9. CASE OthersOf(records, t) # records
  <2>1. Log!RemoveTopic(t)
    BY <1>2, <1>5, <1>6, <1>7, <1>9 DEF Log!RemoveTopic
  <2> DEFINE x == [topic |-> t, payload |-> Null]
  <2>2. x \in Entry /\ x.topic = t
    BY DEF Entry
  <2> QED BY <2>1, <2>2 DEF Log!Next
<1> QED BY <1>8, <1>9

(* A turn of the loop goes on to the next record. *)
LEMMA LoopTurns ==
    ASSUME TypeOK, TypeOK', i < count, i' = i + 1, UNCHANGED <<head, count>>,
           Agree(entries, entries', head, i + 1, count - 1)
    PROVE  Unseen # <<>> /\ Unseen[1] = entries[Slot(i)] /\ Unseen' = Tail(Unseen)
<1> DEFINE n == count - i
<1>1. /\ entries \in [Slots -> Entry] /\ entries' \in [Slots -> Entry]
      /\ head \in Slots /\ i \in Nat /\ count \in Nat /\ count <= Capacity
  BY CapacityAssumption DEF TypeOK
<1>2. n \in Nat /\ n # 0 /\ i + n <= Capacity
  BY <1>1, CapacityAssumption
<1>3. count - (i + 1) = n - 1 /\ i + n - 1 = count - 1
  BY <1>1
<1>4. Unseen = Stretch(entries, head, i, n)
  BY MappingIs
<1>5. Unseen' = Stretch(entries', head, i + 1, n - 1)
  BY <1>3, MappingNext
<1>6. Agree(entries, entries', head, i + 1, i + n - 1)
  BY <1>3
<1> HIDE DEF n
<1>7. /\ Stretch(entries, head, i, n) # <<>>
      /\ Stretch(entries, head, i, n)[1] = entries[(head + i) % Capacity]
      /\ Tail(Stretch(entries, head, i, n)) = Stretch(entries', head, i + 1, n - 1)
  BY <1>1, <1>2, <1>6, StretchTail, SMTT(30)
<1> QED BY <1>4, <1>5, <1>7 DEF Slot

(* A turn that drops a record changes nothing of the log: the record was   *)
(* no longer in it.                                                        *)
LEMMA DropLogs ==
    ASSUME TypeOK, TypeOK', RemoveDrop
    PROVE  UNCHANGED <<records, changes>>
<1>1. /\ pc = "remove" /\ pc' = "remove" /\ i' = i + 1 /\ i \in Nat /\ count \in Nat
      /\ i < count /\ count <= Capacity /\ kept \in 0 .. i
      /\ UNCHANGED <<head, count, generation, topic, kept>>
      /\ entries \in [Slots -> Entry] /\ entries' \in [Slots -> Entry] /\ head \in Slots
  BY CapacityAssumption DEF RemoveDrop, TypeOK
<1>2. i \in 0 .. Capacity - 1
  BY <1>1, CapacityAssumption
<1>3. ASSUME NEW j \in 0 .. Capacity - 1, j # i
      PROVE  entries'[(head + j) % Capacity] = entries[(head + j) % Capacity]
  <2>1. Slot(j) \in Slots /\ Slot(i) \in Slots /\ Slot(j) # Slot(i)
    BY <1>2, <1>3, HeldRange
  <2>2. entries'[Slot(j)] = entries[Slot(j)]
    BY <1>1, <2>1 DEF RemoveDrop
  <2> QED BY <2>2 DEF Slot
<1>4. Seen' = Seen
  <2>1. head \in Nat /\ kept \in Nat
    BY <1>1 DEF Slots
  <2>2. \A j \in 0 .. (kept - 1) : j \in 0 .. Capacity - 1 /\ j # i
    BY <1>1, <1>2, CapacityAssumption
  <2>3. Agree(entries, entries', head, 0, kept - 1)
    BY <1>3, <2>2 DEF Agree
  <2>4. Stretch(entries', head, 0, kept) = Stretch(entries, head, 0, kept)
    BY <2>1, <2>3, StretchSame
  <2> QED BY <1>1, <2>4, MappingIs, MappingNext
<1>5. Unseen # <<>> /\ Unseen[1].topic = topic /\ Unseen' = Tail(Unseen)
  <2>1. \A j \in (i + 1) .. (count - 1) : j \in 0 .. Capacity - 1 /\ j # i
    BY <1>1, CapacityAssumption
  <2>2. Agree(entries, entries', head, i + 1, count - 1)
    BY <1>3, <2>1 DEF Agree
  <2>3. Unseen # <<>> /\ Unseen[1] = entries[Slot(i)] /\ Unseen' = Tail(Unseen)
    BY <1>1, <2>2, LoopTurns
  <2> QED BY <2>3 DEF RemoveDrop
<1>6. /\ Seen \in Seq(Entry) /\ Unseen \in Seq(Entry) /\ Len(Unseen) = count - i
      /\ Others = OthersOf(Unseen, topic) /\ records = Seen \o Others
      /\ changes = IF kept < i \/ Others # Unseen THEN generation + 1 ELSE generation
  BY <1>1, LoopIs
<1>7. /\ Unseen' \in Seq(Entry) /\ Len(Unseen') = count - (i + 1)
      /\ Others' = OthersOf(Unseen', topic) /\ records' = Seen' \o Others'
      /\ changes' = IF kept < i + 1 \/ Others' # Unseen' THEN generation + 1 ELSE generation
  BY <1>1, LoopNext
<1>8. Others = Others' /\ Len(Others') <= count - (i + 1)
  <2>1. Others = <<>> \o Others'
    BY <1>5, <1>6, <1>7, OthersCons
  <2>2. Others' \in Seq(Entry) /\ Len(Others') <= count - (i + 1)
    BY <1>7, OthersFacts
  <2> QED BY <2>1, <2>2, ConcatEmptySeq
<1>9. Others # Unseen
  <2>1. ASSUME Others = Unseen PROVE FALSE
    <3>1. Len(Unseen) <= count - (i + 1)
      BY <1>8, <2>1
    <3> QED BY <1>1, <1>6, <3>1
  <2> QED BY <2>1
<1>10. changes = generation + 1 /\ changes' = generation + 1
  <2>1. kept < i + 1
    BY <1>1
  <2> QED BY <1>6, <1>7, <1>9, <2>1
<1> QED BY <1>4, <1>6, <1>7, <1>8, <1>10

(* A turn that keeps a record changes nothing of the log: the record was   *)
(* the first of those still to be kept.                                    *)
LEMMA KeepLogs ==
    ASSUME TypeOK, TypeOK', RemoveKeep
    PROVE  UNCHANGED <<records, changes>>
<1> DEFINE x == entries[Slot(i)]
<1>1. /\ pc = "remove" /\ pc' = "remove" /\ i' = i + 1 /\ i \in Nat /\ count \in Nat
      /\ i < count /\ count <= Capacity /\ kept \in Nat /\ kept <= i /\ kept' = kept + 1
      /\ UNCHANGED <<head, count, generation, topic>>
      /\ entries \in [Slots -> Entry] /\ entries' \in [Slots -> Entry] /\ head \in Slots
  BY CapacityAssumption DEF RemoveKeep, TypeOK
<1>2. i \in 0 .. Capacity - 1 /\ kept \in 0 .. Capacity - 1
  BY <1>1, CapacityAssumption
<1>3. Slot(i) \in Slots /\ Slot(kept) \in Slots /\ x \in Entry
  BY <1>1, <1>2, HeldRange
<1>4. ASSUME NEW j \in 0 .. Capacity - 1, j # kept
      PROVE  entries'[(head + j) % Capacity] = entries[(head + j) % Capacity]
  <2>1. Slot(j) \in Slots /\ Slot(j) # Slot(kept)
    BY <1>2, <1>4, HeldRange
  <2>2. entries'[Slot(j)] = entries[Slot(j)]
    BY <1>1, <1>3, <2>1 DEF RemoveKeep
  <2> QED BY <2>2 DEF Slot
<1>5. entries'[(head + kept) % Capacity] = x
  BY <1>1, <1>3 DEF RemoveKeep, Slot
<1>6. Unseen # <<>> /\ Unseen[1] = x /\ Unseen' = Tail(Unseen) /\ x.topic # topic
  <2>1. \A j \in (i + 1) .. (count - 1) : j \in 0 .. Capacity - 1 /\ j # kept
    BY <1>1, CapacityAssumption
  <2>2. Agree(entries, entries', head, i + 1, count - 1)
    BY <1>4, <2>1 DEF Agree
  <2> QED BY <1>1, <2>2, LoopTurns DEF RemoveKeep
<1> HIDE DEF x
<1>7. Seen' = Append(Seen, x)
  <2>1. \A j \in 0 .. (kept - 1) : j \in 0 .. Capacity - 1 /\ j # kept
    BY <1>1, <1>2, CapacityAssumption
  <2>2. Agree(entries, entries', head, 0, kept - 1)
    BY <1>4, <2>1 DEF Agree
  <2>3. kept < Capacity
    BY <1>1, CapacityAssumption
  <2>4. Stretch(entries', head, 0, kept + 1)
            = Append(Stretch(entries, head, 0, kept), entries'[(head + kept) % Capacity])
    BY <1>1, <2>2, <2>3, StretchMore
  <2> QED BY <1>1, <1>5, <2>4, MappingIs, MappingNext
<1>8. /\ Seen \in Seq(Entry) /\ Unseen \in Seq(Entry)
      /\ Others = OthersOf(Unseen, topic) /\ records = Seen \o Others
      /\ changes = IF kept < i \/ Others # Unseen THEN generation + 1 ELSE generation
  BY <1>1, LoopIs
<1>9. /\ Unseen' \in Seq(Entry)
      /\ Others' = OthersOf(Unseen', topic) /\ records' = Seen' \o Others'
      /\ changes' = IF kept + 1 < i + 1 \/ Others' # Unseen'
                    THEN generation + 1 ELSE generation
  BY <1>1, LoopNext
<1>10. Others' \in Seq(Entry) /\ <<x>> \in Seq(Entry)
  BY <1>3, <1>9, OthersFacts
<1>11. Others = <<x>> \o Others'
  BY <1>6, <1>8, <1>9, OthersCons
<1>12. Unseen = <<x>> \o Unseen'
  BY <1>6, <1>8, FirstAndRest
<1>13. records' = records
  <2>1. Append(Seen, x) = Seen \o <<x>>
    BY <1>3, <1>8, AppendIsConcat
  <2>2. (Seen \o <<x>>) \o Others' = Seen \o (<<x>> \o Others')
    BY <1>8, <1>10, ConcatAssociative, SMTT(30)
  <2> QED BY <1>7, <1>8, <1>9, <1>11, <2>1, <2>2
<1>14. Others = Unseen <=> Others' = Unseen'
  <2>1. Unseen' \in Seq(Entry) /\ Others' \in Seq(Entry)
    BY <1>9, <1>10
  <2>2. (<<x>> \o Others' = <<x>> \o Unseen') <=> (Others' = Unseen')
    BY <1>3, <2>1, SameAfterFirst
  <2> QED BY <1>11, <1>12, <2>2, Zenon
<1>15. kept + 1 < i + 1 <=> kept < i
  BY <1>1
<1> QED BY <1>8, <1>9, <1>13, <1>14, <1>15

(* The end of message_buf_remove_topic changes nothing of the log either:  *)
(* the count and the generation catch up.                                  *)
LEMMA EndLogs ==
    ASSUME TypeOK, TypeOK', RemoveEnd
    PROVE  UNCHANGED <<records, changes>>
<1>1. /\ pc = "remove" /\ pc' = "idle" /\ i = count /\ kept \in 0 .. count /\ count \in Nat
      /\ count' = kept
      /\ generation' = IF kept < count THEN generation + 1 ELSE generation
      /\ UNCHANGED <<entries, head>>
  BY DEF RemoveEnd, TypeOK
<1>2. /\ Seen \in Seq(Entry) /\ Unseen \in Seq(Entry) /\ Len(Unseen) = count - i
      /\ Others = OthersOf(Unseen, topic) /\ records = Seen \o Others
      /\ changes = IF kept < i \/ Others # Unseen THEN generation + 1 ELSE generation
  BY <1>1, LoopIs
<1>3. Unseen = <<>>
  <2>1. Len(Unseen) = 0
    BY <1>1, <1>2
  <2> QED BY <1>2, <2>1, EmptySeq
<1>4. Others = <<>>
  <2>1. Others \in Seq(Entry) /\ Len(Others) <= Len(Unseen)
    BY <1>2, OthersFacts
  <2>2. Len(Others) = 0
    BY <1>1, <1>2, <2>1, LenProperties
  <2> QED BY <2>1, <2>2, EmptySeq
<1>5. records = Seen
  BY <1>2, <1>4, ConcatEmptySeq
<1>6. records' = Stretch(entries, head, 0, kept) /\ changes' = generation'
  BY <1>1, MappingNext
<1>7. Seen = Stretch(entries, head, 0, kept)
  BY MappingIs
<1> QED BY <1>1, <1>2, <1>3, <1>4, <1>5, <1>6, <1>7

(* Every step of the ring is a step of the record log or none. *)
LEMMA StepLogs == TypeOK /\ TypeOK' /\ [Next]_vars => [Log!Next]_<<records, changes>>
<1> SUFFICES ASSUME TypeOK, TypeOK', [Next]_vars
             PROVE  Log!Next \/ UNCHANGED <<records, changes>>
  OBVIOUS
<1>1. ASSUME NEW t \in Topics, NEW p \in Blocks \cup {Null}, Push(t, p) PROVE Log!Next
  BY <1>1, PushLogs
<1>2. CASE Clear
  BY <1>2, ClearLogs
<1>3. ASSUME NEW t \in Topics, RemoveBegin(t)
      PROVE  Log!Next \/ UNCHANGED <<records, changes>>
  BY <1>3, BeginLogs
<1>4. CASE RemoveDrop
  BY <1>4, DropLogs
<1>5. CASE RemoveKeep
  BY <1>5, KeepLogs
<1>6. CASE RemoveEnd
  BY <1>6, EndLogs
<1>7. CASE UNCHANGED vars
  BY <1>7 DEF vars, records, changes, Seen, Unseen, Others, RecordAt, Slot
<1> QED BY <1>1, <1>2, <1>3, <1>4, <1>5, <1>6, <1>7 DEF Next, Read

(* message_buf.c implements the record log: the ring holds the newest      *)
(* records in order through every push, eviction, clear and in-place       *)
(* removal, and its generation changes exactly when they do.               *)
THEOREM Refinement == Spec => ImplementsLog
<1>1. Init => Log!Init
  <2> SUFFICES ASSUME Init PROVE Log!Init
    OBVIOUS
  <2>1. TypeOK /\ pc = "idle" /\ count = 0 /\ generation = 0
    BY InitInv DEF IndInv, Init
  <2>2. records = Stretch(entries, head, 0, 0) /\ changes = 0
    BY <2>1, IdleIs
  <2>3. records = <<>>
    BY <2>2 DEF Stretch
  <2> QED BY <2>2, <2>3 DEF Log!Init
<1>2. IndInv /\ IndInv' /\ [Next]_vars => [Log!Next]_Log!logVars
  BY StepLogs DEF IndInv, Log!logVars
<1> QED BY <1>1, <1>2, Invariance, PTL DEF Spec, ImplementsLog, Log!Spec
=============================================================================
