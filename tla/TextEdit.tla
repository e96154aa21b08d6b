----------------------------- MODULE TextEdit -----------------------------
(***************************************************************************)
(* The single text editor behind every input field (ui/text_edit.c,        *)
(* ui/text_input.h): what a frame's keys and a click make of a field.  A   *)
(* field is a NUL-terminated UTF-8 buffer, a caret that is a byte offset,  *)
(* and "all selected"; the buffer and the caret belong to the caller       *)
(* (PublishPanel), who may write the one without the other.                *)
(*                                                                         *)
(* Bytes are abstracted to what the code tests: "a" is a byte that is a    *)
(* character, "L" the first and "c" a continuation byte of a longer one.   *)
(* Geometry is left out: a click hits any character boundary of what is    *)
(* displayed.  Bound: one key per frame.                                   *)
(***************************************************************************)
EXTENDS Integers, Sequences

CONSTANT Clips      \* the clipboard texts, control characters filtered

Byte == {"a", "L", "c"}

\* A sequence of whole characters.
WellFormed(s) ==
    /\ s # <<>> => s[1] # "c"
    /\ \A i \in DOMAIN s : s[i] = "L" <=> (i < Len(s) /\ s[i + 1] = "c")

ASSUME ClipsAssumption == \A clip \in Clips : clip \in Seq(Byte) /\ WellFormed(clip)

Chars == {<<"a">>, <<"L", "c">>}
is_cont(s, i) == i < Len(s) /\ s[i + 1] = "c"     \* 0-based offset, as in the source

\* Offsets of s at which a character starts or the text ends.
Boundaries(s) == {i \in 0..Len(s) : ~is_cont(s, i)}

\* The last boundary before i, the first after it.
prev_boundary(s, i) ==
    IF i = 0 THEN 0
    ELSE CHOOSE b \in 0..(i - 1) : (~is_cont(s, b) \/ b = 0)
                                   /\ \A k \in (b + 1)..(i - 1) : is_cont(s, k)

next_boundary(s, i) ==
    IF i >= Len(s) THEN Len(s)
    ELSE CHOOSE b \in (i + 1)..Len(s) : ~is_cont(s, b)
                                        /\ \A k \in (i + 1)..(b - 1) : is_cont(s, k)

First(s, n) == SubSeq(s, 1, n)
From(s, n) == SubSeq(s, n + 1, Len(s))

-----------------------------------------------------------------------------
(* text_edit_update *)

EmptyField == [buf |-> <<>>, caret |-> 0, all |-> FALSE]

\* A frame starts by clamping the caret, whoever wrote the buffer.
Clamped(e) == [e EXCEPT !.caret = IF @ > Len(e.buf) THEN Len(e.buf) ELSE @]

\* Typing and pasting replace a selection first.
Unselected(e) == IF e.all THEN EmptyField ELSE e

\* All or nothing, in a buffer of cap bytes.
insert_at(e, cap, s) ==
    IF s # <<>> /\ Len(e.buf) + Len(s) + 1 <= cap
    THEN [e EXCEPT !.buf = First(e.buf, e.caret) \o s \o From(e.buf, e.caret),
                   !.caret = @ + Len(s)]
    ELSE e

Typed(e, cap, c) == insert_at(Unselected(e), cap, c)

\* A paste takes what fits, cut at the start of a character.
Pasted(e, cap, clip) ==
    LET u == Unselected(e)
        room == cap - Len(u.buf) - 1
        fits == {n \in 0..room : n \in Boundaries(clip)}
    IN  insert_at(u, cap, IF Len(clip) <= room THEN clip
                          ELSE First(clip, CHOOSE n \in fits : \A m \in fits : m <= n))

\* The text without the bytes between two offsets; everything when all is selected.
Removed(e, from, to) ==
    IF e.all THEN EmptyField
    ELSE [e EXCEPT !.buf = First(e.buf, from) \o From(e.buf, to), !.caret = from]

Backspaced(e, mod) == Removed(e, IF mod THEN 0 ELSE prev_boundary(e.buf, e.caret), e.caret)
Deleted(e, mod) ==
    Removed(e, e.caret, IF mod THEN Len(e.buf) ELSE next_boundary(e.buf, e.caret))

Moved(e, to) == [e EXCEPT !.caret = to, !.all = FALSE]

MovedLeft(e, mod) == Moved(e, IF e.all \/ mod THEN 0 ELSE prev_boundary(e.buf, e.caret))
MovedRight(e, mod) ==
    Moved(e, IF e.all \/ mod THEN Len(e.buf) ELSE next_boundary(e.buf, e.caret))

\* A character or a paste; Backspace, Delete or a step of the caret; all selected or a move to
\* an end.
Inserted(e, cap) ==
    {Typed(e, cap, c) : c \in Chars} \cup {Pasted(e, cap, clip) : clip \in Clips}
Stepped(e) ==
    UNION {{Backspaced(e, mod), Deleted(e, mod), MovedLeft(e, mod), MovedRight(e, mod)}
             : mod \in BOOLEAN}
Reached(e) == {[e EXCEPT !.all = TRUE], Moved(e, 0), Moved(e, Len(e.buf))}

\* What a frame with at most one key makes of a field.
Pressed(e, cap) == {e} \cup Inserted(e, cap) \cup Stepped(e) \cup Reached(e)
text_edit_update(e, cap) == Pressed(Clamped(e), cap)

-----------------------------------------------------------------------------
(* text_edit_format, in a buffer of cap bytes, and text_edit_hit_test *)

Room(cap) == cap - 2     \* without the marker and the NUL
IsCut(s, cap) == Len(s) > Room(cap)

\* How many bytes of the text are displayed: all of them, or some and "...".
Shown_bytes(s, cap) ==
    IF ~IsCut(s, cap) THEN Len(s)
    ELSE CHOOSE n \in 0..(Room(cap) - 3) :
            (~is_cont(s, n) \/ n = 0) /\ \A k \in (n + 1)..(Room(cap) - 3) : is_cont(s, k)

MarkerAt(s, cap, caret) == IF caret < Shown_bytes(s, cap) THEN caret ELSE Shown_bytes(s, cap)

\* What is displayed, with a byte for the caret if marker.
text_edit_format(s, cap, caret, marker) ==
    LET at == MarkerAt(s, cap, caret)
    IN  First(s, at) \o (IF marker THEN <<"a">> ELSE <<>>)
          \o SubSeq(s, at + 1, Shown_bytes(s, cap))
          \o (IF IsCut(s, cap) THEN <<"a", "a", "a">> ELSE <<>>)

\* The offsets a click may give: the boundary hit in what is displayed, without the marker's byte.
text_edit_hit_test(s, cap, caret, marker) ==
    {IF marker /\ hit > MarkerAt(s, cap, caret) THEN hit - 1 ELSE hit :
       hit \in Boundaries(text_edit_format(s, cap, caret, marker))}
=============================================================================
