------------------------------- MODULE JsonPp -------------------------------
(***************************************************************************)
(* The JSON formatter (model/json_pp.c): it turns a payload into lines of  *)
(* key, value, depth, dot path and trailing comma, in one pass, and never  *)
(* refuses its input.  The calls format_value, format_object_contents and  *)
(* format_array_contents are frames of an explicit stack here, one step    *)
(* for each piece of code between two calls.                               *)
(*                                                                         *)
(* The input is a sequence of tokens with white space between them, so     *)
(* that skip_ws is the step from one token to the next; a token is         *)
(* punctuation, a string, an atom or a string that is never closed, which  *)
(* runs to the end of the input.  A dot path is the sequence of its        *)
(* segments; the size of its buffer is not modelled.  Len(src) bounds the  *)
(* index of an element, which is below it as long as elements have tokens. *)
(***************************************************************************)
EXTENDS Integers, Sequences
LOCAL INSTANCE TLC

CONSTANTS
    JsonInputs,     \* the payloads: sequences of tokens, well-formed or not
    JsonMaxLines,   \* JSON_PP_MAX_LINES
    JsonMaxDepth    \* JSON_PP_MAX_DEPTH

ASSUME JsonAssumption ==
    /\ JsonMaxLines \in Nat \ {0} /\ JsonMaxDepth \in Nat \ {0}
    /\ \A t \in JsonInputs : t \in Seq({t[k] : k \in DOMAIN t})

VARIABLES
    src, pos,       \* the input and the cursor, from 1
    ppLines, path,
    frames,         \* containers entered: [kind, idx, key, mark, before]
    ppStep          \* "idle" | "value" | "after" | "loop" | "done"

jsonVars == <<src, pos, ppLines, path, frames, ppStep>>

Punctuation == {"{", "}", "[", "]", ","}
Open == "open"              \* a quote with no other after it
EmptyKey == "empty"         \* ""
IsString(tok) == tok \in {"k", "m", EmptyKey, Open}
Close(kind) == IF kind = "{" THEN "}" ELSE "]"

JsonInit ==
    /\ src = <<>> /\ pos = 1 /\ ppLines = <<>> /\ path = <<>> /\ frames = <<>>
    /\ ppStep = "idle"

\* json_pp_run_len: everything starts over with json_pp_begin.
json_pp_run(text) ==
    /\ ppStep = "idle" /\ ppStep' = "value"
    /\ src' = text /\ pos' = 1 /\ ppLines' = <<>> /\ path' = <<>> /\ frames' = <<>>

Full == Len(ppLines) >= JsonMaxLines
AtToken(p, tok) == p <= Len(src) /\ src[p] = tok
Top == frames[Len(frames)]

\* The lines with one more, if there is room.
json_pp_emit(key, val, depth) ==
    IF Full THEN ppLines
    ELSE Append(ppLines, [key |-> key, val |-> val, depth |-> depth, path |-> path, comma |-> FALSE])

\* Where the cursor is after the string or atom it stands at.
Scanned == IF src[pos] = Open THEN Len(src) + 1 ELSE pos + 1

\* The text of a key without its quotes; a value in the place of a key has none.
KeyAt(p) == IF p > Len(src) \/ ~IsString(src[p]) \/ src[p] = EmptyKey THEN "" ELSE src[p]

json_pp_path_push(seg) == IF seg = "" THEN path ELSE Append(path, seg)

\* The key of the value about to be formatted: none at the top and in an array.
KeyOf == IF frames = <<>> THEN "" ELSE Top.key

\* format_value gives up: end of input, no line left or too deep.
ValueNone ==
    /\ ppStep = "value" /\ (pos > Len(src) \/ Full \/ Len(frames) >= JsonMaxDepth)
    /\ ppStep' = "after"
    /\ UNCHANGED <<src, pos, ppLines, path, frames>>

\* format_value at an opening bracket.
ValueOpens ==
    /\ ppStep = "value" /\ pos <= Len(src) /\ ~Full /\ Len(frames) < JsonMaxDepth
    /\ src[pos] \in {"{", "["}
    /\ ppLines' = json_pp_emit(KeyOf, src[pos], Len(frames))
    /\ frames' = Append(frames, [kind |-> src[pos], idx |-> 0, key |-> "", mark |-> path, before |-> 0])
    /\ pos' = pos + 1 /\ ppStep' = "loop"
    /\ UNCHANGED <<src, path>>

\* format_value at a string or an atom.  An atom ends before punctuation: there it is empty.
ValueScalar ==
    /\ ppStep = "value" /\ pos <= Len(src) /\ ~Full /\ Len(frames) < JsonMaxDepth
    /\ src[pos] \notin {"{", "["}
    /\ ppLines' = json_pp_emit(KeyOf, IF src[pos] \in Punctuation THEN "" ELSE src[pos], Len(frames))
    /\ pos' = IF src[pos] \in Punctuation THEN pos ELSE Scanned
    /\ ppStep' = "after"
    /\ UNCHANGED <<src, path, frames>>

\* format_value returned to the container: go on behind the value, and behind a comma.
Mutant_PastValue == pos

PastValue == IF pos = Top.before THEN pos + 1 ELSE pos

Mutant_json_pp_path_pop == path

json_pp_path_pop == Top.mark

ValueReturns ==
    /\ ppStep = "after" /\ frames # <<>>
    /\ LET comma == AtToken(PastValue, ",")
           n == Len(ppLines)
       IN  /\ pos' = IF comma THEN PastValue + 1 ELSE PastValue
           /\ ppLines' = IF comma /\ n > 0 THEN [ppLines EXCEPT ![n].comma = TRUE] ELSE ppLines
    /\ path' = json_pp_path_pop
    /\ frames' = [frames EXCEPT ![Len(frames)].idx = IF Top.kind = "[" /\ @ < Len(src) THEN @ + 1 ELSE @]
    /\ ppStep' = "loop"
    /\ UNCHANGED <<src>>

\* The loop of a container goes on with the next member or element, ...
Goes == pos <= Len(src) /\ src[pos] # Close(Top.kind) /\ ~Full

NextMember ==
    /\ ppStep = "loop" /\ Goes /\ Top.kind = "{"
    /\ LET key == KeyAt(pos)
           behind == IF IsString(src[pos]) THEN Scanned ELSE pos
           at == IF AtToken(behind, ":") THEN behind + 1 ELSE behind
       IN  /\ pos' = at
           /\ path' = json_pp_path_push(key)
           /\ frames' = [frames EXCEPT ![Len(frames)] = [@ EXCEPT !.key = key, !.mark = path, !.before = at]]
    /\ ppStep' = "value"
    /\ UNCHANGED <<src, ppLines>>

NextElement ==
    /\ ppStep = "loop" /\ Goes /\ Top.kind = "["
    /\ path' = json_pp_path_push(ToString(Top.idx))
    /\ frames' = [frames EXCEPT ![Len(frames)] = [@ EXCEPT !.mark = path, !.before = pos]]
    /\ ppStep' = "value"
    /\ UNCHANGED <<src, pos, ppLines>>

\* ... or ends, and format_value writes the closing bracket in any case.
Mutant_ContainerEnds ==
    /\ ppStep = "loop" /\ ~Goes
    /\ pos' = IF AtToken(pos, Close(Top.kind)) THEN pos + 1 ELSE pos
    /\ ppLines' = json_pp_emit("", Close(Top.kind), Len(frames))
    /\ frames' = SubSeq(frames, 1, Len(frames) - 1)
    /\ ppStep' = "after"
    /\ UNCHANGED <<src, path>>

ContainerEnds ==
    /\ ppStep = "loop" /\ ~Goes
    /\ pos' = IF AtToken(pos, Close(Top.kind)) THEN pos + 1 ELSE pos
    /\ ppLines' = json_pp_emit("", Close(Top.kind), Len(frames) - 1)
    /\ frames' = SubSeq(frames, 1, Len(frames) - 1)
    /\ ppStep' = "after"
    /\ UNCHANGED <<src, path>>

RunEnds ==
    /\ ppStep = "after" /\ frames = <<>> /\ ppStep' = "done"
    /\ UNCHANGED <<src, pos, ppLines, path, frames>>

JsonStep ==
    \/ ValueNone \/ ValueOpens \/ ValueScalar \/ ValueReturns
    \/ NextMember \/ NextElement \/ ContainerEnds \/ RunEnds

JsonNext ==
    \/ ppStep = "idle" /\ \E t \in JsonInputs : json_pp_run(t)
    \/ JsonStep

JsonSpec == JsonInit /\ [][JsonNext]_jsonVars /\ WF_jsonVars(JsonStep)

-----------------------------------------------------------------------------
\* Whatever the input, the formatter ends (json_pp.c:94, "malformed input: always make
\* progress"): with missing keys, colons, commas and brackets, unclosed strings, and nesting
\* deeper than it follows.
JsonEnds == ppStep = "value" ~> ppStep = "done"

\* What is left to do: of the input, counting a token that the container will step over as read,
\* of the containers entered, and of the value at hand.
Read == IF ppStep \in {"value", "after"} /\ frames # <<>> /\ pos = Top.before THEN pos + 1 ELSE pos
LeftOfValue == IF ppStep = "value" THEN 3 ELSE IF ppStep = "after" THEN 1 ELSE 0
Remaining == 4 * (Len(src) + 2 - Read) + 2 * Len(frames) + LeftOfValue

\* The reason why it ends: every piece of work lowers what is left, however malformed the input
\* (json_pp.c:94), so that 4 * Len(src) + 7 of them are enough.
JsonProgress == [][JsonStep => Remaining' >= 0 /\ Remaining' < Remaining]_jsonVars

OpensLine(l) == l.val \in {"{", "["}
ClosesLine(l) == l.val \in {"}", "]"}

\* Line c closes what line o opens: the same kind, depth and path, and only deeper lines between.
Brackets(o, c) ==
    /\ o < c /\ OpensLine(ppLines[o]) /\ ppLines[c].val = Close(ppLines[o].val)
    /\ ppLines[c].depth = ppLines[o].depth /\ ppLines[c].path = ppLines[o].path
    /\ \A k \in (o + 1)..(c - 1) : ppLines[k].depth > ppLines[o].depth

\* The depth of the line after line k: one more behind an opening line, one less for a closing one.
DepthFollows(k) ==
    ppLines[k + 1].depth = ppLines[k].depth + (IF OpensLine(ppLines[k]) THEN 1 ELSE 0)
                                            - (IF ClosesLine(ppLines[k + 1]) THEN 1 ELSE 0)

\* Whatever the input, the lines are a tree: the indentation starts at 0, stays below the limit and
\* changes only at brackets, every closing bracket has the opening one it belongs to, and unless
\* the lines ran out every opening bracket is closed, too: the ones missing in the input, that do
\* not match or lie too deep (json_pp.c:133).
LinesNest ==
    /\ \A k \in DOMAIN ppLines : ppLines[k].depth \in 0..(JsonMaxDepth - 1)
    /\ ppLines # <<>> => ppLines[1].depth = 0
    /\ \A k \in 1..(Len(ppLines) - 1) : DepthFollows(k)
    /\ \A c \in DOMAIN ppLines : ClosesLine(ppLines[c]) => \E o \in DOMAIN ppLines : Brackets(o, c)
    /\ ppStep = "done" /\ ~Full =>
         \A o \in DOMAIN ppLines : OpensLine(ppLines[o]) => \E c \in DOMAIN ppLines : Brackets(o, c)
=============================================================================
