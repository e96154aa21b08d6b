---------------------------- MODULE JsonReference ----------------------------
(***************************************************************************)
(* The lines that a well-formed JSON document should have, defined over    *)
(* the document and not its text, and JsonPp checked against them.         *)
(***************************************************************************)
EXTENDS JsonPp
LOCAL INSTANCE SequencesExt
LOCAL INSTANCE TLC

CONSTANT JsonDocs   \* the documents compared

VARIABLE doc        \* the one that src is the text of, <<>> if none

\* A document is <<"n">> or <<"k">> (an atom, a string), <<"[", items>>, or <<"{", members>>
\* where a member is <<key, document>>.
RECURSIVE Text(_)
Text(d) ==
    IF Len(d) = 1 THEN d
    ELSE LET item(i) == IF d[1] = "[" THEN Text(d[2][i]) ELSE <<d[2][i][1], ":">> \o Text(d[2][i][2])
             part(i) == IF i < Len(d[2]) THEN item(i) \o <<",">> ELSE item(i)
         IN  <<d[1]>> \o FlattenSeq([i \in DOMAIN d[2] |-> part(i)]) \o <<Close(d[1])>>

\* The lines a document should have.
RECURSIVE LinesOf(_, _, _, _, _)
LinesOf(d, key, depth, where, comma) ==
    LET line(k, val, c) == <<[key |-> k, val |-> val, depth |-> depth, path |-> where, comma |-> c]>>
        last(i) == i = Len(d[2])
        item(i) == IF d[1] = "[" THEN LinesOf(d[2][i], "", depth + 1, Append(where, ToString(i - 1)), ~last(i))
                   ELSE LinesOf(d[2][i][2], d[2][i][1], depth + 1, Append(where, d[2][i][1]), ~last(i))
    IN  IF Len(d) = 1 THEN line(key, d[1], comma)
        ELSE line(key, d[1], FALSE) \o FlattenSeq([i \in DOMAIN d[2] |-> item(i)])
             \o line("", Close(d[1]), comma)

refVars == <<jsonVars, doc>>

RefInit == JsonInit /\ doc = <<>>

\* A run over the text of a document, or over any other input.
RefNext ==
    \/ ppStep = "idle" /\ \E d \in JsonDocs : json_pp_run(Text(d)) /\ doc' = d
    \/ JsonNext /\ UNCHANGED doc

\* A well-formed document has the lines it should have, with the path of every value, cut after
\* JsonMaxLines lines; the comma of the last line may be missing when they were cut there
\* (json_pp.c:72).
JsonLinesExact ==
    ppStep = "done" /\ doc # <<>> =>
        LET all == LinesOf(doc, "", 0, <<>>, FALSE)
            n == IF Len(all) < JsonMaxLines THEN Len(all) ELSE JsonMaxLines
            whole == [ppLines EXCEPT ![n].comma = all[n].comma]
        IN  /\ Len(ppLines) = n
            /\ SubSeq(all, 1, n) = IF n = Len(all) THEN ppLines ELSE whole
==============================================================================
