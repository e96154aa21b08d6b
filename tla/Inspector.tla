------------------------------ MODULE Inspector ------------------------------
(***************************************************************************)
(* What the inspector draws for the selected topic                         *)
(* (ui/inspector_widget.c) and the caches it draws from: the formatted     *)
(* lines (JsonPP, shared by all views, keyed by a pointer and a time       *)
(* stamp), the line diff with the payload before, and the history rows of  *)
(* the topic (positions in the ring, keyed by node and generation).        *)
(*                                                                         *)
(* A payload is the sequence of lines the formatter makes of it, each with *)
(* its depth and its text (key, separator, value and comma as one), <<>>   *)
(* if it is empty or not JSON (the views then show text and touch no       *)
(* cache).                                                                 *)
(* Nodes and payload copies are addresses and are used again after a free. *)
(* Time stamps come from one counter: two messages differ in theirs.       *)
(* MaxStamps bounds the messages and disconnects.                          *)
(***************************************************************************)
EXTENDS Integers, Sequences, Subsequence

CONSTANTS
    ViewMessages,   \* the messages that are published: <<topic, payload>>
    DiffMaxLines,   \* DIFF_MAX_LINES
    DiffLineLen,    \* DIFF_LINE_LEN
    HistoryMaxRows, \* HISTORY_MAX_ROWS
    RingCapacity,   \* HISTORY_CAPACITY
    MaxStamps       \* bound

ASSUME InspectorAssumption ==
    /\ DiffMaxLines \in Nat \ {0} /\ DiffLineLen \in Nat \ {0} /\ HistoryMaxRows \in Nat \ {0}
    /\ RingCapacity \in Nat \ {0} /\ MaxStamps \in Nat
    /\ \A m \in ViewMessages : m[2] \in Seq({m[2][k] : k \in DOMAIN m[2]})

VARIABLES
    node,           \* nodes in order of allocation: [topic, count, payload, ts, shown_at]
    ring, ringGen,  \* global_history: [topic, ts, payload, ptr], and its generation
    stamp,
    sel,            \* selected_topic: a position in node, 0 = none
    pp,             \* JsonPP: [src, key, lines]
    diff,           \* [node, ts, payload, merged]: the baseline and the merged lines
    hist            \* [node, gen, matches, expanded]

viewVars == <<node, ring, ringGen, stamp, sel, pp, diff, hist>>

NodeSrc(n) == <<"node", n>>
RecordSrc(r) == <<"record", r.ptr>>
NoSrc == <<"none", 0>>

ViewInit ==
    /\ node = <<>> /\ ring = <<>> /\ ringGen = 0 /\ stamp = 0 /\ sel = 0
    /\ pp = [src |-> NoSrc, key |-> 0, lines |-> <<>>]
    /\ diff = [node |-> 0, ts |-> 0, payload |-> <<>>, merged |-> <<>>]
    /\ hist = [node |-> 0, gen |-> -1, matches |-> <<>>, expanded |-> 0]

-----------------------------------------------------------------------------
(* The rest of the program *)

NodeOf(t) == {n \in DOMAIN node : node[n].topic = t}

\* The ring with one more record, in a free payload block.
Remembered(t, p, ts) ==
    LET kept == IF Len(ring) = RingCapacity THEN Tail(ring) ELSE ring
        used == {kept[i].ptr : i \in DOMAIN kept}
        ptr == CHOOSE b \in 1..(RingCapacity + 1) : b \notin used /\ \A c \in 1..(b - 1) : c \in used
    IN  Append(kept, [topic |-> t, ts |-> ts, payload |-> p, ptr |-> ptr])

\* A drained message.  The node's copy of the payload follows when the last refresh is a tick
\* ago (`due`), and always with the first message.
MessageDrained(t, p, due) ==
    /\ stamp < MaxStamps /\ stamp' = stamp + 1
    /\ LET fresh == [topic |-> t, count |-> 0, payload |-> <<>>, ts |-> 0, shown_at |-> 0]
           all == IF NodeOf(t) = {} THEN Append(node, fresh) ELSE node
           n == CHOOSE i \in DOMAIN all : all[i].topic = t
           show == due \/ all[n].count = 0
       IN  node' = [all EXCEPT ![n].count = @ + 1, ![n].ts = stamp',
                               ![n].payload = IF show THEN p ELSE @,
                               ![n].shown_at = IF show THEN stamp' ELSE @]
    /\ ring' = Remembered(t, p, stamp') /\ ringGen' = ringGen + 1
    /\ UNCHANGED <<sel, pp, diff, hist>>

\* Clear History of the selected topic.
ClearTopic ==
    /\ sel # 0 /\ node[sel].count > 0
    /\ node' = [node EXCEPT ![sel].count = 0, ![sel].payload = <<>>]
    /\ ring' = Kept(ring, {k \in DOMAIN ring : ring[k].topic # node[sel].topic})
    /\ ringGen' = IF Len(ring') < Len(ring) THEN ringGen + 1 ELSE ringGen
    /\ UNCHANGED <<stamp, sel, pp, diff, hist>>

\* Disconnect frees the nodes and clears the ring; the statics of the inspector stay.
FreeTopics ==
    /\ stamp < MaxStamps /\ stamp' = stamp + 1
    /\ node # <<>> /\ node' = <<>> /\ ring' = <<>> /\ ringGen' = ringGen + 1 /\ sel' = 0
    /\ UNCHANGED <<pp, diff, hist>>

SelectTopic(n) ==
    /\ sel' = n /\ n # sel
    /\ UNCHANGED <<node, ring, ringGen, stamp, pp, diff, hist>>

-----------------------------------------------------------------------------
(* Drawing *)

\* The lines of a payload, formatted unless the cache has them.
json_pp_run_cached(src, key, payload) ==
    IF pp.src = src /\ pp.key = key THEN pp ELSE [src |-> src, key |-> key, lines |-> payload]

\* A frame draws the view of the tab that is picked, and a click picks any tab before it.
Shows == sel # 0
LinesShown == json_pp_run_cached(NodeSrc(sel), node[sel].shown_at, node[sel].payload)

render_json_view ==
    /\ Shows /\ node[sel].payload # <<>>
    /\ pp' = LinesShown
    /\ UNCHANGED <<node, ring, ringGen, stamp, sel, diff, hist>>

\* The first DiffMaxLines lines.
Head256(s) == SubSeq(s, 1, IF Len(s) < DiffMaxLines THEN Len(s) ELSE DiffMaxLines)

\* What two lines are compared by: the depth and what fits of the text.
diff_format_line(line) ==
    [line EXCEPT !.text = SubSeq(@, 1, IF Len(@) < DiffLineLen THEN Len(@) ELSE DiffLineLen - 1)]
Formatted(lines) == [k \in DOMAIN lines |-> diff_format_line(lines[k])]

\* Length of a longest common subsequence of the first i and the first j lines.
s_diff_dp(a, b) ==
    LET dp[ij \in (0..Len(a)) \X (0..Len(b))] ==
          LET i == ij[1]
              j == ij[2]
          IN  IF i = 0 \/ j = 0 THEN 0
              ELSE IF a[i] = b[j] THEN dp[<<i - 1, j - 1>>] + 1
              ELSE IF dp[<<i - 1, j>>] > dp[<<i, j - 1>>] THEN dp[<<i - 1, j>>] ELSE dp[<<i, j - 1>>]
    IN  dp

Mutant_Backtrack(a, b) ==
    LET dp == s_diff_dp(a, b)
        back[ij \in (0..Len(a)) \X (0..Len(b))] ==
          LET i == ij[1]
              j == ij[2]
          IN  IF i = 0 /\ j = 0 THEN <<>>
              ELSE IF i > 0 /\ j > 0 /\ a[i] = b[j] THEN Append(back[<<i - 1, j - 1>>], <<i, j>>)
              ELSE IF j > 0 /\ (i = 0 \/ dp[<<i, j - 1>>] <= dp[<<i - 1, j>>])
              THEN Append(back[<<i, j - 1>>], <<0, j>>)
              ELSE Append(back[<<i - 1, j>>], <<i, 0>>)
    IN  back

\* The merged lines of the first i and the first j lines, as <<prev, curr>> with 0 on the side
\* that does not have the line: the loop from the end of the table back to its start.
Backtrack(a, b) ==
    LET dp == s_diff_dp(a, b)
        back[ij \in (0..Len(a)) \X (0..Len(b))] ==
          LET i == ij[1]
              j == ij[2]
          IN  IF i = 0 /\ j = 0 THEN <<>>
              ELSE IF i > 0 /\ j > 0 /\ a[i] = b[j] THEN Append(back[<<i - 1, j - 1>>], <<i, j>>)
              ELSE IF j > 0 /\ (i = 0 \/ dp[<<i, j - 1>>] >= dp[<<i - 1, j>>])
              THEN Append(back[<<i, j - 1>>], <<0, j>>)
              ELSE Append(back[<<i - 1, j>>], <<i, 0>>)
    IN  back

diff_compute(a, b) == Backtrack(a, b)[<<Len(a), Len(b)>>]

\* On another node the payload becomes the baseline and is drawn plain.
NewBaseline(n, payload) == [node |-> n, ts |-> node[n].ts, payload |-> payload, merged |-> <<>>]

render_json_diff_view ==
    /\ Shows /\ node[sel].payload # <<>>
    /\ pp' = LinesShown
    /\ diff' =
         IF diff.node # sel THEN NewBaseline(sel, node[sel].payload)
         ELSE IF diff.ts # node[sel].ts
         THEN [node |-> sel, ts |-> node[sel].ts, payload |-> node[sel].payload,
               merged |-> diff_compute(Formatted(Head256(diff.payload)), Formatted(Head256(pp'.lines)))]
         ELSE diff
    /\ UNCHANGED <<node, ring, ringGen, stamp, sel, hist>>

\* Positions of the newest of the records on topic t, newest first.
Matches(records, t) ==
    LET newest == [k \in DOMAIN records |-> Len(records) + 1 - k]
        all == Kept(newest, {k \in DOMAIN newest : records[newest[k]].topic = t})
    IN  SubSeq(all, 1, IF Len(all) < HistoryMaxRows THEN Len(all) ELSE HistoryMaxRows)

Mutant_RowsAreCurrent == hist.node = sel

RowsAreCurrent == hist.node = sel /\ hist.gen = ringGen

\* The rows are found again when the node or the ring changed; an expanded row is formatted.
\* An empty ring is not looked at.
render_history_view ==
    /\ Shows
    /\ LET expanded == IF hist.node = sel THEN hist.expanded ELSE 0
           now == IF RowsAreCurrent THEN hist
                  ELSE [node |-> sel, gen |-> ringGen, matches |-> Matches(ring, node[sel].topic),
                        expanded |-> expanded]
           open == {i \in DOMAIN now.matches : now.matches[i] \in DOMAIN ring
                                               /\ ring[now.matches[i]].ts = expanded}
       IN  /\ hist' = IF ring = <<>> THEN [hist EXCEPT !.expanded = expanded] ELSE now
           /\ pp' = IF ring = <<>> \/ open = {} THEN pp
                    ELSE LET r == ring[now.matches[CHOOSE i \in open : TRUE]]
                         IN  IF r.payload = <<>> THEN pp
                             ELSE json_pp_run_cached(RecordSrc(r), r.ts, r.payload)
    /\ UNCHANGED <<node, ring, ringGen, stamp, sel, diff>>

\* A click on a row of the frame just drawn.
ExpandRow(i) ==
    /\ Shows /\ hist.node = sel /\ hist.gen = ringGen /\ i \in DOMAIN hist.matches
    /\ LET ts == ring[hist.matches[i]].ts
       IN  hist' = [hist EXCEPT !.expanded = IF @ = ts THEN 0 ELSE ts]
    /\ UNCHANGED <<node, ring, ringGen, stamp, sel, pp, diff>>

ViewNext ==
    \/ \E m \in ViewMessages, due \in BOOLEAN : MessageDrained(m[1], m[2], due)
    \/ ClearTopic \/ FreeTopics
    \/ \E n \in DOMAIN node : SelectTopic(n)
    \/ render_json_view \/ render_json_diff_view \/ render_history_view
    \/ \E i \in DOMAIN hist.matches : ExpandRow(i)

ViewSpec == ViewInit /\ [][ViewNext]_viewVars

-----------------------------------------------------------------------------
\* The subsequences of s.
Subsequences(s) == {Kept(s, K) : K \in SUBSET DOMAIN s}

LcsLength(a, b) ==
    LET common == {Len(s) : s \in Subsequences(a) \cap Subsequences(b)}
    IN  CHOOSE n \in common : \A k \in common : k <= n

\* The merged lines that the payload has, those that the baseline has, and those of both, which
\* are drawn without a mark.
InCurr(merged) == Kept(merged, {k \in DOMAIN merged : merged[k][2] # 0})
InPrev(merged) == Kept(merged, {k \in DOMAIN merged : merged[k][1] # 0})
Unmarked(merged) == Kept(merged, {k \in DOMAIN merged : merged[k][1] # 0 /\ merged[k][2] # 0})

\* What is drawn of the first two, in order.
Curr(merged, lines) == [k \in DOMAIN InCurr(merged) |-> lines[InCurr(merged)[k][2]]]
Prev(merged, lines) == [k \in DOMAIN InPrev(merged) |-> lines[InPrev(merged)[k][1]]]

\* A view that formats the payload draws the lines of the payload the node shows.
DrawsPayload == render_json_view \/ render_json_diff_view => pp'.lines = node[sel].payload

\* A diff drawn has each line of the payload the node shows, whole, once and in order (up to
\* DiffMaxLines), whatever was selected, formatted or diffed before; one made in this frame has
\* those of the baseline too, as far as they are kept, and leaves unmarked only lines that agree
\* in depth and in what is kept, as many as the two can have in common (inspector_widget.c:51).
DrawsDiff ==
    render_json_diff_view /\ diff'.merged # <<>> =>
        LET merged == diff'.merged
            now == Head256(node[sel].payload)
            was == Formatted(Head256(diff.payload))
        IN  /\ Curr(merged, pp'.lines) = now
            /\ diff' # diff =>
                 /\ Prev(merged, was) = was
                 /\ \A k \in DOMAIN Unmarked(merged) :
                      was[Unmarked(merged)[k][1]] = diff_format_line(now[Unmarked(merged)[k][2]])
                 /\ Len(Unmarked(merged)) = LcsLength(was, Formatted(now))

\* What a frame draws is the payload the node shows, plain or compared with the baseline.
DiffIsExact == [][DrawsPayload /\ DrawsDiff]_viewVars

\* The history view draws the newest records of the topic, newest first, and under an expanded
\* row the lines of that record, although it keeps positions into a ring that pushes, evictions,
\* Clear History and disconnects shift (inspector_widget.c:498).
HistoryIsFresh ==
    [][render_history_view /\ ring # <<>> =>
         /\ hist'.matches = Matches(ring, node[sel].topic)
         /\ \A i \in DOMAIN hist'.matches :
              LET r == ring[hist'.matches[i]]
              IN  r.ts = hist'.expanded /\ r.payload # <<>> => pp'.lines = r.payload
      ]_viewVars
=============================================================================
