---------------------------- MODULE TreeFilter ----------------------------
(***************************************************************************)
(* The filter line above the topic tree (ui/tree_widget.c): in topic mode  *)
(* it marks the nodes to show, and caches the marks; in search mode it     *)
(* queries the stored messages (db_search_messages), whose rows freeze the *)
(* inspector on one message.                                               *)
(*                                                                         *)
(* A step of FilterNext is a frame with at most one input, or an event     *)
(* between two frames: a topic arrives, the user disconnects.  The text of *)
(* the filter is one segment name, "" is no filter; a node is its path, a  *)
(* sequence of segment names, and matches if the filter occurs in it.      *)
(* What the full-text index finds is any result list (external).           *)
(***************************************************************************)
EXTENDS Integers, Sequences, FiniteSets

CONSTANTS
    FilterTopics,   \* the topics that can arrive: non-empty sequences of segments
    FilterTexts     \* the texts a user can type

ASSUME FilterAssumption ==
    /\ FilterTopics \subseteq Seq(STRING) \ {<<>>}
    /\ "" \notin FilterTexts

VARIABLES
    nodes,                          \* the paths in the tree; total_count is their number
    filter_match,                   \* the marks: nodes -> BOOLEAN
    topic_filter, topic_filter_focused, topic_filter_search_mode,
    last_filter, last_node_count,   \* what the marks were computed for
    search_results, search_expanded_idx, last_search_query, last_search_mode,
    selected_topic, inspector_frozen,
    rendered,                       \* what the last frame drew: "topics" | "search" | "none"
    replaced                        \* the tree was thrown away after the marks were computed

filterText == <<topic_filter, topic_filter_focused, topic_filter_search_mode>>
searchVars == <<search_results, search_expanded_idx, last_search_query, last_search_mode>>
filterVars == <<nodes, filter_match, filterText, last_filter, last_node_count, searchVars,
                selected_topic, inspector_frozen, rendered, replaced>>

NoTopic == <<>>

Prefixes(t) == {SubSeq(t, 1, i) : i \in 1..Len(t)}

\* "own path or any descendant's path contains filter"
filter_mark(n, text) ==
    \E m \in nodes : n \in Prefixes(m) /\ \E i \in DOMAIN m : m[i] = text

FilterInit ==
    /\ nodes = {} /\ filter_match = <<>>
    /\ topic_filter = "" /\ topic_filter_focused = FALSE /\ topic_filter_search_mode = FALSE
    /\ last_filter = "" /\ last_node_count = -1
    /\ search_results = <<>> /\ search_expanded_idx = 0
    /\ last_search_query = "" /\ last_search_mode = FALSE
    /\ selected_topic = NoTopic /\ inspector_frozen = FALSE
    /\ rendered = "none" /\ replaced = FALSE

-----------------------------------------------------------------------------
(* Between two frames *)

\* A drained message adds the missing nodes of its topic, unmarked.
TopicArrives(t) ==
    /\ t \notin nodes
    /\ nodes' = nodes \cup Prefixes(t)
    /\ filter_match' = [n \in nodes' |-> IF n \in nodes THEN filter_match[n] ELSE FALSE]
    /\ rendered' = "none"
    /\ UNCHANGED <<filterText, last_filter, last_node_count, searchVars, selected_topic,
                   inspector_frozen, replaced>>

\* main.c's disconnect: a new tree, no selection, no filter.  The search and the marks' cache
\* are statics of the widget and stay.
FilterDisconnect ==
    /\ nodes # {}
    /\ nodes' = {} /\ filter_match' = <<>> /\ replaced' = TRUE
    /\ selected_topic' = NoTopic
    /\ topic_filter' = "" /\ topic_filter_focused' = FALSE
    /\ rendered' = "none"
    /\ UNCHANGED <<topic_filter_search_mode, last_filter, last_node_count, searchVars,
                   inspector_frozen>>

-----------------------------------------------------------------------------
(* The parts of a frame *)

\* What the search may find in the stored messages: nothing, or a message of some topic.
db_search_messages(text) ==
    IF text = "" THEN {<<>>} ELSE {<<>>} \cup {<<t>> : t \in FilterTopics}

\* The search runs again when its text changed or search mode was entered.  It sees the text
\* as the keys of this frame left it and the mode as it was before this frame's click.
RefreshSearch(text) ==
    /\ last_search_mode' = topic_filter_search_mode
    /\ IF topic_filter_search_mode /\ (~last_search_mode \/ text # last_search_query)
       THEN /\ search_results' \in db_search_messages(text)
            /\ search_expanded_idx' = 0
            /\ last_search_query' = text
       ELSE UNCHANGED <<search_results, search_expanded_idx, last_search_query>>

\* filter_refresh: "only when the filter text or the set of nodes changed".
Mutant_MarksAreCurrent(text) == text = last_filter

MarksAreCurrent(text) == text = last_filter /\ Cardinality(nodes) = last_node_count

filter_refresh(text) ==
    \/ /\ text = "" /\ last_filter' = "" /\ replaced' = FALSE
       /\ UNCHANGED <<filter_match, last_node_count>>
    \/ /\ text # "" /\ MarksAreCurrent(text)
       /\ UNCHANGED <<filter_match, last_filter, last_node_count, replaced>>
    \/ /\ text # "" /\ ~MarksAreCurrent(text)
       /\ filter_match' = [n \in nodes |-> filter_mark(n, text)]
       /\ last_filter' = text /\ last_node_count' = Cardinality(nodes) /\ replaced' = FALSE

\* A frame in which the keys leave `typed` and the click then leaves `text`, the focus and the
\* mode; what is drawn depends on the mode before the click.
FilterFrame(typed, text, focused, mode) ==
    /\ topic_filter' = text /\ topic_filter_focused' = focused
    /\ topic_filter_search_mode' = mode
    /\ RefreshSearch(typed)
    /\ IF topic_filter_search_mode
       THEN /\ rendered' = "search"
            /\ UNCHANGED <<filter_match, last_filter, last_node_count, replaced>>
       ELSE rendered' = "topics" /\ filter_refresh(text)
    /\ UNCHANGED nodes

NoSelection == UNCHANGED <<selected_topic, inspector_frozen>>

FilterIdle ==
    FilterFrame(topic_filter, topic_filter, topic_filter_focused, topic_filter_search_mode)
    /\ NoSelection

TypeFilter(text) ==
    /\ topic_filter_focused
    /\ FilterFrame(text, text, TRUE, topic_filter_search_mode) /\ NoSelection

\* Escape in the filter line also closes the inspector, in the same frame.
EscapeFilter ==
    /\ topic_filter_focused /\ FilterFrame("", "", FALSE, topic_filter_search_mode)
    /\ inspector_frozen' = FALSE
    /\ selected_topic' = IF inspector_frozen THEN selected_topic ELSE NoTopic

ClickMode ==
    /\ FilterFrame(topic_filter, topic_filter, topic_filter_focused, ~topic_filter_search_mode)
    /\ NoSelection

ClickClear ==
    /\ topic_filter # ""
    /\ FilterFrame(topic_filter, "", FALSE, topic_filter_search_mode) /\ NoSelection

\* A click on the line focuses it, one elsewhere or another panel takes the focus away.
ClickFilter(over) ==
    FilterFrame(topic_filter, topic_filter, over, topic_filter_search_mode) /\ NoSelection

\* A click in the panel below: a node, a result row or its "Open Topic" button.
ClickBelow == FilterFrame(topic_filter, topic_filter, FALSE, topic_filter_search_mode)

SelectNode(n) ==
    /\ ~topic_filter_search_mode /\ ClickBelow
    /\ selected_topic' = n /\ inspector_frozen' = FALSE

\* Rows can be clicked that the frame did not have to query again.
ResultsShown ==
    /\ topic_filter_search_mode /\ last_search_mode
    /\ topic_filter # "" /\ topic_filter = last_search_query

OpenResult(i) ==
    /\ ResultsShown /\ ClickBelow
    /\ IF search_results[i] \in nodes
       THEN selected_topic' = search_results[i] /\ inspector_frozen' = FALSE
       ELSE NoSelection

\* The inspector's side of a click on row i: expanding freezes it, collapsing thaws it.
Mutant_ExpandResult(i) ==
    /\ inspector_frozen' = (i # search_expanded_idx)
    /\ UNCHANGED selected_topic

ExpandResult(i) ==
    /\ inspector_frozen' = (i # search_expanded_idx)
    /\ selected_topic' = IF i # search_expanded_idx THEN NoTopic ELSE selected_topic

ToggleResult(i) ==
    /\ ResultsShown
    /\ search_expanded_idx' = IF i = search_expanded_idx THEN 0 ELSE i
    /\ ExpandResult(i)
    /\ topic_filter_focused' = FALSE /\ rendered' = "search"
    /\ UNCHANGED <<topic_filter, topic_filter_search_mode, search_results, last_search_query,
                   last_search_mode, nodes, filter_match, last_filter, last_node_count, replaced>>

\* The close button or Escape, handled by the inspector that is shown.
CloseInspector ==
    /\ inspector_frozen \/ selected_topic # NoTopic
    /\ inspector_frozen' = FALSE
    /\ selected_topic' = IF inspector_frozen THEN selected_topic ELSE NoTopic
    /\ FilterFrame(topic_filter, topic_filter, topic_filter_focused, topic_filter_search_mode)

FilterNext ==
    \/ \E t \in FilterTopics : TopicArrives(t)
    \/ FilterDisconnect \/ FilterIdle \/ EscapeFilter \/ ClickMode \/ ClickClear \/ CloseInspector
    \/ \E text \in FilterTexts \cup {""} : TypeFilter(text)
    \/ \E over \in BOOLEAN : ClickFilter(over)
    \/ \E n \in nodes : SelectNode(n)
    \/ \E i \in DOMAIN search_results : OpenResult(i) \/ ToggleResult(i)

FilterSpec == FilterInit /\ [][FilterNext]_filterVars

-----------------------------------------------------------------------------
\* The tree is drawn with marks that are right for the text and for every node in it
\* (tree_widget.c:102, "Recompute the match flags only when the filter text or the set of
\* nodes changed").  The cache compares the number of nodes, so the code has one exception: a
\* new tree of the same size as the one marked, where the marks were never reset because the
\* search view was shown in between.
MarksAreFresh ==
    rendered = "topics" /\ topic_filter # "" /\ ~replaced =>
        \A n \in nodes : filter_match[n] = filter_mark(n, topic_filter)

\* "frozen and live inspector views are mutually exclusive" (tree_widget.c:482): no order of
\* searches, selections, disconnects and arrivals leaves both.
FrozenOrLive == ~(inspector_frozen /\ selected_topic # NoTopic)
=============================================================================
