----------------------------- MODULE TopicTree -----------------------------
(***************************************************************************)
(* The topic tree of src/model/topic_tree.c in the frame loop of           *)
(* src/main.c: a frame drains messages into the tree, handles a Clear      *)
(* History and a Disconnect requested in the frame before, and renders,    *)
(* which is when clicks are seen.  The selection, the node whose           *)
(* throughput is measured, the context menu and the Clear History request  *)
(* hold pointers to nodes, and Disconnect destroys the tree under them.    *)
(*                                                                         *)
(* A node is its place in the order of creation.  Its strings are modelled *)
(* by the number or payload they show, 0 or NoPayload for an empty one.    *)
(* Whether the refresh interval of a string has passed is a free choice at *)
(* every message: any time may pass between two messages.                  *)
(***************************************************************************)
EXTENDS Naturals, Sequences, FiniteSets, Subsequence

CONSTANTS Topics,         \* the topics of messages, as sequences of levels
          Empty,          \* an empty level
          Cut,            \* what a node keeps of each level in its 128 bytes
          Payloads,
          NoPayload,
          MaxChildren,    \* TOPIC_MAX_CHILDREN
          MaxMessages,    \* bound: messages
          MaxTrees        \* bound: trees, one more than disconnects

Levels == UNION {{t[i] : i \in DOMAIN t} : t \in Topics}

ASSUME TopicsAssumption == Topics \subseteq Seq(Levels)
ASSUME CutAssumption == \A s \in Levels \ {Empty} : Cut[s] # Empty
ASSUME MaxChildrenAssumption == MaxChildren \in Nat \ {0}
ASSUME NoPayloadAssumption == NoPayload \notin Payloads
ASSUME BoundsAssumption == MaxMessages \in Nat /\ MaxTrees \in Nat \ {0}

VARIABLES tree,        \* the nodes
          epoch,       \* which tree this is
          pc,          \* the part of the frame: "drain", "clear", ...
          selected,    \* state.selected_topic
          measured,    \* s_tpt_node, the node whose throughput is measured
          menu,        \* context_menu_target while context_menu_open
          clearReq,    \* clear_topic_requested
          disconnectReq,
          received     \* messages so far

vars == <<tree, epoch, pc, selected, measured, menu, clearReq, disconnectReq, received>>
requests == <<clearReq, disconnectReq>>

(* A pointer to node n; the NULL pointer. *)
Ptr(n) == [tree |-> epoch, node |-> n]
Null == [tree |-> 0, node |-> 0]

Init == /\ tree = <<>>
        /\ epoch = 1
        /\ pc = "drain"
        /\ selected = Null
        /\ measured = Null
        /\ menu = Null
        /\ clearReq = Null
        /\ disconnectReq = FALSE
        /\ received = 0

-----------------------------------------------------------------------------
(* The tree.                                                               *)

(* node_new *)
NewNode(seg, parent) ==
    [segment |-> Cut[seg], parent |-> parent, own |-> 0, subtree |-> 0, label |-> 0,
     badge |-> 0, shown |-> NoPayload, latest |-> NoPayload]

Children(t, p) == {n \in DOMAIN t : t[n].parent = p}

Mutant_FindChild(t, p, seg) ==
    {n \in Children(t, p) : t[n].segment = seg /\ \E m \in Children(t, p) : m > n}

(* find_child: the stored segment against the whole level. *)
FindChild(t, p, seg) == {n \in Children(t, p) : t[n].segment = seg}

First(ns) == CHOOSE n \in ns : \A m \in ns : n <= m

Mutant_DescendMakesFirst(r, seg) ==
    LET found == FindChild(r.tree, r.node, seg)
    IN  IF r.full THEN r
        ELSE IF found # {} THEN [r EXCEPT !.node = First(found)]
        ELSE [r EXCEPT !.full = Cardinality(Children(r.tree, r.node)) >= MaxChildren,
                       !.tree = Append(r.tree, NewNode(seg, r.node)),
                       !.node = Len(r.tree) + 1]

(* A turn of the loop of topic_tree_insert: down to the child, which is    *)
(* made if there is none, unless the parent has no room for it.            *)
Descend(r, seg) ==
    LET found == FindChild(r.tree, r.node, seg)
    IN  IF r.full THEN r
        ELSE IF found # {} THEN [r EXCEPT !.node = First(found)]
        ELSE IF Cardinality(Children(r.tree, r.node)) >= MaxChildren
             THEN [r EXCEPT !.full = TRUE]
        ELSE [r EXCEPT !.tree = Append(r.tree, NewNode(seg, r.node)),
                       !.node = Len(r.tree) + 1]

(* strtok_r: empty levels vanish. *)
Tokens(topic) == Kept(topic, {i \in DOMAIN topic : topic[i] # Empty})

(* The loop from the root down, after i turns. *)
Walk(t, tokens) ==
    LET walk[i \in 0 .. Len(tokens)] ==
            IF i = 0 THEN [tree |-> t, node |-> 0, full |-> FALSE]
            ELSE Descend(walk[i - 1], tokens[i])
    IN  walk

(* topic_tree_insert: the tree after it, and the node, if it is not full   *)
(* and the topic has a level at all.                                       *)
Insert(topic) == Walk(tree, Tokens(topic))[Len(Tokens(topic))]

Inserted(r) == ~r.full /\ r.node # 0

(* The node and its ancestors. *)
Path(t, n) ==
    LET up[k \in 0 .. Len(t)] == IF k = 0 THEN {} ELSE {k} \cup up[t[k].parent]
    IN  up[n]

(* topic_node_count_message and the strings main.c refreshes after it: the *)
(* badges of the nodes in due, and the label and the payload of the node   *)
(* itself if refresh; the first message refreshes in any case.             *)
Counted(t, n, payload, due, refresh) ==
    [k \in DOMAIN t |->
        IF k \notin Path(t, n) THEN t[k]
        ELSE LET subtree == t[k].subtree + 1
                 badge == IF subtree = 1 \/ k \in due THEN subtree ELSE t[k].badge
                 own == t[k].own + 1
                 show == own = 1 \/ refresh
             IN  IF k # n THEN [t[k] EXCEPT !.subtree = subtree, !.badge = badge]
                 ELSE [t[k] EXCEPT !.subtree = subtree, !.badge = badge, !.own = own,
                                   !.label = IF show THEN own ELSE @,
                                   !.shown = IF show THEN payload ELSE @,
                                   !.latest = payload]]

Mutant_Cleared(t, n) ==
    [t EXCEPT ![n].subtree = @ - t[n].own, ![n].badge = @ - t[n].own, ![n].own = 0,
              ![n].label = 0, ![n].shown = NoPayload, ![n].latest = NoPayload]

Mutant_ClearedKeepsBadge(t, n) ==
    [k \in DOMAIN t |->
        LET subtree == IF t[k].subtree > t[n].own THEN t[k].subtree - t[n].own ELSE 0
            r == IF k \in Path(t, n) /\ t[n].own > 0
                 THEN [t[k] EXCEPT !.subtree = subtree] ELSE t[k]
        IN  IF k # n THEN r
            ELSE [r EXCEPT !.own = 0, !.label = 0, !.shown = NoPayload,
                           !.latest = NoPayload]]

(* topic_node_clear_messages *)
Cleared(t, n) ==
    [k \in DOMAIN t |->
        LET subtree == IF t[k].subtree > t[n].own THEN t[k].subtree - t[n].own ELSE 0
            r == IF k \in Path(t, n) /\ t[n].own > 0
                 THEN [t[k] EXCEPT !.subtree = subtree, !.badge = subtree] ELSE t[k]
        IN  IF k # n THEN r
            ELSE [r EXCEPT !.own = 0, !.label = 0, !.shown = NoPayload,
                           !.latest = NoPayload]]

-----------------------------------------------------------------------------
(* The frame.                                                              *)

(* A drained message: inserted and counted, or dropped. *)
Message(topic, payload) ==
    /\ pc = "drain"
    /\ received < MaxMessages
    /\ received' = received + 1
    /\ LET r == Insert(topic)
       IN  IF Inserted(r)
           THEN \E due \in SUBSET Path(r.tree, r.node), refresh \in BOOLEAN :
                    tree' = Counted(r.tree, r.node, payload, due, refresh)
           ELSE tree' = r.tree
    /\ UNCHANGED <<epoch, pc, selected, measured, menu, requests>>

(* The queue is drained, and the throughput is that of the selected topic. *)
Drained == /\ pc = "drain"
           /\ pc' = "clear"
           /\ measured' = selected
           /\ UNCHANGED <<tree, epoch, selected, menu, requests, received>>

(* "Clear History" on one topic: the tree's part of it (History has the    *)
(* rest).                                                                  *)
HandleClear == /\ pc = "clear"
               /\ pc' = "disconnect"
               /\ clearReq' = Null
               /\ tree' = IF clearReq = Null THEN tree ELSE Cleared(tree, clearReq.node)
               /\ UNCHANGED <<epoch, selected, measured, menu, disconnectReq, received>>

Mutant_HandleDisconnect ==
    /\ pc = "disconnect"
    /\ pc' = "render"
    /\ IF disconnectReq
       THEN epoch' = epoch + 1 /\ tree' = <<>> /\ selected' = Null
       ELSE UNCHANGED <<epoch, tree, selected>>
    /\ disconnectReq' = FALSE
    /\ UNCHANGED <<measured, menu, clearReq, received>>

(* Disconnect: the tree is destroyed and a new one begun. *)
HandleDisconnect ==
    /\ pc = "disconnect"
    /\ pc' = "render"
    /\ IF disconnectReq
       THEN /\ epoch' = epoch + 1
            /\ tree' = <<>>
            /\ selected' = Null
            /\ measured' = Null
       ELSE UNCHANGED <<epoch, tree, selected, measured>>
    /\ disconnectReq' = FALSE
    /\ UNCHANGED <<menu, clearReq, received>>

(* Rendering sees no click, *)
NoClick == UNCHANGED <<selected, menu, requests>>

(* a click outside of the context menu, on one of its other items, or      *)
(* Escape, ...                                                             *)
CloseMenu == menu' = Null /\ UNCHANGED <<selected, requests>>

(* ... a left click on a row, or on a search result for its topic, ... *)
Select(n) == /\ selected' = Ptr(n)
             /\ menu' = Null
             /\ UNCHANGED requests

(* ... one that closes the inspector, ... *)
Deselect == /\ selected' = Null
            /\ menu' = Null
            /\ UNCHANGED requests

(* ... or on the inspector's Clear History, ... *)
InspectorClear == /\ selected # Null
                  /\ clearReq' = selected
                  /\ menu' = Null
                  /\ UNCHANGED <<selected, disconnectReq>>

(* ... a right click on a row, ... *)
OpenMenu(n) == menu' = Ptr(n) /\ UNCHANGED <<selected, requests>>

(* ... Clear History in the context menu, ... *)
MenuClear == /\ menu # Null
             /\ clearReq' = menu
             /\ menu' = Null
             /\ UNCHANGED <<selected, disconnectReq>>

(* ... a click on Disconnect, which like each outside of the menu also     *)
(* closes the menu.                                                        *)
ClickDisconnect == /\ epoch < MaxTrees
                   /\ disconnectReq' = TRUE
                   /\ menu' = Null
                   /\ UNCHANGED <<selected, clearReq>>

Render == /\ pc = "render"
          /\ pc' = "drain"
          /\ \/ NoClick \/ CloseMenu \/ Deselect \/ InspectorClear \/ MenuClear \/ ClickDisconnect
             \/ \E n \in DOMAIN tree : Select(n) \/ OpenMenu(n)
          /\ UNCHANGED <<tree, epoch, measured, received>>

FrameLoop == Drained \/ HandleClear \/ HandleDisconnect \/ Render

Next == \/ FrameLoop
        \/ \E topic \in Topics, payload \in Payloads \cup {NoPayload} :
               Message(topic, payload)

Spec == Init /\ [][Next]_vars

(* The frame loop goes on; no message has to come. *)
FairSpec == Spec /\ WF_vars(FrameLoop)

-----------------------------------------------------------------------------
Node == [segment : {Cut[s] : s \in Levels \ {Empty}}, parent : Nat, own : Nat,
         subtree : Nat, label : Nat, badge : Nat, shown : Payloads \cup {NoPayload},
         latest : Payloads \cup {NoPayload}]

Pointer == [tree : 0 .. MaxTrees, node : Nat]

TypeOK == /\ tree \in Seq(Node)
          /\ \A n \in DOMAIN tree : /\ tree[n].parent < n
                                    /\ Cardinality(Children(tree, n)) <= MaxChildren
          /\ Cardinality(Children(tree, 0)) <= MaxChildren
          /\ epoch \in 1 .. MaxTrees
          /\ pc \in {"drain", "clear", "disconnect", "render"}
          /\ {selected, measured, menu, clearReq} \subseteq Pointer
          /\ disconnectReq \in BOOLEAN
          /\ received \in 0 .. MaxMessages

(* No node pointer outlives its tree: what the inspector, the context      *)
(* menu, the Clear History handler and the throughput meter dereference is *)
(* in the tree of now.                                                     *)
NoDanglingNode ==
    \A p \in {selected, measured, menu, clearReq} \ {Null} :
        p.tree = epoch /\ p.node \in DOMAIN tree

(* The sums of the first k numbers of f, and what the subtrees of the      *)
(* children of a node count.                                               *)
SumUpTo(f, n) ==
    LET sum[k \in 0 .. n] == IF k = 0 THEN 0 ELSE sum[k - 1] + f[k]
    IN  sum

Share(t, n) == [k \in DOMAIN t |-> IF t[k].parent = n THEN t[k].subtree ELSE 0]
Below(t, n) == SumUpTo(Share(t, n), Len(t))[Len(t)]

(* The counts add up through any order of messages, clears and inserts: a  *)
(* subtree's count is its own messages and those of its children's         *)
(* subtrees, none of it lost to the saturating subtraction.                *)
SubtreeAddsUp ==
    \A n \in DOMAIN tree : tree[n].subtree = tree[n].own + Below(tree, n)

(* A throttled badge may lag but never shows more than there is, and it is *)
(* blank exactly when the count it stands for is 0.                        *)
BadgesLag ==
    \A n \in DOMAIN tree :
        /\ tree[n].badge <= tree[n].subtree /\ (tree[n].badge = 0 <=> tree[n].subtree = 0)
        /\ tree[n].label <= tree[n].own /\ (tree[n].label = 0 <=> tree[n].own = 0)

(* A message that finds no room leaves nothing behind: topic_tree_insert   *)
(* fails before it has made a node.                                        *)
RejectedLeavesNoTrace ==
    [][received' # received =>
           \/ tree' = tree
           \/ \E n \in DOMAIN tree' : /\ tree'[n].own > 0
                                      /\ n \in DOMAIN tree => tree'[n].own > tree[n].own
       ]_vars

(* topic_tree_insert will "insert or find the node": a topic has one node. *)
OneNodePerTopic ==
    \A m, n \in DOMAIN tree :
        tree[m].parent = tree[n].parent /\ tree[m].segment = tree[n].segment => m = n

(* "The hex tab shows the wire bytes of the latest message": once no more  *)
(* come, the payload shown of each topic is the one that came last.        *)
ShowsLatestPayload ==
    <>[](\A n \in DOMAIN tree : tree[n].shown = tree[n].latest)
=============================================================================
