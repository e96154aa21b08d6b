---------------------------- MODULE PublishPanel ----------------------------
(***************************************************************************)
(* The publish panel (ui/publish_panel.c) and whoever writes into it: two  *)
(* text fields, topic and payload, that share one caret.  The panel is     *)
(* drawn last of the windows in a frame, so a step is a frame: what is     *)
(* clicked or pressed elsewhere first, then the panel, if it is open.      *)
(* Ctrl+P (main.c), the status bar, the context menu and the inspector     *)
(* open it; all but the status bar may put a topic into it, and none of    *)
(* them knows of the caret.                                                *)
(*                                                                         *)
(* Bound: one key or click per frame.  QoS and retain, which no other      *)
(* field depends on, are left out.                                         *)
(***************************************************************************)
EXTENDS TextEdit

CONSTANTS
    TopicCap,       \* sizeof(publish_topic)
    PayloadCap,     \* sizeof(publish_payload)
    PayloadDisplay, \* PP_BUF_SIZE, what the payload is displayed from
    NodePaths,      \* what topic_node_full_path writes into publish_topic: it stops before a
                    \* level that does not fit, but a level may have been cut in a character
    CopiedTopics    \* the topics the inspector copies, of any length

ASSUME PanelAssumption ==
    /\ TopicCap \in Nat \ {0} /\ PayloadCap \in Nat \ {0}
    /\ PayloadDisplay \in Nat /\ PayloadDisplay >= 6
    /\ \A s \in NodePaths : s \in Seq(Byte) /\ Len(s) < TopicCap
    /\ \A s \in CopiedTopics : s \in Seq(Byte)

VARIABLE
    panel   \* publish_panel_open, s_was_open, publish_active_field (0 is the topic, 1 the
            \* payload), s_pp_prev_field, the texts of both, s_pp_caret, ..._all_selected

panelVars == <<panel>>

Fields == 0..1
Cap(f) == IF f = 0 THEN TopicCap ELSE PayloadCap
DisplayCap(f) == IF f = 0 THEN TopicCap + 4 ELSE PayloadDisplay

PanelInit ==
    panel = [open |-> FALSE, was_open |-> FALSE, active |-> 0, prev |-> -1,
             text |-> [f \in Fields |-> <<>>], caret |-> 0, all |-> FALSE]

-----------------------------------------------------------------------------
(* publish_panel_render *)

Mutant_Opened(p) ==
    IF p.was_open THEN p ELSE [p EXCEPT !.was_open = TRUE, !.active = 0, !.all = FALSE]

\* It forgets the focus when it was closed by its own means ...
Opened(p) ==
    IF p.was_open THEN p
    ELSE [p EXCEPT !.was_open = TRUE, !.active = 0, !.all = FALSE, !.prev = -1]

\* ... and a field that gets the focus gets the caret at its end.
Focused(p) ==
    LET q == Opened(p)
    IN  IF q.active = q.prev THEN q
        ELSE [q EXCEPT !.prev = q.active, !.caret = Len(q.text[q.active])]

Field(p) == [buf |-> p.text[p.active], caret |-> p.caret, all |-> p.all]
WithField(p, e) == [p EXCEPT !.text[p.active] = e.buf, !.caret = e.caret, !.all = e.all]

\* A frame of the panel in which no key is pressed.
Drawn(p) == WithField(Focused(p), Clamped(Field(Focused(p))))

\* A frame of the panel in which at most one is.
PanelFrame ==
    /\ panel.open
    /\ LET p == Focused(panel)
       IN  \E e \in text_edit_update(Field(p), Cap(p.active)) : panel' = WithField(p, e)

\* A click on a field puts the caret where it hits; the focus change that moves it to the end is
\* suppressed.
ClickPanelField(f) ==
    /\ panel.open
    /\ LET p == Drawn(panel)
           s == p.text[f]
       IN  \E hit \in text_edit_hit_test(s, DisplayCap(f), p.caret, f = p.active /\ ~p.all) :
              panel' = [p EXCEPT !.active = f, !.all = FALSE, !.prev = f,
                                 !.caret = IF hit > Len(s) THEN Len(s) ELSE hit]

\* Escape, the close button, and Publish, whether it succeeds or not.
ClosePanel ==
    /\ panel.open
    /\ panel' = [Drawn(panel) EXCEPT !.open = FALSE, !.was_open = FALSE]

-----------------------------------------------------------------------------
(* The rest of the program *)

Raised(p) == [p EXCEPT !.open = TRUE]
WithTopic(p, s) == [p EXCEPT !.text[0] = s]

\* What fits of a text, cut at any byte.
util_str_copy(s) == First(s, IF Len(s) < TopicCap THEN Len(s) ELSE TopicCap - 1)

Written == NodePaths \cup {util_str_copy(s) : s \in CopiedTopics}

\* "Publish Here" of the context menu and of the inspector, also while the panel is open; Ctrl+P
\* while it is not, with a topic selected.
PublishHere(s) == panel' = Drawn(Raised(WithTopic(panel, s)))

\* The status bar's button, and Ctrl+P without a selected topic.
OpenPanel == panel' = Drawn(Raised(panel))

\* Ctrl+P again: the panel is not drawn any more and does not notice.
ShortcutCloses ==
    /\ panel.open
    /\ panel' = [panel EXCEPT !.open = FALSE]

PanelNext ==
    \/ PanelFrame \/ ClosePanel \/ OpenPanel \/ ShortcutCloses
    \/ \E f \in Fields : ClickPanelField(f)
    \/ \E s \in Written : PublishHere(s)

PanelSpec == PanelInit /\ [][PanelNext]_panelVars

-----------------------------------------------------------------------------
TextFits == \A f \in Fields : Len(panel.text[f]) < Cap(f)

\* Both texts are whole characters, and the caret the next frame works with, after its focus
\* change and its clamp, is at the boundary of one.
TextWhole ==
    /\ \A f \in Fields : WellFormed(panel.text[f])
    /\ Drawn(panel).caret \in Boundaries(Focused(panel).text[Focused(panel).active])

\* The ways in which the caret comes to be within a character, or a text to end in half of one:
\* a click on the "..." of a text too long to display is taken as an offset into the text, a
\* topic is put into the field that has the caret, and a topic is cut when it is copied.
ClickPastShown(f) ==
    ClickPanelField(f) /\ panel'.caret > Shown_bytes(panel.text[f], DisplayCap(f))
UnseenWrite(s) == PublishHere(s) /\ panel.was_open /\ panel.active = 0
CutWrite(s) == PublishHere(s) /\ ~WellFormed(s)

\* No key, paste or click and no opening, closing or change of the field overflows a buffer,
\* leaves half a character in one or puts the caret within one (text_edit.c:87, "do not cut a
\* UTF-8 sequence"), but for the three ways above: the caret that both fields share is never that
\* of another text.
TextIsWhole ==
    [][/\ TextFits'
       /\ TextWhole => \/ TextWhole'
                       \/ \E f \in Fields : ClickPastShown(f)
                       \/ \E s \in Written : UnseenWrite(s) \/ CutWrite(s)
      ]_panelVars
=============================================================================
