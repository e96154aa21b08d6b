------------------------------ MODULE MCBuffers ------------------------------
(***************************************************************************)
(* Two parts that move data within buffers of fixed size, the history ring *)
(* and the text fields of the publish panel, checked side by side as in    *)
(* MCParts.                                                                *)
(***************************************************************************)
EXTENDS MessageBuf, PublishPanel

VARIABLE part

MCClips == {<<"L", "c">>, <<"a", "L", "c">>}

\* A path in one character, in two bytes, and with a level that was cut in a character; and
\* topics that are too long for the field, the first cut in a character.
MCNodePaths == {<<"a">>, <<"L", "c">>, <<"a", "L">>}
MCCopiedTopics == {<<"a", "L", "c">>, <<"a", "a", "L", "c">>}

partVars == <<vars, panelVars, part>>

\* While the panel moves the ring has one of its initial states.
PartsInit ==
    /\ part \in {"ring", "panel"}
    /\ Init /\ PanelInit
    /\ part = "panel" => topic = CHOOSE t \in Topics : TRUE

PartsNext ==
    \/ part = "ring" /\ Next /\ UNCHANGED <<panelVars, part>>
    \/ part = "panel" /\ PanelNext /\ UNCHANGED <<vars, part>>

PartsSpec == PartsInit /\ [][PartsNext]_partVars
=============================================================================
