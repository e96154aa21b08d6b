------------------------------- MODULE MCParts -------------------------------
(***************************************************************************)
(* The parts of the user interface, checked side by side: they share no    *)
(* state the properties are about, and `part` says which one a behaviour   *)
(* is of.  The others keep their initial state, so that the states are the *)
(* union of the components' and not their product.                         *)
(***************************************************************************)
EXTENDS MCTopicTree, Profiles, TreeFilter, Charts, Inspector, UpdateCheck

VARIABLE part

MCTopics == {<<"a", "b">>, <<"b">>}

\* Lines that differ only in the depth, and two that differ only in what a diff cuts off.
Line(depth, text) == [depth |-> depth, text |-> text]
MCMessages ==
    {<<"t", <<Line(0, <<"k", "v", "1">>), Line(1, <<"z">>)>>>>,
     <<"t", <<Line(0, <<"z">>), Line(0, <<"k", "v", "2">>), Line(0, <<"z">>)>>>>,
     <<"u", <<Line(0, <<"x">>)>>>>}

partVars == <<vars, profVars, filterVars, chartVars, viewVars, updateVars, part>>

PartsInit ==
    /\ part \in {"tree", "profiles", "filter", "chart", "view", "update"}
    /\ Init /\ ProfInit /\ FilterInit /\ ChartInit /\ ViewInit /\ UpdateInit

\* Only the part p moves, and what the others have stays.
Only(p) ==
    /\ part = p /\ UNCHANGED part
    /\ p # "tree" => UNCHANGED vars
    /\ p # "profiles" => UNCHANGED profVars
    /\ p # "filter" => UNCHANGED filterVars
    /\ p # "chart" => UNCHANGED chartVars
    /\ p # "view" => UNCHANGED viewVars
    /\ p # "update" => UNCHANGED updateVars

PartsNext ==
    \/ Only("tree") /\ Next
    \/ Only("profiles") /\ ProfNext
    \/ Only("filter") /\ FilterNext
    \/ Only("chart") /\ ChartNext
    \/ Only("view") /\ ViewNext
    \/ Only("update") /\ UpdateNext

PartsSpec == PartsInit /\ [][PartsNext]_partVars
=============================================================================
