----------------------------- MODULE MCFairParts -----------------------------
(***************************************************************************)
(* The parts with liveness properties, side by side as in MCParts.         *)
(***************************************************************************)
EXTENDS SpscQueue, LogView, SshTunnel, JsonReference

VARIABLE part

MCTokens == {"{", "}", "[", "]", ",", ":", "k", "n", "open", "empty"}

\* Documents nested up to two deep, with up to two items in a container.
Scalars == {<<"n">>, <<"k">>}
Lists(S) == {<<>>} \cup {<<a>> : a \in S} \cup {<<a, b>> : a, b \in S}
Objects(S) == {<<>>} \cup {<<<<"k", a>>>> : a \in S} \cup {<<<<"k", a>>, <<"m", b>>>> : a, b \in S}
Containers(S) == {<<"[", s>> : s \in Lists(S)} \cup {<<"{", m>> : m \in Objects(S)}
MCDocs == Scalars \cup Containers(Scalars \cup Containers(Scalars))

\* Beside their texts, every sequence of up to MaxTokens tokens.
MaxTokens == 4
MCInputs == UNION {[1..n -> MCTokens] : n \in 0..MaxTokens}

partVars == <<vars, logVars, sshVars, refVars, part>>

PartsInit ==
    /\ part \in {"queue", "log", "ssh", "json"}
    /\ Init /\ LogInit /\ SshInit /\ RefInit

\* Only the part p moves, and what the others have stays.
Only(p) ==
    /\ part = p /\ UNCHANGED part
    /\ p # "queue" => UNCHANGED vars
    /\ p # "log" => UNCHANGED logVars
    /\ p # "ssh" => UNCHANGED sshVars
    /\ p # "json" => UNCHANGED refVars

PartsNext ==
    \/ Only("queue") /\ Next
    \/ Only("log") /\ LogNext
    \/ Only("ssh") /\ SshNext
    \/ Only("json") /\ RefNext

PartsFairness ==
    /\ WF_partVars(Only("queue") /\ Consumer)
    /\ WF_partVars(Only("queue") /\ (PushCopy \/ PushPublish))
    /\ WF_partVars(Only("queue") /\ PropagateHead)
    /\ WF_partVars(Only("queue") /\ PropagateTail)
    /\ WF_partVars(Only("log") /\ LogPanelStep)
    /\ WF_partVars(Only("ssh") /\ StartStep)
    /\ WF_partVars(Only("ssh") /\ PollDead)
    /\ WF_partVars(Only("ssh") /\ CannotForward)
    /\ WF_partVars(Only("json") /\ JsonStep /\ UNCHANGED doc)

PartsSpec == PartsInit /\ [][PartsNext]_partVars /\ PartsFairness
=============================================================================
