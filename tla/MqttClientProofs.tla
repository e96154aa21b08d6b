-------------------------- MODULE MqttClientProofs --------------------------
(***************************************************************************)
(* Proofs about MqttClient: for every set of profiles, size of the ring of *)
(* SUBSCRIBE packets in flight, number of connects and of reconnects.      *)
(***************************************************************************)
EXTENDS MqttClient, SubsequenceProofs, TLAPS

-----------------------------------------------------------------------------
(* The inductive invariant, in parts.                                      *)

\* Who can be where: the network thread runs only with an instance, only the join of a
\* disconnect stops it, and without it nothing is in flight.
Phases ==
    /\ npc # "none" \/ mpc \in {"join", "dial", "loop"} => mosq
    /\ mpc \in {"connect", "setup", "closed"} => ~mosq
    /\ mpc \in {"connect", "setup", "dial", "loop", "closed"} => npc = "none"
    /\ mpc \in {"store", "check", "send"} => npc # "none" /\ subIdx <= Len(profile)
    /\ stopReq # "none" <=> mpc = "join"
    /\ mutex = "net" <=> npc = "oc_send"
    /\ npc = "none" /\ mpc # "join" =>
           wire = {} /\ sent = {} /\ (mpc # "loop" => link = "down")
    /\ mpc = "loop" => link \in {"dialled", "broken"}
    /\ npc \in {"delay", "od_state", "od_rc"} => link = "down"

\* What the two atomics say at each place of the network thread.
Atomics ==
    /\ npc \in {"oc_rc", "oc_lock", "oc_send"} \/ (npc = "loop" /\ link = "up") =>
           connState = "CONNECTED"
    /\ npc \in {"oc_lock", "oc_send"} \/ (npc = "loop" /\ link = "up") => lastRc = 0
    /\ npc \in {"od_rc", "delay"} => connState = "DISCONNECTED"
    /\ npc = "delay" => lastRc = rcArg
    /\ npc \in {"od_state", "od_rc", "delay"} /\ rcArg = 0 => stopReq # "none"
    /\ npc = "none" /\ mpc # "join" => connState # "CONNECTED" /\ lastRc = 0

\* How many subscriptions of the profile mqtt_client_subscribe has stored.
StoredSoFar ==
    IF mpc = "store" THEN subIdx - 1 ELSE IF mpc \in {"check", "send"} THEN subIdx ELSE Len(profile)

\* The stored subscriptions are the first ones of the profile, once the thread of its
\* connection runs.
StoredArePrefix ==
    /\ mpc \in {"dial", "loop"} => subTopics = <<>>
    /\ npc # "none" /\ mpc # "join" =>
           /\ Len(subTopics) = StoredSoFar
           /\ \A j \in 1 .. Len(subTopics) : subTopics[j] = profile[j]

\* What is stored has been sent on a connection that is up, but for the one that
\* mqtt_client_subscribe has at hand, and those the loop of on_connect still has to come to.
StoredAreSent ==
    link = "up" =>
        /\ npc = "oc_send" =>
               \A j \in 1 .. Len(subTopics) : j < sendIdx => subTopics[j] \in sent
        /\ npc = "loop" =>
               \A j \in 1 .. Len(subTopics) :
                   subTopics[j] \in sent \/ (mpc \in {"check", "send"} /\ j = subIdx)

\* The inductive invariant.
Inv == TypeOK /\ Phases /\ Atomics /\ StoredArePrefix /\ StoredAreSent

-----------------------------------------------------------------------------
\* A profile is a list of at most MaxSubs topics, so that mqtt_client_subscribe has room for
\* all of them.
LEMMA ProfileFits ==
    ASSUME TypeOK
    PROVE  profile \in Seq(Topics) /\ Len(profile) \in 0 .. MaxSubs
<1> USE MaxSubsAssumption
<1>1. CASE profile = <<>>
  BY <1>1
<1>2. CASE profile \in Profiles
  <2>1. profile \in Seq(ToSet(profile)) /\ Len(profile) <= MaxSubs
    BY <1>2, ProfilesAssumption
  <2>2. \A t \in ToSet(profile) : t \in Topics
    BY <1>2 DEF Topics
  <2>. QED  BY <2>1, <2>2
<1>. QED  BY <1>1, <1>2 DEF TypeOK

\* pending_next wraps within the slots.
LEMMA NextSlot ==
    ASSUME NEW n \in PendingSlots
    PROVE  (n + 1) % MaxSubs \in PendingSlots
  BY MaxSubsAssumption DEF PendingSlots

\* The program starts without a client.
LEMMA InitInv == Init => Inv
<1> SUFFICES ASSUME Init PROVE Inv
  OBVIOUS
<1> USE MaxSubsAssumption, BoundsAssumption
<1>1. TypeOK
  <2>1. pending \in [PendingSlots -> [mid : Nat, topic : Topics \cup {NoTopic}]]
    BY DEF Init
  <2>2. report \in [actual : Topics \cup {NoTopic}, logged : Topics \cup {NoTopic}]
    BY DEF Init, NoReport
  <2>3. subTopics \in Seq(Topics) /\ Len(subTopics) <= MaxSubs
    BY DEF Init
  <2>4. wire \subseteq [mid : 1 .. lastMid, topic : Topics] /\ sent \subseteq Topics
    BY DEF Init
  <2>5. pendingNext \in PendingSlots /\ subIdx \in 1 .. MaxSubs + 1 /\ sendIdx \in 1 .. MaxSubs + 1
    BY DEF Init, PendingSlots
  <2>. QED  BY <2>1, <2>2, <2>3, <2>4, <2>5 DEF Init, TypeOK, Frame
<1>2. Phases /\ Atomics /\ StoredArePrefix /\ StoredAreSent
  BY DEF Init, Phases, Atomics, StoredArePrefix, StoredAreSent
<1>. QED  BY <1>1, <1>2 DEF Inv

\* mqtt_client_disconnect up to its join: only control changes, and the tunnel.
LEMMA DisconnectTypes ==
    ASSUME TypeOK, NEW next \in {"idle", "poll", "connect", "status1", "closed"}, Disconnect(next)
    PROVE  /\ stopReq' \in {"none", "graceful", "force"} /\ tunnel' \in BOOLEAN
           /\ ssh' \in {"none", "alive", "dead"}
           /\ mpc' \in {"join", next} /\ cont' \in {cont, next}
<1>1. CASE mosq
  BY <1>1 DEF Disconnect, StopNetworkThread, TypeOK
<1>2. CASE ~mosq
  BY <1>2 DEF Disconnect, TypeOK
<1>. QED  BY <1>1, <1>2

\* send_subscribe keeps the ring and the packets in flight what they are.
LEMMA SendTypes ==
    ASSUME TypeOK, NEW t \in Topics, SendSubscribe(t)
    PROVE  /\ pending' \in [PendingSlots -> [mid : Nat, topic : Topics \cup {NoTopic}]]
           /\ pendingNext' \in PendingSlots
           /\ lastMid' \in Nat
           /\ wire' \subseteq [mid : 1 .. lastMid', topic : Topics]
           /\ sent' \subseteq Topics
<1>1. CASE UNCHANGED sendVars
  BY <1>1 DEF sendVars, TypeOK
<1>2. CASE ~UNCHANGED sendVars
  <2> DEFINE packet == [mid |-> lastMid + 1, topic |-> t]
  <2>1. /\ pending' = [pending EXCEPT ![pendingNext] = packet]
        /\ pendingNext' = (pendingNext + 1) % MaxSubs
        /\ lastMid' = lastMid + 1 /\ wire' = wire \cup {packet} /\ sent' = sent \cup {t}
    BY <1>2 DEF SendSubscribe
  <2>2. pendingNext' \in PendingSlots
    BY <2>1, NextSlot DEF TypeOK
  <2>3. packet \in [mid : 1 .. lastMid', topic : Topics] /\ packet \in [mid : Nat, topic : Topics \cup {NoTopic}]
    BY <2>1 DEF TypeOK
  <2>4. wire \subseteq [mid : 1 .. lastMid', topic : Topics]
    BY <2>1 DEF TypeOK
  <2> HIDE DEF packet
  <2>. QED  BY <2>1, <2>2, <2>3, <2>4 DEF TypeOK
<1>. QED  BY <1>1, <1>2

\* The least slot of a non-empty set of slots exists.
LEMMA FirstMatch ==
    ASSUME NEW slots \in SUBSET PendingSlots, slots # {}
    PROVE  FirstOf(slots) \in slots
<1>1. slots \in SUBSET Nat
  BY MaxSubsAssumption DEF PendingSlots
<1>2. \E s \in slots : \A u \in slots : s <= u
  BY <1>1, Least
<1>. QED  BY <1>2 DEF FirstOf

\* Every step keeps every variable in its type.
LEMMA StepTypes == TypeOK /\ Phases /\ [Next]_vars => TypeOK'
<1> SUFFICES ASSUME TypeOK, Phases, [Next]_vars PROVE TypeOK'
  OBVIOUS
<1> USE MaxSubsAssumption, BoundsAssumption
    DEF vars, clientVars, mainVars, netVars, extVars, Frame
<1>0. profile \in Seq(Topics) /\ Len(profile) \in 0 .. MaxSubs
  BY ProfileFits
<1>1. CASE ClickDisconnect
  <2>1. Disconnect("poll") /\ UNCHANGED <<profile, connects>>
    BY <1>1 DEF ClickDisconnect
  <2>2. /\ stopReq' \in {"none", "graceful", "force"} /\ tunnel' \in BOOLEAN
        /\ ssh' \in {"none", "alive", "dead"}
        /\ mpc' \in {"join", "poll"} /\ cont' \in {cont, "poll"}
    BY <2>1, DisconnectTypes
  <2>. QED  BY <2>1, <2>2 DEF TypeOK, Disconnect
<1>2. CASE CloseWindow
  <2>1. Disconnect("closed") /\ UNCHANGED <<profile, connects>>
    BY <1>2 DEF CloseWindow
  <2>2. /\ stopReq' \in {"none", "graceful", "force"} /\ tunnel' \in BOOLEAN
        /\ ssh' \in {"none", "alive", "dead"}
        /\ mpc' \in {"join", "closed"} /\ cont' \in {cont, "closed"}
    BY <2>1, DisconnectTypes
  <2>. QED  BY <2>1, <2>2 DEF TypeOK, Disconnect
<1>3. CASE \E p \in Profiles : ClickConnect(p)
  <2>1. PICK p \in Profiles : ClickConnect(p)
    BY <1>3
  <2>2. Disconnect("connect") /\ connects' = connects + 1 /\ connects < MaxConnects /\ profile' = p
    BY <2>1 DEF ClickConnect
  <2>3. /\ stopReq' \in {"none", "graceful", "force"} /\ tunnel' \in BOOLEAN
        /\ ssh' \in {"none", "alive", "dead"}
        /\ mpc' \in {"join", "connect"} /\ cont' \in {cont, "connect"}
    BY <2>2, DisconnectTypes
  <2>. QED  BY <2>2, <2>3 DEF TypeOK, Disconnect
<1>4. CASE Join
  BY <1>4, ZenonT(60) DEF TypeOK, Join
<1>5. CASE \E useTunnel \in BOOLEAN : ConnectTunnel(useTunnel)
  BY <1>5 DEF TypeOK, ConnectTunnel
<1>6. CASE ConnectSetup
  <2>1. /\ connState' = "CONNECTING" /\ lastRc' = 0 /\ subTopics' = <<>>
        /\ mpc' \in {"dial", "idle"}
        /\ UNCHANGED <<mutex, pending, pendingNext, tunnel, cont, profile, subIdx, shown,
                       netVars, link, wire, sent, report, ssh, connects, reconnects>>
    BY <1>6 DEF ConnectSetup
  <2>2. mosq' \in BOOLEAN
    <3>1. (mosq' = TRUE) \/ (mosq' = mosq)
      BY <1>6, Zenon DEF ConnectSetup
    <3>. QED  BY <3>1, Zenon DEF TypeOK
  <2>4. lastMid' \in Nat
    BY <1>6 DEF ConnectSetup, TypeOK
  <2>3. wire = {}
    BY <1>6 DEF ConnectSetup, Phases
  <2>. QED  BY <2>1, <2>2, <2>3, <2>4 DEF TypeOK
<1>7. CASE ConnectDial
  BY <1>7 DEF TypeOK, ConnectDial, Dialled
<1>8. CASE ConnectLoop
  <2>1. /\ npc' \in {npc, "loop"} /\ mosq' \in BOOLEAN /\ link' \in {link, "down"}
        /\ subIdx' \in {subIdx, 1} /\ mpc' \in {"store", "idle"}
        /\ UNCHANGED <<connState, lastRc, mutex, subTopics, pending, pendingNext, tunnel,
                       cont, profile, shown, sendIdx, rcArg, stopReq, lastMid, wire, sent,
                       report, ssh, connects, reconnects>>
    BY <1>8 DEF ConnectLoop, SubscribeFrom, TypeOK
  <2>. QED  BY <2>1 DEF TypeOK
<1>9. CASE SubscribeStore
  <2>1. profile[subIdx] \in Topics
    BY <1>0, <1>9 DEF SubscribeStore, Phases, TypeOK
  <2>2. subTopics' \in Seq(Topics) /\ Len(subTopics') <= MaxSubs
    BY <1>9, <2>1 DEF SubscribeStore, TypeOK
  <2>. QED  BY <1>9, <2>2 DEF TypeOK, SubscribeStore
<1>10. CASE SubscribeCheck
  <2>1. subIdx' \in 1 .. MaxSubs + 1 /\ mpc' \in {"send", "store", "idle"}
    BY <1>0, <1>10 DEF SubscribeCheck, SubscribeFrom, Phases, TypeOK
  <2>. QED  BY <1>10, <2>1 DEF TypeOK, SubscribeCheck
<1>11. CASE SubscribeSend
  <2>1. profile[subIdx] \in Topics
    BY <1>0, <1>11 DEF SubscribeSend, Phases, TypeOK
  <2>2. subIdx' \in 1 .. MaxSubs + 1 /\ mpc' \in {"store", "idle"}
    BY <1>0, <1>11 DEF SubscribeSend, SubscribeFrom, Phases, TypeOK
  <2>3. /\ pending' \in [PendingSlots -> [mid : Nat, topic : Topics \cup {NoTopic}]]
        /\ pendingNext' \in PendingSlots
        /\ lastMid' \in Nat
        /\ wire' \subseteq [mid : 1 .. lastMid', topic : Topics]
        /\ sent' \subseteq Topics
    BY <1>11, <2>1, SendTypes DEF SubscribeSend
  <2>. QED  BY <1>11, <2>2, <2>3 DEF TypeOK, SubscribeSend
<1>12. CASE BeginFrame
  BY <1>12 DEF TypeOK, BeginFrame
<1>13. CASE PollTunnel
  <2>1. /\ tunnel' \in BOOLEAN /\ ssh' \in {ssh, "none"}
        /\ stopReq' \in {stopReq, "graceful", "force"} /\ mpc' \in {"join", "status1"}
        /\ cont' \in {cont, "status1"} /\ connState' \in {connState, "DISCONNECTED"}
        /\ lastRc' \in {lastRc, 0}
        /\ UNCHANGED <<mosq, mutex, subTopics, pending, pendingNext, profile, subIdx, shown,
                       npc, sendIdx, rcArg, link, lastMid, wire, sent, report, connects,
                       reconnects>>
    BY <1>13 DEF PollTunnel, StopNetworkThread, TypeOK
  <2>. QED  BY <2>1 DEF TypeOK
<1>14. CASE Status
  BY <1>14 DEF TypeOK, Status, Show
<1>15. CASE Connack
  BY <1>15 DEF TypeOK, Connack
<1>16. CASE OnConnectState
  BY <1>16 DEF TypeOK, OnConnectState
<1>17. CASE OnConnectRc
  BY <1>17 DEF TypeOK, OnConnectRc
<1>18. CASE OnConnectLock
  BY <1>18 DEF TypeOK, OnConnectLock
<1>19. CASE OnConnectSend
  <2>1. subTopics[sendIdx] \in Topics
    BY <1>19 DEF OnConnectSend, TypeOK
  <2>3. /\ pending' \in [PendingSlots -> [mid : Nat, topic : Topics \cup {NoTopic}]]
        /\ pendingNext' \in PendingSlots
        /\ lastMid' \in Nat
        /\ wire' \subseteq [mid : 1 .. lastMid', topic : Topics]
        /\ sent' \subseteq Topics
    BY <1>19, <2>1, SendTypes DEF OnConnectSend
  <2>. QED  BY <1>19, <2>3 DEF TypeOK, OnConnectSend
<1>20. CASE OnConnectUnlock
  BY <1>20 DEF TypeOK, OnConnectUnlock
<1>21. CASE OnConnectRefused
  BY <1>21 DEF TypeOK, OnConnectRefused
<1>22. CASE Closed
  BY <1>22 DEF TypeOK, Closed
<1>23. CASE OnDisconnectState
  BY <1>23 DEF TypeOK, OnDisconnectState
<1>24. CASE OnDisconnectRc
  BY <1>24 DEF TypeOK, OnDisconnectRc
<1>25. CASE Reconnect
  BY <1>25 DEF TypeOK, Reconnect, Dialled
<1>26. CASE ThreadExit
  BY <1>26 DEF TypeOK, ThreadExit
<1>27. CASE \E p \in wire : OnSubscribe(p)
  <2>1. PICK p \in wire : OnSubscribe(p)
    BY <1>27
  <2>2. p.topic \in Topics
    BY DEF TypeOK
  <2>3. wire' \subseteq wire
    BY <2>1 DEF OnSubscribe
  <2>4. /\ pending' \in [PendingSlots -> [mid : Nat, topic : Topics \cup {NoTopic}]]
        /\ report' \in [actual : Topics \cup {NoTopic}, logged : Topics \cup {NoTopic}]
    <3>1. CASE Matches(p.mid) = {}
      BY <2>1, <2>2, <3>1 DEF OnSubscribe, TypeOK
    <3>2. CASE Matches(p.mid) # {}
      <4> DEFINE s == FirstOf(Matches(p.mid))
      <4>1. /\ report' = [actual |-> p.topic, logged |-> pending[s].topic]
            /\ pending' = [pending EXCEPT ![s].topic = NoTopic]
        BY <2>1, <3>2 DEF OnSubscribe
      <4>2. s \in PendingSlots
        BY <3>2, FirstMatch DEF Matches
      <4> HIDE DEF s
      <4>. QED  BY <2>2, <4>1, <4>2 DEF TypeOK
    <3>. QED  BY <3>1, <3>2
  <2>. QED  BY <2>1, <2>3, <2>4 DEF TypeOK, OnSubscribe
<1>28. CASE LinkBreaks
  BY <1>28 DEF TypeOK, LinkBreaks
<1>29. CASE SshDies
  BY <1>29 DEF TypeOK, SshDies
<1>30. CASE Finished
  BY <1>30 DEF TypeOK, Finished
<1>31. CASE UNCHANGED vars
  BY <1>31 DEF TypeOK
<1>. QED
  BY <1>1, <1>2, <1>3, <1>4, <1>5, <1>6, <1>7, <1>8, <1>9, <1>10, <1>11, <1>12, <1>13, <1>14, <1>15, <1>16, <1>17, <1>18, <1>19, <1>20, <1>21, <1>22, <1>23, <1>24, <1>25, <1>26, <1>27, <1>28, <1>29, <1>30, <1>31
     DEF Next, User, MainThread, Callback, Network

\* Every step keeps the rest of the invariant.  The prefix grows only in mqtt_client_subscribe,
\* and what on_connect or send_subscribe has sent is forgotten only with the connection.
LEMMA StepRest ==
    Inv /\ [Next]_vars => Phases' /\ Atomics' /\ StoredArePrefix' /\ StoredAreSent'
<1> SUFFICES ASSUME TypeOK, Phases, Atomics, StoredArePrefix, StoredAreSent, [Next]_vars
             PROVE  Phases' /\ Atomics' /\ StoredArePrefix' /\ StoredAreSent'
  BY DEF Inv
<1>0. profile \in Seq(Topics) /\ Len(profile) \in 0 .. MaxSubs
  BY ProfileFits
<1> USE MaxSubsAssumption
    DEF TypeOK, Phases, Atomics, StoredArePrefix, StoredSoFar, StoredAreSent,
        vars, clientVars, mainVars, netVars, extVars, sendVars, Frame
<1>1. CASE ClickDisconnect
  BY <1>0, <1>1 DEF ClickDisconnect, Disconnect, StopNetworkThread
<1>2. CASE CloseWindow
  BY <1>0, <1>2 DEF CloseWindow, Disconnect, StopNetworkThread
<1>3. CASE \E p \in Profiles : ClickConnect(p)
  BY <1>0, <1>3 DEF ClickConnect, Disconnect, StopNetworkThread
<1>4. CASE Join
  BY <1>0, <1>4 DEF Join
<1>5. CASE \E useTunnel \in BOOLEAN : ConnectTunnel(useTunnel)
  BY <1>0, <1>5 DEF ConnectTunnel
<1>6. CASE ConnectSetup
  BY <1>0, <1>6 DEF ConnectSetup
<1>7. CASE ConnectDial
  BY <1>0, <1>7 DEF ConnectDial, Dialled
<1>8. CASE ConnectLoop
  <2>1. Phases' /\ Atomics'
    BY <1>8 DEF ConnectLoop, SubscribeFrom
  <2>2. StoredArePrefix'
    <3>1. subTopics' = <<>> /\ Len(subTopics') = 0 /\ profile' = profile
      BY <1>8 DEF ConnectLoop
    <3>2. /\ mpc' \in {"store", "idle"}
          /\ npc' # "none" =>
                subIdx' = 1 /\ mpc' = (IF 1 <= Len(profile) THEN "store" ELSE "idle")
      BY <1>8 DEF ConnectLoop, SubscribeFrom
    <3>. QED  BY <1>0, <3>1, <3>2
  <2>3. StoredAreSent'
    BY <1>8 DEF ConnectLoop
  <2>. QED  BY <2>1, <2>2, <2>3
<1>9. CASE SubscribeStore
  BY <1>0, <1>9 DEF SubscribeStore
<1>10. CASE SubscribeCheck
  BY <1>0, <1>10 DEF SubscribeCheck, SubscribeFrom
<1>11. CASE SubscribeSend
  BY <1>0, <1>11 DEF SubscribeSend, SubscribeFrom, SendSubscribe
<1>12. CASE BeginFrame
  BY <1>0, <1>12 DEF BeginFrame
<1>13. CASE PollTunnel
  BY <1>0, <1>13 DEF PollTunnel, StopNetworkThread
<1>14. CASE Status
  BY <1>0, <1>14 DEF Status, Show
<1>15. CASE Connack
  BY <1>0, <1>15 DEF Connack
<1>16. CASE OnConnectState
  BY <1>0, <1>16 DEF OnConnectState
<1>17. CASE OnConnectRc
  BY <1>0, <1>17 DEF OnConnectRc
<1>18. CASE OnConnectLock
  BY <1>0, <1>18 DEF OnConnectLock
<1>19. CASE OnConnectSend
  BY <1>0, <1>19 DEF OnConnectSend, SendSubscribe
<1>20. CASE OnConnectUnlock
  BY <1>0, <1>20 DEF OnConnectUnlock
<1>21. CASE OnConnectRefused
  BY <1>0, <1>21 DEF OnConnectRefused
<1>22. CASE Closed
  BY <1>0, <1>22 DEF Closed
<1>23. CASE OnDisconnectState
  BY <1>0, <1>23 DEF OnDisconnectState
<1>24. CASE OnDisconnectRc
  BY <1>0, <1>24 DEF OnDisconnectRc
<1>25. CASE Reconnect
  BY <1>0, <1>25 DEF Reconnect, Dialled
<1>26. CASE ThreadExit
  BY <1>0, <1>26 DEF ThreadExit
<1>27. CASE \E p \in wire : OnSubscribe(p)
  BY <1>0, <1>27 DEF OnSubscribe
<1>28. CASE LinkBreaks
  BY <1>0, <1>28 DEF LinkBreaks
<1>29. CASE SshDies
  BY <1>0, <1>29 DEF SshDies
<1>30. CASE Finished
  BY <1>0, <1>30 DEF Finished
<1>31. CASE UNCHANGED vars
  BY <1>0, <1>31
<1>. QED
  BY <1>1, <1>2, <1>3, <1>4, <1>5, <1>6, <1>7, <1>8, <1>9, <1>10, <1>11, <1>12, <1>13, <1>14, <1>15, <1>16, <1>17, <1>18, <1>19, <1>20, <1>21, <1>22, <1>23, <1>24, <1>25, <1>26, <1>27, <1>28, <1>29, <1>30, <1>31
     DEF Next, User, MainThread, Callback, Network

\* Every step of either thread keeps the invariant.
LEMMA StepInv == Inv /\ [Next]_vars => Inv'
  BY StepTypes, StepRest DEF Inv

\* The invariant holds in every reachable state.
LEMMA AlwaysInv == Spec => []Inv
  BY InitInv, StepInv, PTL DEF Spec

-----------------------------------------------------------------------------
\* Every variable keeps the values the source gives it; in particular the stored
\* subscriptions never exceed MQTT_CLIENT_MAX_SUBS and the ring index stays in the ring.
THEOREM TypeCorrect == Spec => []TypeOK
<1>1. Inv => TypeOK
  BY DEF Inv
<1>. QED  BY AlwaysInv, <1>1, PTL

\* Outside of calls and callbacks, conn_state and last_disconnect_rc, which two threads store
\* to one after the other without a lock, agree with the connection: after any number of
\* connects, reconnects and failures (on_connect, on_disconnect, mqtt_client.c).
THEOREM AtomicsAlwaysAgree == Spec => []AtomicsAgree
<1>1. Inv => AtomicsAgree
  BY DEF Inv, TypeOK, Phases, Atomics, AtomicsAgree, Frame
<1>. QED  BY AlwaysInv, <1>1, PTL

\* No interleaving of mqtt_client_subscribe (store, then look at conn_state) with on_connect
\* (store conn_state, then send what is stored) loses a subscription, for every list of
\* subscriptions and number of reconnects.
THEOREM SubscriptionsReachBroker == Spec => []NoLostSubscription
<1>1. Inv => NoLostSubscription
  <2> SUFFICES ASSUME Inv, mpc \in Frame, npc = "loop", link = "up",
                      NEW j \in DOMAIN profile
               PROVE  profile[j] \in sent
    BY DEF NoLostSubscription, ToSet
  <2>1. mpc \notin {"join", "store", "check", "send"}
    BY DEF Frame
  <2>2. profile \in Seq(Topics) /\ Len(subTopics) = Len(profile)
    BY <2>1, ProfileFits DEF Inv, StoredArePrefix, StoredSoFar
  <2>3. j \in 1 .. Len(subTopics)
    BY <2>2
  <2>4. subTopics[j] = profile[j] /\ subTopics[j] \in sent
    BY <2>1, <2>3 DEF Inv, StoredArePrefix, StoredAreSent
  <2>. QED  BY <2>4
<1>. QED  BY AlwaysInv, <1>1, PTL

-----------------------------------------------------------------------------
(* The ring of SUBSCRIBE packets in flight.                                *)

\* Until the user connects a second time, message ids are given out once, so that a slot with
\* the id of a packet in flight is that packet's or free.
FreshIds ==
    connects <= 1 =>
        /\ connects = 0 => ~mosq /\ mpc \notin {"connect", "setup"}
        /\ connects = 0 \/ mpc \in {"connect", "setup"} => lastMid = 0
        /\ mpc = "join" => cont # "connect"
        /\ \A s \in PendingSlots : pending[s].mid <= lastMid
        /\ \A p, q \in wire : p.mid = q.mid => p = q
        /\ \A s \in PendingSlots, p \in wire :
               pending[s].mid = p.mid => pending[s].topic \in {p.topic, NoTopic}
        /\ AckNamesItsTopic

\* A packet with a new id takes the next slot.
LEMMA SendFresh ==
    ASSUME TypeOK, FreshIds, connects <= 1, NEW t \in Topics, SendSubscribe(t)
    PROVE  /\ \A s \in PendingSlots : pending'[s].mid <= lastMid'
           /\ \A p, q \in wire' : p.mid = q.mid => p = q
           /\ \A s \in PendingSlots, p \in wire' :
                  pending'[s].mid = p.mid => pending'[s].topic \in {p.topic, NoTopic}
<1>1. CASE UNCHANGED sendVars
  BY <1>1 DEF sendVars, FreshIds
<1>2. CASE ~UNCHANGED sendVars
  <2> DEFINE packet == [mid |-> lastMid + 1, topic |-> t]
  <2>1. /\ pending' = [pending EXCEPT ![pendingNext] = packet]
        /\ lastMid' = lastMid + 1 /\ wire' = wire \cup {packet}
    BY <1>2 DEF SendSubscribe
  <2>2. packet.mid = lastMid + 1 /\ packet.topic = t
    OBVIOUS
  <2>3. \A s \in PendingSlots : pending[s].mid \in Nat /\ pending[s].mid <= lastMid
    BY DEF TypeOK, FreshIds
  <2>4. \A p \in wire : p.mid \in Nat /\ p.mid <= lastMid
    BY DEF TypeOK
  <2>5. \A s \in PendingSlots : pending'[s] = IF s = pendingNext THEN packet ELSE pending[s]
    BY <2>1 DEF TypeOK
  <2>6. lastMid \in Nat
    BY DEF TypeOK
  <2> HIDE DEF packet
  <2>7. \A s \in PendingSlots : pending'[s].mid <= lastMid'
    BY <2>1, <2>2, <2>3, <2>5, <2>6
  <2>8. \A p, q \in wire' : p.mid = q.mid => p = q
    BY <2>1, <2>2, <2>4, <2>6 DEF FreshIds
  <2>9. \A s \in PendingSlots, p \in wire' :
          pending'[s].mid = p.mid => pending'[s].topic \in {p.topic, NoTopic}
    BY <2>1, <2>2, <2>3, <2>4, <2>5, <2>6 DEF FreshIds
  <2>. QED  BY <2>7, <2>8, <2>9
<1>. QED  BY <1>1, <1>2

\* Within the first connection every step leaves the message ids in use distinct.
LEMMA StepFresh == Inv /\ FreshIds /\ [Next]_vars => FreshIds'
<1> SUFFICES ASSUME TypeOK, Phases, FreshIds, [Next]_vars, (connects <= 1)' PROVE FreshIds'
  BY DEF Inv, FreshIds
<1> USE BoundsAssumption DEF vars, clientVars, mainVars, netVars, extVars, Frame
<1>1. CASE ClickDisconnect
  BY <1>1 DEF TypeOK, Phases, FreshIds, AckNamesItsTopic, ClickDisconnect, Disconnect, StopNetworkThread
<1>2. CASE CloseWindow
  BY <1>2 DEF TypeOK, Phases, FreshIds, AckNamesItsTopic, CloseWindow, Disconnect, StopNetworkThread
<1>3. CASE \E p \in Profiles : ClickConnect(p)
  BY <1>3 DEF TypeOK, Phases, FreshIds, AckNamesItsTopic, ClickConnect, Disconnect, StopNetworkThread
<1>4. CASE Join
  BY <1>4 DEF TypeOK, Phases, FreshIds, AckNamesItsTopic, Join
<1>5. CASE \E useTunnel \in BOOLEAN : ConnectTunnel(useTunnel)
  BY <1>5 DEF TypeOK, Phases, FreshIds, AckNamesItsTopic, ConnectTunnel
<1>6. CASE ConnectSetup
  <2>1. wire' = {} /\ UNCHANGED <<connects, cont, report, pending>> /\ mpc' \in {"dial", "idle"}
    BY <1>6 DEF ConnectSetup, Phases
  <2>2. lastMid' = lastMid
    BY <1>6, <2>1 DEF ConnectSetup, FreshIds
  <2>3. connects # 0
    BY <1>6 DEF ConnectSetup, Phases, FreshIds
  <2>. QED  BY <2>1, <2>2, <2>3 DEF TypeOK, FreshIds, AckNamesItsTopic
<1>7. CASE ConnectDial
  BY <1>7 DEF TypeOK, Phases, FreshIds, AckNamesItsTopic, ConnectDial, Dialled
<1>8. CASE ConnectLoop
  BY <1>8 DEF TypeOK, Phases, FreshIds, AckNamesItsTopic, ConnectLoop, SubscribeFrom
<1>9. CASE SubscribeStore
  BY <1>9 DEF TypeOK, Phases, FreshIds, AckNamesItsTopic, SubscribeStore
<1>10. CASE SubscribeCheck
  BY <1>10 DEF TypeOK, Phases, FreshIds, AckNamesItsTopic, SubscribeCheck, SubscribeFrom
<1>11. CASE SubscribeSend
  <2>1. profile[subIdx] \in Topics /\ SendSubscribe(profile[subIdx])
    BY <1>11, ProfileFits DEF SubscribeSend, TypeOK, Phases
  <2>2. /\ UNCHANGED <<connects, mosq, cont, report>> /\ mosq
        /\ mpc' \notin {"connect", "setup", "join"} \/ UNCHANGED mpc
    BY <1>11 DEF SubscribeSend, SubscribeFrom, TypeOK, Phases
  <2>. QED  BY <1>11, <2>1, <2>2, SendFresh DEF SubscribeSend, FreshIds, AckNamesItsTopic, Phases
<1>12. CASE BeginFrame
  BY <1>12 DEF TypeOK, Phases, FreshIds, AckNamesItsTopic, BeginFrame
<1>13. CASE PollTunnel
  BY <1>13 DEF TypeOK, Phases, FreshIds, AckNamesItsTopic, PollTunnel, StopNetworkThread
<1>14. CASE Status
  BY <1>14 DEF TypeOK, Phases, FreshIds, AckNamesItsTopic, Status, Show
<1>15. CASE Connack
  BY <1>15 DEF TypeOK, Phases, FreshIds, AckNamesItsTopic, Connack
<1>16. CASE OnConnectState
  BY <1>16 DEF TypeOK, Phases, FreshIds, AckNamesItsTopic, OnConnectState
<1>17. CASE OnConnectRc
  BY <1>17 DEF TypeOK, Phases, FreshIds, AckNamesItsTopic, OnConnectRc
<1>18. CASE OnConnectLock
  BY <1>18 DEF TypeOK, Phases, FreshIds, AckNamesItsTopic, OnConnectLock
<1>19. CASE OnConnectSend
  <2>1. subTopics[sendIdx] \in Topics /\ SendSubscribe(subTopics[sendIdx])
    BY <1>19, ProfileFits DEF OnConnectSend, TypeOK, Phases
  <2>2. /\ UNCHANGED <<connects, mosq, cont, report>> /\ mosq
        /\ mpc' \notin {"connect", "setup", "join"} \/ UNCHANGED mpc
    BY <1>19 DEF OnConnectSend, SubscribeFrom, TypeOK, Phases
  <2>. QED  BY <1>19, <2>1, <2>2, SendFresh DEF OnConnectSend, FreshIds, AckNamesItsTopic, Phases
<1>20. CASE OnConnectUnlock
  BY <1>20 DEF TypeOK, Phases, FreshIds, AckNamesItsTopic, OnConnectUnlock
<1>21. CASE OnConnectRefused
  BY <1>21 DEF TypeOK, Phases, FreshIds, AckNamesItsTopic, OnConnectRefused
<1>22. CASE Closed
  BY <1>22 DEF TypeOK, Phases, FreshIds, AckNamesItsTopic, Closed
<1>23. CASE OnDisconnectState
  BY <1>23 DEF TypeOK, Phases, FreshIds, AckNamesItsTopic, OnDisconnectState
<1>24. CASE OnDisconnectRc
  BY <1>24 DEF TypeOK, Phases, FreshIds, AckNamesItsTopic, OnDisconnectRc
<1>25. CASE Reconnect
  BY <1>25 DEF TypeOK, Phases, FreshIds, AckNamesItsTopic, Reconnect, Dialled
<1>26. CASE ThreadExit
  BY <1>26 DEF TypeOK, Phases, FreshIds, AckNamesItsTopic, ThreadExit
<1>27. CASE \E p \in wire : OnSubscribe(p)
  <2>1. PICK p \in wire : OnSubscribe(p)
    BY <1>27
  <2>2. wire' \subseteq wire /\ UNCHANGED <<connects, mosq, mpc, cont, lastMid>>
    BY <2>1 DEF OnSubscribe
  <2>3. CASE Matches(p.mid) = {}
    BY <2>1, <2>2, <2>3 DEF OnSubscribe, TypeOK, FreshIds, AckNamesItsTopic
  <2>4. CASE Matches(p.mid) # {}
    <3> DEFINE s == FirstOf(Matches(p.mid))
    <3>1. s \in PendingSlots /\ pending[s].mid = p.mid
      BY <2>4, FirstMatch DEF Matches
    <3>2. /\ report' = [actual |-> p.topic, logged |-> pending[s].topic]
          /\ pending' = [pending EXCEPT ![s].topic = NoTopic]
      BY <2>1, <2>4 DEF OnSubscribe
    <3> HIDE DEF s
    <3>3. AckNamesItsTopic'
      BY <2>2, <3>1, <3>2 DEF FreshIds, AckNamesItsTopic
    <3>4. \A u \in PendingSlots : /\ pending'[u].mid = pending[u].mid
                                  /\ pending'[u].topic \in {pending[u].topic, NoTopic}
      BY <3>1, <3>2 DEF TypeOK
    <3>. QED  BY <2>2, <3>3, <3>4 DEF FreshIds
  <2>. QED  BY <2>3, <2>4
<1>28. CASE LinkBreaks
  BY <1>28 DEF TypeOK, Phases, FreshIds, AckNamesItsTopic, LinkBreaks
<1>29. CASE SshDies
  BY <1>29 DEF TypeOK, Phases, FreshIds, AckNamesItsTopic, SshDies
<1>30. CASE Finished
  BY <1>30 DEF TypeOK, Phases, FreshIds, AckNamesItsTopic, Finished
<1>31. CASE UNCHANGED vars
  BY <1>31 DEF TypeOK, Phases, FreshIds, AckNamesItsTopic
<1>. QED
  BY <1>1, <1>2, <1>3, <1>4, <1>5, <1>6, <1>7, <1>8, <1>9, <1>10, <1>11, <1>12, <1>13, <1>14, <1>15, <1>16, <1>17, <1>18, <1>19, <1>20, <1>21, <1>22, <1>23, <1>24, <1>25, <1>26, <1>27, <1>28, <1>29, <1>30, <1>31
     DEF Next, User, MainThread, Callback, Network

\* Until the user connects a second time, a SUBACK is never logged against another topic filter
\* than its own.  (After it, finding 1 of the README: ids start again from 1 while the ring
\* still holds the packets of the connection before.)
THEOREM FirstAcksNameTheirTopic == Spec => [](connects <= 1 => AckNamesItsTopic)
<1>1. Init => FreshIds
  BY DEF Init, FreshIds, AckNamesItsTopic, NoReport
<1>2. FreshIds => (connects <= 1 => AckNamesItsTopic)
  BY DEF FreshIds
<1>. QED  BY AlwaysInv, StepFresh, <1>1, <1>2, PTL DEF Spec

=============================================================================
