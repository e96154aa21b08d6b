----------------------------- MODULE MqttClient -----------------------------
(***************************************************************************)
(* The MQTT client of src/core/mqtt_client.c: the UI thread, which runs a  *)
(* frame loop and calls connect, subscribe, disconnect and the tunnel poll *)
(* from it, and libmosquitto's network thread, which calls on_connect,     *)
(* on_disconnect and on_subscribe.  They share the atomics conn_state and  *)
(* last_disconnect_rc and, under sub_mutex, the stored subscriptions and   *)
(* the ring of SUBSCRIBE packets in flight.  Every access to an atomic and *)
(* every critical section is a step of its own; on_connect holds the mutex *)
(* across one step per stored subscription.                                *)
(*                                                                         *)
(* libmosquitto, the broker and the ssh child are external: they are what  *)
(* the client's calls and callbacks take them to be.                       *)
(***************************************************************************)
EXTENDS Naturals, Sequences, SequencesExt

CONSTANTS Profiles,     \* the subscription lists of the user's profiles
          MaxSubs,      \* MQTT_CLIENT_MAX_SUBS
          MayFail,      \* the calls that can fail: "tunnel", "new", "dial", "loop"
          NoTopic,      \* the empty topic of a free pending_subs slot
          MaxConnects,  \* bound: connects the user starts
          MaxReconnects \* bound: times libmosquitto connects again

Topics == UNION {ToSet(p) : p \in Profiles}

ASSUME ProfilesAssumption == \A p \in Profiles : p \in Seq(ToSet(p)) /\ Len(p) <= MaxSubs
ASSUME MaxSubsAssumption == MaxSubs \in Nat \ {0}
ASSUME NoTopicAssumption == NoTopic \notin Topics
ASSUME MayFailAssumption == MayFail \subseteq {"tunnel", "new", "dial", "loop"}
ASSUME BoundsAssumption == MaxConnects \in Nat /\ MaxReconnects \in Nat

VARIABLES
    (* struct MqttClient *)
    connState,    \* conn_state
    lastRc,       \* last_disconnect_rc: 0, or 1 for every other code
    mosq,         \* is client->mosq non-NULL?
    mutex,        \* who holds sub_mutex between two steps
    subTopics,    \* sub_topics[0 .. sub_count - 1]
    pending,      \* pending_subs
    pendingNext,  \* pending_next, modulo its size
    tunnel,       \* is ssh_tunnel.pid set?
    (* the UI thread *)
    mpc,          \* where it is in a frame or in a call of the client
    cont,         \* where it goes on after the running mqtt_client_disconnect
    profile,      \* the subscriptions of the profile it connects with
    subIdx,       \* the one it is subscribing to
    shown,        \* state.conn_state, what the menu bar shows
    (* the network thread *)
    npc,          \* where it is in a callback, "none" when there is no thread
    sendIdx,      \* i of the loop in on_connect
    rcArg,        \* the rc of the on_disconnect in progress
    stopReq,      \* what mosquitto_disconnect and mosquitto_loop_stop asked for
    (* libmosquitto, the connection and the broker, the ssh child *)
    link,         \* the TCP connection
    lastMid,      \* the message id given out last by this mosquitto instance
    wire,         \* the SUBSCRIBE packets of this connection without a SUBACK
    sent,         \* the topics subscribed to on this connection
    report,       \* the last SUBACK: its topic and the topic logged for it
    ssh,          \* the ssh child process
    connects,     \* connects the user has started
    reconnects    \* times libmosquitto has connected again

clientVars == <<connState, lastRc, mosq, mutex, subTopics, pending, pendingNext, tunnel>>
mainVars == <<mpc, cont, profile, subIdx, shown>>
netVars == <<npc, sendIdx, rcArg, stopReq>>
extVars == <<link, lastMid, wire, sent, report, ssh, connects, reconnects>>
vars == <<clientVars, mainVars, netVars, extVars>>

(* The packets sent and their bookkeeping: what send_subscribe changes. *)
sendVars == <<pending, pendingNext, lastMid, wire, sent>>

PendingSlots == 0 .. MaxSubs - 1
NoReport == [actual |-> NoTopic, logged |-> NoTopic]

(* The steps of the UI thread outside of every call of the client. *)
Frame == {"idle", "poll", "status1", "status2", "status3"}

-----------------------------------------------------------------------------
(* mqtt_client_new; main starts without a connection. *)
Init == /\ connState = "DISCONNECTED"
        /\ lastRc = 0
        /\ mosq = FALSE
        /\ mutex = "free"
        /\ subTopics = <<>>
        /\ pending = [s \in PendingSlots |-> [mid |-> 0, topic |-> NoTopic]]
        /\ pendingNext = 0
        /\ tunnel = FALSE
        /\ mpc = "idle"
        /\ cont = "idle"
        /\ profile = <<>>
        /\ subIdx = 1
        /\ shown = "DISCONNECTED"
        /\ npc = "none"
        /\ sendIdx = 1
        /\ rcArg = 0
        /\ stopReq = "none"
        /\ link = "down"
        /\ lastMid = 0
        /\ wire = {}
        /\ sent = {}
        /\ report = NoReport
        /\ ssh = "none"
        /\ connects = 0
        /\ reconnects = 0

-----------------------------------------------------------------------------
(* send_subscribe, called with sub_mutex held.  Without a connection       *)
(* mosquitto_subscribe fails and nothing is recorded; on a connection that *)
(* is lost but not yet closed it may or may not.                           *)
SendSubscribe(t) ==
    \/ /\ link # "down"
       /\ lastMid' = lastMid + 1
       /\ wire' = wire \cup {[mid |-> lastMid + 1, topic |-> t]}
       /\ sent' = sent \cup {t}
       /\ pending' = [pending EXCEPT ![pendingNext] = [mid |-> lastMid + 1, topic |-> t]]
       /\ pendingNext' = (pendingNext + 1) % MaxSubs
    \/ /\ link \in {"down", "broken"}
       /\ UNCHANGED sendVars

(* A new TCP connection: the CONNECT packet is sent, and whatever an       *)
(* earlier connection had in flight is gone.                               *)
Dialled == /\ link' = "dialled"
           /\ wire' = {}
           /\ sent' = {}

-----------------------------------------------------------------------------
(* The UI thread: stopping.                                                *)

Mutant_StopNetworkThread == UNCHANGED stopReq

(* stop_network_thread up to the join: mosquitto_disconnect fails without  *)
(* a connection, and then the thread is cancelled.                         *)
StopNetworkThread ==
    \/ link # "down" /\ stopReq' = "graceful"
    \/ link \in {"down", "broken"} /\ stopReq' = "force"

(* mqtt_client_disconnect, up to the join if there is an instance, and to  *)
(* its end (ssh_tunnel_stop) if there is none.                             *)
Disconnect(next) ==
    /\ IF mosq
       THEN /\ StopNetworkThread
            /\ mpc' = "join"
            /\ cont' = next
            /\ UNCHANGED <<tunnel, ssh>>
       ELSE /\ tunnel' = FALSE
            /\ ssh' = "none"
            /\ mpc' = next
            /\ UNCHANGED <<stopReq, cont>>
    /\ UNCHANGED <<connState, lastRc, mosq, mutex, subTopics, pending, pendingNext,
                   subIdx, shown, npc, sendIdx, rcArg, link, lastMid, wire, sent,
                   report, reconnects>>

(* mosquitto_loop_stop has joined the thread (or there was none): the rest *)
(* of mqtt_client_disconnect, or of mqtt_client_poll_ssh_tunnel.           *)
Join == /\ mpc = "join"
        /\ npc = "none"
        /\ mosq' = FALSE
        /\ link' = "down"
        /\ wire' = {}
        /\ sent' = {}
        /\ stopReq' = "none"
        /\ connState' = "DISCONNECTED"
        /\ lastRc' = 0
        /\ tunnel' = FALSE
        /\ ssh' = "none"
        /\ mpc' = cont
        /\ UNCHANGED <<mutex, subTopics, pending, pendingNext, cont, profile, subIdx,
                       shown, npc, sendIdx, rcArg, lastMid, report, connects,
                       reconnects>>

(* The Disconnect button: offered unless the client is shown disconnected. *)
ClickDisconnect == /\ mpc = "idle"
                   /\ shown # "DISCONNECTED"
                   /\ Disconnect("poll")
                   /\ UNCHANGED <<profile, connects>>

(* The window is closed: mqtt_client_disconnect, then mqtt_client_destroy. *)
CloseWindow == /\ mpc = "idle"
               /\ Disconnect("closed")
               /\ UNCHANGED <<profile, connects>>

-----------------------------------------------------------------------------
(* The UI thread: connecting.                                              *)

(* Connect in the profile dialog: mqtt_client_disconnect comes first, so   *)
(* mqtt_client_connect never finds an instance.                            *)
ClickConnect(p) == /\ mpc = "idle"
                   /\ connects < MaxConnects
                   /\ connects' = connects + 1
                   /\ profile' = p
                   /\ Disconnect("connect")

(* mqtt_client_connect, its first part: the ssh tunnel, if the profile has *)
(* one.  If it cannot be started the call returns false here.              *)
ConnectTunnel(useTunnel) ==
    /\ mpc = "connect"
    /\ \/ /\ mpc' = "setup"
          /\ tunnel' = useTunnel
          /\ ssh' = IF useTunnel THEN "alive" ELSE "none"
       \/ /\ useTunnel /\ "tunnel" \in MayFail
          /\ mpc' = "idle"
          /\ UNCHANGED <<tunnel, ssh>>
    /\ UNCHANGED <<connState, lastRc, mosq, mutex, subTopics, pending, pendingNext,
                   cont, profile, subIdx, shown, netVars, link, lastMid, wire, sent,
                   report, connects, reconnects>>

(* The atomics and the stored subscriptions are reset, mosquitto_new gives *)
(* an instance that counts its message ids from 1, or fails.               *)
ConnectSetup ==
    /\ mpc = "setup"
    /\ mutex = "free"
    /\ connState' = "CONNECTING"
    /\ lastRc' = 0
    /\ subTopics' = <<>>
    /\ \/ mosq' = TRUE /\ lastMid' = 0 /\ mpc' = "dial"
       \/ "new" \in MayFail /\ mpc' = "idle" /\ UNCHANGED <<mosq, lastMid>>
    /\ UNCHANGED <<mutex, pending, pendingNext, tunnel, cont, profile, subIdx, shown,
                   netVars, link, wire, sent, report, ssh, connects, reconnects>>

(* mosquitto_connect, on the calling thread. *)
ConnectDial ==
    /\ mpc = "dial"
    /\ \/ Dialled /\ mpc' = "loop"
       \/ "dial" \in MayFail /\ mpc' = "idle" /\ UNCHANGED <<link, wire, sent>>
    /\ UNCHANGED <<clientVars, cont, profile, subIdx, shown, netVars, lastMid, report,
                   ssh, connects, reconnects>>

(* The UI thread returns from a mqtt_client_subscribe: the next of the     *)
(* profile's subscriptions, or the end of the frame.                       *)
SubscribeFrom(i) == /\ subIdx' = i
                    /\ mpc' = IF i <= Len(profile) THEN "store" ELSE "idle"

(* mosquitto_loop_start; on success mqtt_client_connect returns true and   *)
(* the dialog subscribes.                                                  *)
ConnectLoop ==
    /\ mpc = "loop"
    /\ \/ npc' = "loop" /\ SubscribeFrom(1) /\ UNCHANGED <<mosq, link>>
       \/ /\ "loop" \in MayFail
          /\ mosq' = FALSE
          /\ link' = "down"
          /\ mpc' = "idle"
          /\ UNCHANGED <<npc, subIdx>>
    /\ UNCHANGED <<connState, lastRc, mutex, subTopics, pending, pendingNext, tunnel,
                   cont, profile, shown, sendIdx, rcArg, stopReq, lastMid, wire, sent,
                   report, ssh, connects, reconnects>>

-----------------------------------------------------------------------------
(* The UI thread: mqtt_client_subscribe.                                   *)

(* The filter is stored, under sub_mutex, if there is room for it. *)
SubscribeStore ==
    /\ mpc = "store"
    /\ mutex = "free"
    /\ subTopics' = IF Len(subTopics) < MaxSubs
                    THEN Append(subTopics, profile[subIdx])
                    ELSE subTopics
    /\ mpc' = "check"
    /\ UNCHANGED <<connState, lastRc, mosq, mutex, pending, pendingNext, tunnel, cont,
                   profile, subIdx, shown, netVars, extVars>>

(* conn_state is read: without a connection on_connect will send it. *)
SubscribeCheck ==
    /\ mpc = "check"
    /\ IF connState = "CONNECTED"
       THEN mpc' = "send" /\ UNCHANGED subIdx
       ELSE SubscribeFrom(subIdx + 1)
    /\ UNCHANGED <<clientVars, cont, profile, shown, netVars, extVars>>

(* The SUBSCRIBE is sent, under sub_mutex. *)
SubscribeSend ==
    /\ mpc = "send"
    /\ mutex = "free"
    /\ SendSubscribe(profile[subIdx])
    /\ SubscribeFrom(subIdx + 1)
    /\ UNCHANGED <<connState, lastRc, mosq, mutex, subTopics, tunnel, cont, profile,
                   shown, netVars, link, report, ssh, connects, reconnects>>

-----------------------------------------------------------------------------
(* The UI thread: the rest of a frame.                                     *)

(* No request is pending. *)
BeginFrame == /\ mpc = "idle"
              /\ mpc' = "poll"
              /\ UNCHANGED <<clientVars, cont, profile, subIdx, shown, netVars, extVars>>

Mutant_PollTunnel ==
    /\ mpc = "poll"
    /\ IF tunnel /\ ssh = "dead" /\ connState = "CONNECTED"
       THEN /\ tunnel' = FALSE
            /\ ssh' = "none"
            /\ StopNetworkThread
            /\ mpc' = "join"
            /\ cont' = "status1"
       ELSE /\ mpc' = "status1"
            /\ UNCHANGED <<tunnel, ssh, stopReq, cont>>
    /\ UNCHANGED <<connState, lastRc, mosq, mutex, subTopics, pending, pendingNext,
                   profile, subIdx, shown, npc, sendIdx, rcArg, link, lastMid, wire,
                   sent, report, connects, reconnects>>

(* mqtt_client_poll_ssh_tunnel, with ssh_tunnel_poll_alive: a tunnel whose *)
(* ssh has exited takes the connection down.                               *)
PollTunnel ==
    /\ mpc = "poll"
    /\ IF tunnel /\ ssh = "dead"
       THEN /\ tunnel' = FALSE
            /\ ssh' = "none"
            /\ IF mosq
               THEN /\ StopNetworkThread
                    /\ mpc' = "join"
                    /\ cont' = "status1"
                    /\ UNCHANGED <<connState, lastRc>>
               ELSE /\ connState' = "DISCONNECTED"
                    /\ lastRc' = 0
                    /\ mpc' = "status1"
                    /\ UNCHANGED <<stopReq, cont>>
       ELSE /\ mpc' = "status1"
            /\ UNCHANGED <<tunnel, ssh, connState, lastRc, stopReq, cont>>
    /\ UNCHANGED <<mosq, mutex, subTopics, pending, pendingNext, profile, subIdx, shown,
                   npc, sendIdx, rcArg, link, lastMid, wire, sent, report, connects,
                   reconnects>>

Show(s) == shown' = s /\ mpc' = "idle"

(* state.conn_state: mqtt_client_is_connected, mqtt_client_is_connecting   *)
(* and mqtt_client_last_disconnect_rc are three loads.                     *)
Status ==
    /\ \/ /\ mpc = "status1"
          /\ IF connState = "CONNECTED"
             THEN Show("CONNECTED")
             ELSE mpc' = "status2" /\ UNCHANGED shown
       \/ /\ mpc = "status2"
          /\ IF connState = "CONNECTING"
             THEN Show("CONNECTING")
             ELSE mpc' = "status3" /\ UNCHANGED shown
       \/ /\ mpc = "status3"
          /\ Show(IF lastRc # 0 THEN "RECONNECTING" ELSE "DISCONNECTED")
    /\ UNCHANGED <<clientVars, cont, profile, subIdx, netVars, extVars>>

-----------------------------------------------------------------------------
(* The network thread: callbacks.                                          *)

(* CONNACK: the broker accepts, or refuses the connection. *)
Connack == /\ npc = "loop"
           /\ link = "dialled"
           /\ \/ link' = "up" /\ npc' = "oc_state"
              \/ npc' = "of_state" /\ UNCHANGED link
           /\ UNCHANGED <<clientVars, mainVars, sendIdx, rcArg, stopReq, lastMid, wire,
                          sent, report, ssh, connects, reconnects>>

Mutant_OnConnectState ==
    /\ \/ npc = "oc_state" /\ npc' = "oc_rc" /\ UNCHANGED connState
       \/ npc = "loop" /\ link = "up" /\ connState' = "CONNECTED" /\ UNCHANGED npc
    /\ UNCHANGED <<lastRc, mosq, mutex, subTopics, pending, pendingNext, tunnel,
                   mainVars, sendIdx, rcArg, stopReq, extVars>>

(* on_connect with rc = 0: the store to conn_state comes before the lock. *)
OnConnectState == /\ npc = "oc_state"
                  /\ connState' = "CONNECTED"
                  /\ npc' = "oc_rc"
                  /\ UNCHANGED <<lastRc, mosq, mutex, subTopics, pending, pendingNext,
                                 tunnel, mainVars, sendIdx, rcArg, stopReq, extVars>>

Mutant_OnConnectRc ==
    /\ npc = "oc_rc"
    /\ npc' = "oc_lock"
    /\ UNCHANGED <<clientVars, mainVars, sendIdx, rcArg, stopReq, extVars>>

OnConnectRc == /\ npc = "oc_rc"
               /\ lastRc' = 0
               /\ npc' = "oc_lock"
               /\ UNCHANGED <<connState, mosq, mutex, subTopics, pending, pendingNext,
                              tunnel, mainVars, sendIdx, rcArg, stopReq, extVars>>

OnConnectLock == /\ npc = "oc_lock"
                 /\ mutex = "free"
                 /\ mutex' = "net"
                 /\ sendIdx' = 1
                 /\ npc' = "oc_send"
                 /\ UNCHANGED <<connState, lastRc, mosq, subTopics, pending, pendingNext,
                                tunnel, mainVars, rcArg, stopReq, extVars>>

(* One turn of the loop over the stored subscriptions. *)
OnConnectSend == /\ npc = "oc_send"
                 /\ sendIdx <= Len(subTopics)
                 /\ SendSubscribe(subTopics[sendIdx])
                 /\ sendIdx' = sendIdx + 1
                 /\ UNCHANGED <<connState, lastRc, mosq, mutex, subTopics, tunnel,
                                mainVars, npc, rcArg, stopReq, link, report, ssh,
                                connects, reconnects>>

OnConnectUnlock == /\ npc = "oc_send"
                   /\ sendIdx > Len(subTopics)
                   /\ mutex' = "free"
                   /\ npc' = "loop"
                   /\ UNCHANGED <<connState, lastRc, mosq, subTopics, pending,
                                  pendingNext, tunnel, mainVars, sendIdx, rcArg,
                                  stopReq, extVars>>

(* on_connect with another rc; libmosquitto then closes the connection and *)
(* calls on_disconnect.                                                    *)
OnConnectRefused == /\ npc = "of_state"
                    /\ connState' = "DISCONNECTED"
                    /\ link' = "down"
                    /\ npc' = "od_state"
                    /\ rcArg' = 1
                    /\ UNCHANGED <<lastRc, mosq, mutex, subTopics, pending, pendingNext,
                                   tunnel, mainVars, sendIdx, stopReq, lastMid, wire,
                                   sent, report, ssh, connects, reconnects>>

(* libmosquitto closes a lost connection, or the one it was asked to; rc   *)
(* is 0 only in the second case.                                           *)
Closed == /\ npc = "loop"
          /\ link = "broken" \/ stopReq = "graceful"
          /\ link' = "down"
          /\ rcArg' = IF stopReq = "none" THEN 1 ELSE 0
          /\ npc' = "od_state"
          /\ UNCHANGED <<clientVars, mainVars, sendIdx, stopReq, lastMid, wire, sent,
                         report, ssh, connects, reconnects>>

(* on_disconnect: two stores. *)
OnDisconnectState == /\ npc = "od_state"
                     /\ connState' = "DISCONNECTED"
                     /\ npc' = "od_rc"
                     /\ UNCHANGED <<lastRc, mosq, mutex, subTopics, pending, pendingNext,
                                    tunnel, mainVars, sendIdx, rcArg, stopReq, extVars>>

Mutant_OnDisconnectRc ==
    /\ npc = "od_rc"
    /\ npc' = "delay"
    /\ UNCHANGED <<clientVars, mainVars, sendIdx, rcArg, stopReq, extVars>>

OnDisconnectRc == /\ npc = "od_rc"
                  /\ lastRc' = rcArg
                  /\ npc' = "delay"
                  /\ UNCHANGED <<connState, mosq, mutex, subTopics, pending, pendingNext,
                                 tunnel, mainVars, sendIdx, rcArg, stopReq, extVars>>

Mutant_Matches(mid) == {s \in PendingSlots : pending[s].topic # NoTopic}

(* The slots on_subscribe stops at: those of a SUBSCRIBE with this id. *)
Matches(mid) == {s \in PendingSlots : /\ pending[s].mid = mid
                                      /\ pending[s].topic # NoTopic}

FirstOf(slots) == CHOOSE s \in slots : \A u \in slots : s <= u

(* on_subscribe, for the SUBACK of packet p: the first slot with its id is *)
(* freed and its topic logged, or "?" if there is none.                    *)
OnSubscribe(p) ==
    /\ npc = "loop"
    /\ link = "up"
    /\ p \in wire
    /\ mutex = "free"
    /\ wire' = wire \ {p}
    /\ IF Matches(p.mid) = {}
       THEN report' = [actual |-> p.topic, logged |-> NoTopic] /\ UNCHANGED pending
       ELSE LET s == FirstOf(Matches(p.mid))
            IN  /\ report' = [actual |-> p.topic, logged |-> pending[s].topic]
                /\ pending' = [pending EXCEPT ![s].topic = NoTopic]
    /\ UNCHANGED <<connState, lastRc, mosq, mutex, subTopics, pendingNext, tunnel,
                   mainVars, netVars, link, lastMid, sent, ssh, connects, reconnects>>

-----------------------------------------------------------------------------
(* The network thread: libmosquitto's loop.                                *)

(* After a lost connection it connects again, unless it was told to stop. *)
Reconnect == /\ npc = "delay"
             /\ stopReq # "graceful"
             /\ reconnects < MaxReconnects
             /\ reconnects' = reconnects + 1
             /\ Dialled
             /\ npc' = "loop"
             /\ UNCHANGED <<clientVars, mainVars, sendIdx, rcArg, stopReq, lastMid,
                            report, ssh, connects>>

(* The thread ends: on its own after a clean disconnect, or cancelled      *)
(* while it waits for the network or for the reconnect delay.              *)
ThreadExit == /\ \/ npc = "delay" /\ stopReq # "none"
                 \/ npc = "loop" /\ stopReq = "force"
              /\ npc' = "none"
              /\ link' = "down"
              /\ UNCHANGED <<clientVars, mainVars, sendIdx, rcArg, stopReq, lastMid,
                             wire, sent, report, ssh, connects, reconnects>>

-----------------------------------------------------------------------------
(* The environment.                                                        *)

LinkBreaks == /\ link \in {"dialled", "up"}
              /\ link' = "broken"
              /\ UNCHANGED <<clientVars, mainVars, netVars, lastMid, wire, sent, report,
                             ssh, connects, reconnects>>

SshDies == /\ ssh = "alive"
           /\ ssh' = "dead"
           /\ UNCHANGED <<clientVars, mainVars, netVars, link, lastMid, wire, sent,
                          report, connects, reconnects>>

(* The process has ended. *)
Finished == mpc = "closed" /\ UNCHANGED vars

User == ClickDisconnect \/ CloseWindow \/ \E p \in Profiles : ClickConnect(p)

MainThread == \/ Join \/ ConnectSetup \/ ConnectDial \/ ConnectLoop
              \/ \E useTunnel \in BOOLEAN : ConnectTunnel(useTunnel)
              \/ SubscribeStore \/ SubscribeCheck \/ SubscribeSend
              \/ BeginFrame \/ PollTunnel \/ Status

Callback == \/ OnConnectState \/ OnConnectRc \/ OnConnectLock \/ OnConnectSend
            \/ OnConnectUnlock \/ OnConnectRefused \/ OnDisconnectState
            \/ OnDisconnectRc

Network == \/ Callback \/ Connack \/ Closed \/ Reconnect \/ ThreadExit
           \/ \E p \in wire : OnSubscribe(p)

Next == User \/ MainThread \/ Network \/ LinkBreaks \/ SshDies \/ Finished

Spec == Init /\ [][Next]_vars

(* The frame loop goes on, callbacks run to their end, and a thread that   *)
(* has been told to stop or whose connection is lost does notice.  The     *)
(* user, the broker, the ssh child and reconnecting are not fair.          *)
Fairness == /\ WF_vars(MainThread)
            /\ WF_vars(Callback)
            /\ WF_vars(Closed)
            /\ WF_vars(ThreadExit)

FairSpec == Spec /\ Fairness

-----------------------------------------------------------------------------
TypeOK ==
    /\ connState \in {"DISCONNECTED", "CONNECTING", "CONNECTED"}
    /\ lastRc \in {0, 1} /\ rcArg \in {0, 1}
    /\ mosq \in BOOLEAN /\ tunnel \in BOOLEAN
    /\ mutex \in {"free", "net"}
    /\ subTopics \in Seq(Topics) /\ Len(subTopics) <= MaxSubs
    /\ pending \in [PendingSlots -> [mid : Nat, topic : Topics \cup {NoTopic}]]
    /\ pendingNext \in PendingSlots
    /\ mpc \in Frame \cup {"join", "connect", "setup", "dial", "loop", "store", "check",
                          "send", "closed"}
    /\ cont \in {"idle", "poll", "connect", "status1", "closed"}
    /\ profile \in Profiles \cup {<<>>}
    /\ subIdx \in 1 .. MaxSubs + 1 /\ sendIdx \in 1 .. MaxSubs + 1
    /\ shown \in {"DISCONNECTED", "CONNECTING", "CONNECTED", "RECONNECTING"}
    /\ npc \in {"none", "loop", "delay", "oc_state", "oc_rc", "oc_lock", "oc_send",
               "of_state", "od_state", "od_rc"}
    /\ stopReq \in {"none", "graceful", "force"}
    /\ link \in {"down", "dialled", "up", "broken"}
    /\ lastMid \in Nat
    /\ wire \subseteq [mid : 1 .. lastMid, topic : Topics]
    /\ sent \subseteq Topics
    /\ report \in [actual : Topics \cup {NoTopic}, logged : Topics \cup {NoTopic}]
    /\ ssh \in {"none", "alive", "dead"}
    /\ connects \in 0 .. MaxConnects /\ reconnects \in 0 .. MaxReconnects

(* No subscription of the profile is lost between mqtt_client_subscribe,   *)
(* which stores it and then looks at conn_state, and on_connect, which     *)
(* stores conn_state and then sends what is stored: once both are through, *)
(* every one of them has been sent on the connection that is up, also      *)
(* after any number of reconnects in between.                              *)
NoLostSubscription ==
    mpc \in Frame /\ npc = "loop" /\ link = "up" => ToSet(profile) \subseteq sent

(* Whenever no call and no callback is under way, the pair of atomics      *)
(* tells the state of the connection: connected, waiting to reconnect, or  *)
(* without a network thread and then never connected.  This is what the    *)
(* status shown needs, and it takes the resets of last_disconnect_rc that  *)
(* RcPersists, the header's words, does not have.                          *)
AtomicsAgree ==
    mpc \in Frame =>
        /\ npc = "loop" /\ link = "up" => connState = "CONNECTED" /\ lastRc = 0
        /\ npc = "delay" => connState = "DISCONNECTED" /\ lastRc # 0
        /\ npc = "none" => connState # "CONNECTED" /\ lastRc = 0

(* A SUBACK is logged against the topic filter it is for, or "?" when the  *)
(* ring of packets in flight has forgotten it: on_subscribe.               *)
AckNamesItsTopic == report.logged \in {report.actual, NoTopic}

(* CONNECTING is only reported while there is a connect attempt whose      *)
(* callback can still come, as mqtt_client.h says of                       *)
(* mqtt_client_is_connecting.                                              *)
ConnectingMeansAttempt ==
    mpc \in Frame /\ connState = "CONNECTING" => npc # "none"

(* "A non-zero value persists until the next successful reconnect", says   *)
(* mqtt_client.h of last_disconnect_rc, and that it is 0 "after a clean    *)
(* disconnect": on_connect and mqtt_client_disconnect may reset it,        *)
(* nothing else does.  mqtt_client_poll_ssh_tunnel does.                   *)
RcPersists ==
    [][lastRc # 0 /\ lastRc' = 0 =>
           npc = "oc_rc" \/ (mpc = "join" /\ cont # "status1")]_vars

(* stop_network_thread returns: the UI thread is not left waiting for a    *)
(* network thread that itself waits, for the mutex or for the network.     *)
(* (That a disconnect ends the thread at all is not what the header says   *)
(* of it: "The I/O thread keeps running", mqtt_client.h:81.)               *)
JoinReturns == mpc = "join" ~> mpc # "join"

(* The three separate loads of main.c may show a state that never was, for *)
(* a frame; what is shown settles on the truth whenever the connection     *)
(* does.                                                                   *)
ShownSettles ==
    /\ <>[](npc = "loop" /\ link = "up" /\ mpc # "closed") => <>[](shown = "CONNECTED")
    /\ <>[](npc = "delay" /\ mpc # "closed") => <>[](shown = "RECONNECTING")

(* When the ssh child of a running client dies, the frame loop finds out   *)
(* and takes the client down with it: mqtt_client_poll_ssh_tunnel.         *)
TunnelDeathTearsDown ==
    (tunnel /\ npc # "none" /\ ssh = "dead") ~> (~mosq /\ connState = "DISCONNECTED")
=============================================================================
