----------------------------- MODULE SshTunnel -----------------------------
(***************************************************************************)
(* The ssh child process behind a tunnelled connection                     *)
(* (core/ssh_tunnel.c), as the MQTT client drives it.                      *)
(*                                                                         *)
(* The UI thread reserves a free local port by binding and closing it,     *)
(* starts ssh with that port and waits, at most WaitSteps times, until     *)
(* something accepts connections there.  Other processes, the child and    *)
(* the kernel move between any two calls.  A child is                      *)
(*    "starting", "listening", "zombie" (exited, not waited for) or        *)
(*    "reaped"; every attempt has a port of its own, so one owner is kept. *)
(* MaxSpawns bounds the children ever started.                             *)
(***************************************************************************)
EXTENDS Integers, FiniteSets

CONSTANTS
    WaitSteps,      \* timeout_ms / step_ms
    MaxSpawns       \* bound

ASSUME TunnelAssumption == WaitSteps \in Nat \ {0} /\ MaxSpawns \in Nat

VARIABLES
    tunnel_pid,     \* tunnel->pid, 0 = no tunnel
    child,          \* children started so far -> their state
    port_owner,     \* who listens on the local port: a child, -1 = another process, 0 = nobody
    sshStep,        \* "idle" | "spawn" | "wait" | "probe": where ssh_tunnel_start is
    waited

sshVars == <<tunnel_pid, child, port_owner, sshStep, waited>>

Foreign == -1
Newest == Cardinality(DOMAIN child)
Running(c) == child[c] \in {"starting", "listening"}

SshInit ==
    tunnel_pid = 0 /\ child = <<>> /\ port_owner = 0 /\ sshStep = "idle" /\ waited = 0

\* kill(SIGTERM) and a blocking waitpid: the child is gone and its port free.
Reap(c) ==
    /\ child' = [child EXCEPT ![c] = "reaped"]
    /\ port_owner' = IF port_owner = c THEN 0 ELSE port_owner

\* ssh_tunnel_stop: on disconnect, before a new connection and at exit.
Mutant_ssh_tunnel_stop == UNCHANGED <<child, port_owner>>

ssh_tunnel_stop ==
    IF tunnel_pid > 0 THEN Reap(tunnel_pid) ELSE UNCHANGED <<child, port_owner>>

StopTunnel ==
    /\ sshStep = "idle" /\ tunnel_pid > 0
    /\ ssh_tunnel_stop /\ tunnel_pid' = 0
    /\ UNCHANGED <<sshStep, waited>>

\* mqtt_client_connect after its ssh_tunnel_stop: the port is free when it is chosen.  It fails
\* when no port can be bound.
ReservePort ==
    /\ sshStep = "idle" /\ tunnel_pid = 0
    /\ Newest < MaxSpawns
    /\ port_owner' = 0 /\ sshStep' = "spawn" /\ waited' = 0
    /\ UNCHANGED <<tunnel_pid, child>>

Spawn ==
    /\ sshStep = "spawn" /\ sshStep' = "wait"
    /\ child' = [c \in 1..(Newest + 1) |-> IF c <= Newest THEN child[c] ELSE "starting"]
    /\ UNCHANGED <<tunnel_pid, port_owner, waited>>

\* ssh or sshpass is not installed, or the command is too long.
SpawnFails ==
    /\ sshStep = "spawn" /\ sshStep' = "idle"
    /\ UNCHANGED <<tunnel_pid, child, port_owner, waited>>

\* waitpid(WNOHANG): ssh exited before the tunnel came up.
WaitExited ==
    /\ sshStep = "wait" /\ child[Newest] = "zombie"
    /\ Reap(Newest) /\ sshStep' = "idle"
    /\ UNCHANGED <<tunnel_pid, waited>>

WaitRunning ==
    /\ sshStep = "wait" /\ Running(Newest)
    /\ sshStep' = "probe"
    /\ UNCHANGED <<tunnel_pid, child, port_owner, waited>>

\* Whoever listens.
port_connectable == port_owner # 0

ProbeConnects ==
    /\ sshStep = "probe" /\ port_connectable
    /\ tunnel_pid' = Newest /\ sshStep' = "idle"
    /\ UNCHANGED <<child, port_owner, waited>>

ProbeAgain ==
    /\ sshStep = "probe" /\ ~port_connectable /\ waited + 1 < WaitSteps
    /\ waited' = waited + 1 /\ sshStep' = "wait"
    /\ UNCHANGED <<tunnel_pid, child, port_owner>>

ProbeTimesOut ==
    /\ sshStep = "probe" /\ ~port_connectable /\ waited + 1 >= WaitSteps
    /\ Reap(Newest) /\ sshStep' = "idle"
    /\ UNCHANGED <<tunnel_pid, waited>>

\* ssh_tunnel_poll_alive, every frame: an exited child is reaped and forgotten.
Mutant_PollDead ==
    /\ sshStep = "idle" /\ tunnel_pid > 0 /\ child[tunnel_pid] = "reaped"    \* kill(pid, 0)
    /\ Reap(tunnel_pid) /\ tunnel_pid' = 0
    /\ UNCHANGED <<sshStep, waited>>

PollDead ==
    /\ sshStep = "idle" /\ tunnel_pid > 0 /\ child[tunnel_pid] = "zombie"
    /\ Reap(tunnel_pid) /\ tunnel_pid' = 0
    /\ UNCHANGED <<sshStep, waited>>

-----------------------------------------------------------------------------
(* The rest of the machine (external) *)

Listens(c) ==
    /\ child[c] = "starting" /\ port_owner = 0
    /\ child' = [child EXCEPT ![c] = "listening"] /\ port_owner' = c
    /\ UNCHANGED <<tunnel_pid, sshStep, waited>>

Exits(c) ==
    /\ Running(c)
    /\ child' = [child EXCEPT ![c] = "zombie"]
    /\ port_owner' = IF port_owner = c THEN 0 ELSE port_owner
    /\ UNCHANGED <<tunnel_pid, sshStep, waited>>

\* ExitOnForwardFailure=yes: a child that cannot bind the port gives up.
CannotForward == \E c \in DOMAIN child : child[c] = "starting" /\ port_owner = Foreign /\ Exits(c)

PortTaken ==
    /\ port_owner = 0 /\ sshStep # "idle" /\ port_owner' = Foreign
    /\ UNCHANGED <<tunnel_pid, child, sshStep, waited>>

PortReleased ==
    /\ port_owner = Foreign /\ port_owner' = 0
    /\ UNCHANGED <<tunnel_pid, child, sshStep, waited>>

StartStep ==
    \/ Spawn \/ SpawnFails \/ WaitExited \/ WaitRunning
    \/ ProbeConnects \/ ProbeAgain \/ ProbeTimesOut

SshNext ==
    \/ StopTunnel \/ ReservePort \/ StartStep \/ PollDead
    \/ \E c \in DOMAIN child : Listens(c) \/ Exits(c)
    \/ CannotForward \/ PortTaken \/ PortReleased

\* Frames go on, a call of the UI thread returns, and ssh notices a port it cannot bind.
SshFairness == WF_sshVars(StartStep) /\ WF_sshVars(PollDead) /\ WF_sshVars(CannotForward)

SshSpec == SshInit /\ [][SshNext]_sshVars /\ SshFairness

-----------------------------------------------------------------------------
\* Every ssh process is answered for: one that has not been reaped is the tunnel's or is being
\* waited for by ssh_tunnel_start, and the tunnel's pid is never that of a reaped child, which
\* the kernel may have given to another process that ssh_tunnel_stop would then kill.
NoOrphanNoStalePid ==
    /\ \A c \in DOMAIN child : child[c] # "reaped" =>
         c = tunnel_pid \/ (c = Newest /\ sshStep \in {"wait", "probe"})
    /\ tunnel_pid # 0 => child[tunnel_pid] # "reaped"

\* A client that dialled somebody else's port does not stay there: the port that
\* reserve_free_port closed (ssh_tunnel.c:77) can be taken before ssh binds it, and
\* port_connectable then takes the stranger for the tunnel; ssh's exit puts it right.
ForeignPortIsDropped ==
    (tunnel_pid # 0 /\ port_owner = Foreign) ~> (tunnel_pid = 0 \/ port_owner # Foreign)
=============================================================================
