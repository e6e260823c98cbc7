---------------------------- MODULE HostLifecycle ----------------------------
(***************************************************************************)
(* The processes of fx-terminal-host (terminal_host_server.rs: run) and    *)
(* the clients that connect to one or spawn it (HostClient): the lock file *)
(* and the socket all processes share, the connections, of which every     *)
(* call needs two, and the retirement of a host that is idle.              *)
(*                                                                         *)
(* A session is the number of the connection that started it.  What the    *)
(* supervisor thread and the monitors do is in TerminalHost; here monitors *)
(* do not keep a host up.                                                  *)
(***************************************************************************)
EXTENDS Naturals, Sequences

CONSTANTS
  Clients,          \* threads that call, of any process
  MaxServers,       \* bound: host processes spawned
  MaxConnections,   \* bound: connections
  MaxHostFaults     \* bound: processes that die or fail, answers that take too long

Servers == 1 .. MaxServers
Accepting == {"serving", "quiet"}
Nobody == 0

\* The bounds are numbers.
ASSUME HostsAssumption == MaxServers \in Nat /\ MaxConnections \in Nat /\ MaxHostFaults \in Nat

VARIABLES
  stage,        \* of each host process
  hostLock,     \* the holder of host.lock
  socket,       \* the process that has bound host.sock, which may be dead
  connections,  \* all that were made
  hosted,       \* the sessions of each process
  caller,
  broken,       \* history: processes that died, failed or were killed
  hostFaults

\* A connection that is over, in one way or another.
Over(at) == [to |-> Nobody, asks |-> "none", of |-> 0, at |-> at]

hostVars == <<stage, hostLock, socket, connections, hosted, caller, broken, hostFaults>>

Alive(s) == stage[s] \notin {"none", "gone"}
HostFault == hostFaults < MaxHostFaults /\ hostFaults' = hostFaults + 1
Goes(s, to) == stage' = [stage EXCEPT ![s] = to]

\* The connections of a process are reset with it, and its sessions are gone.
Stop(s) ==
  /\ Goes(s, "gone")
  /\ hostLock' = IF hostLock = s THEN Nobody ELSE hostLock
  /\ hosted' = [hosted EXCEPT ![s] = {}]
  /\ connections' = [c \in DOMAIN connections |->
                      IF connections[c].to = s /\ connections[c].at \in {"pending", "served"}
                      THEN Over("lost") ELSE connections[c]]

-----------------------------------------------------------------------------
(* run.                                                                    *)

\* A process that does not get the lock is done.
TryLock(s) ==
  /\ stage[s] = "starting"
  /\ IF hostLock = Nobody THEN hostLock' = s /\ Goes(s, "locked") ELSE Goes(s, "gone") /\ UNCHANGED hostLock
  /\ UNCHANGED <<socket, connections, hosted, caller, broken, hostFaults>>

RemoveOldSocket(s) ==
  /\ stage[s] = "locked" /\ socket' = Nobody /\ Goes(s, "binding")
  /\ UNCHANGED <<hostLock, connections, hosted, caller, broken, hostFaults>>

Bind(s) ==
  /\ stage[s] = "binding" /\ socket' = s /\ Goes(s, "serving")
  /\ UNCHANGED <<hostLock, connections, hosted, caller, broken, hostFaults>>

\* active_connections counts it from here until its thread is done.
Accept(s, c) ==
  /\ stage[s] = "serving" /\ connections[c].to = s /\ connections[c].at = "pending"
  /\ connections' = [connections EXCEPT ![c].at = "served"]
  /\ UNCHANGED <<stage, hostLock, socket, hosted, caller, broken, hostFaults>>

\* handle_connection; then the answer is written.
Handle(c) ==
  LET s == connections[c].to
  IN  /\ connections[c].at = "served"
      /\ hosted' = [hosted EXCEPT ![s] = CASE connections[c].asks = "hello" -> @
                                           [] connections[c].asks = "start" -> @ \cup {c}
                                           [] connections[c].asks = "close" -> @ \ {connections[c].of}]
      /\ connections' = [connections EXCEPT ![c].at = "answered"]
      /\ UNCHANGED <<stage, hostLock, socket, caller, broken, hostFaults>>

\* The answer is written and the thread ends: active_connections counts it no longer.
EndThread(c) ==
  /\ connections[c].at = "answered" /\ connections' = [connections EXCEPT ![c] = Over("ended")]
  /\ UNCHANGED <<stage, hostLock, socket, hosted, caller, broken, hostFaults>>

Active(s) == {c \in DOMAIN connections : connections[c].to = s /\ connections[c].at \in {"served", "answered"}}

\* Mutant: connections are not looked at.
ReadConnectionsNot(s) ==
  /\ stage[s] = "serving" /\ Goes(s, "quiet")
  /\ UNCHANGED <<hostLock, socket, connections, hosted, caller, broken, hostFaults>>

\* Nothing to accept: active_connections, has_process_local_sessions and the time since the
\* last activity are looked at, in this order.
ReadConnections(s) ==
  /\ stage[s] = "serving" /\ Active(s) = {} /\ Goes(s, "quiet")
  /\ UNCHANGED <<hostLock, socket, connections, hosted, caller, broken, hostFaults>>

ReadSessions(s, late) ==
  /\ stage[s] = "quiet" /\ Goes(s, IF hosted[s] = {} /\ late THEN "idle" ELSE "serving")
  /\ UNCHANGED <<hostLock, socket, connections, hosted, caller, broken, hostFaults>>

\* Drop for EndpointGuard, whosever socket it is by now; drop of the lock; the end of the
\* process, with the connections nobody has accepted.
DropEndpoint(s) ==
  /\ stage[s] = "idle" /\ socket' = Nobody /\ Goes(s, "unbound")
  /\ UNCHANGED <<hostLock, connections, hosted, caller, broken, hostFaults>>

\* Mutant: the lock is dropped before the endpoint.
DropLockFirst(s) ==
  /\ stage[s] = "idle" /\ hostLock' = IF hostLock = s THEN Nobody ELSE hostLock
  /\ UNCHANGED <<stage, socket, connections, hosted, caller, broken, hostFaults>>

DropLock(s) ==
  /\ stage[s] = "unbound" /\ hostLock' = Nobody /\ Goes(s, "unlocked")
  /\ UNCHANGED <<socket, connections, hosted, caller, broken, hostFaults>>

Exit(s) ==
  /\ stage[s] = "unlocked" /\ Stop(s)
  /\ UNCHANGED <<socket, caller, broken, hostFaults>>

\* An error of accept or of the supervisor, or the panic of the subtraction before the
\* loop sleeps: the guards are dropped, the endpoint first.
RunFails(s) ==
  /\ stage[s] = "serving" /\ HostFault /\ Stop(s)
  /\ socket' = Nobody /\ broken' = broken \cup {s}
  /\ UNCHANGED caller

ServerDies(s) ==
  /\ Alive(s) /\ HostFault /\ Stop(s) /\ broken' = broken \cup {s}
  /\ UNCHANGED <<socket, caller>>

-----------------------------------------------------------------------------
(* HostClient.                                                             *)

NoCaller == [at |-> "idle", child |-> Nobody, on |-> 0, to |-> Nobody, session |-> 0]
CallerGoes(k, to) == caller' = [caller EXCEPT ![k].at = to]
Back(k, session) ==
  caller' = [caller EXCEPT ![k] = [NoCaller EXCEPT !.session = session,
                                                   !.to = IF session = 0 THEN Nobody ELSE caller[k].to]]
Listening == socket # Nobody /\ Alive(socket)

\* A connection about the session of; that session is given up.
Open(k, asks, of) ==
  /\ Len(connections) < MaxConnections
  /\ connections' = Append(connections, [to |-> socket, asks |-> asks, of |-> of, at |-> "pending"])
  /\ caller' = [caller EXCEPT ![k].at = asks, ![k].on = Len(connections) + 1,
                              ![k].session = IF of = 0 THEN @ ELSE 0,
                              ![k].to = IF asks = "hello" THEN @ ELSE socket]

\* connect_or_spawn; again while the deadline has not passed, and the child runs or has
\* ended without an error.
Connect(k) ==
  /\ \/ caller[k].at = "idle"
     \/ caller[k].at = "refused" /\ caller[k].child # Nobody /\ caller[k].child \notin broken
  /\ IF Listening THEN Open(k, "hello", 0) ELSE CallerGoes(k, "refused") /\ UNCHANGED connections
  /\ UNCHANGED <<stage, hostLock, socket, hosted, broken, hostFaults>>

HelloEnds(k) ==
  /\ caller[k].at = "hello" /\ connections[caller[k].on].at \in {"answered", "ended", "lost"}
  /\ CallerGoes(k, IF connections[caller[k].on].at = "lost" THEN "refused" ELSE "ready")
  /\ UNCHANGED <<stage, hostLock, socket, connections, hosted, broken, hostFaults>>

SpawnHost(k) ==
  \E s \in Servers :
    /\ caller[k].at = "refused" /\ caller[k].child = Nobody
    /\ stage[s] = "none" /\ \A t \in 1 .. s - 1 : stage[t] # "none"
    /\ Goes(s, "starting")
    /\ caller' = [caller EXCEPT ![k].child = s]
    /\ UNCHANGED <<hostLock, socket, connections, hosted, broken, hostFaults>>

StartupFailed(k) ==
  /\ caller[k].at = "refused" /\ caller[k].child \in broken /\ Back(k, caller[k].session)
  /\ UNCHANGED <<stage, hostLock, socket, connections, hosted, broken, hostFaults>>

\* The child is killed, also when it serves others by now.
StartupTimeout(k) ==
  LET s == caller[k].child
  IN  /\ caller[k].at = "refused" /\ s # Nobody /\ HostFault /\ Back(k, caller[k].session)
      /\ IF Alive(s) THEN Stop(s) /\ broken' = broken \cup {s}
         ELSE UNCHANGED <<stage, hostLock, connections, hosted, broken>>
      /\ UNCHANGED socket

\* The operation, on a connection of its own, to whatever host is there by now.
Request(k) ==
  /\ caller[k].at = "ready"
  /\ IF ~Listening THEN Back(k, caller[k].session) /\ UNCHANGED connections
     ELSE IF caller[k].session = 0 THEN Open(k, "start", 0)
     ELSE Open(k, "close", caller[k].session)
  /\ UNCHANGED <<stage, hostLock, socket, hosted, broken, hostFaults>>

RequestEnds(k) ==
  LET c == caller[k].on
  IN  /\ caller[k].at \in {"start", "close"} /\ connections[c].at \in {"answered", "ended", "lost"}
      /\ Back(k, IF connections[c].at # "lost" /\ caller[k].at = "start" THEN c ELSE 0)
      /\ UNCHANGED <<stage, hostLock, socket, connections, hosted, broken, hostFaults>>

\* IO_TIMEOUT: the host goes on all the same.
AnswerTooLate(k) ==
  /\ caller[k].at \in {"hello", "start", "close"} /\ HostFault
  /\ IF caller[k].at = "hello" THEN CallerGoes(k, "refused") ELSE Back(k, caller[k].session)
  /\ UNCHANGED <<stage, hostLock, socket, connections, hosted, broken>>

HostsInit ==
  /\ stage = [s \in Servers |-> "none"] /\ hostLock = Nobody /\ socket = Nobody
  /\ connections = <<>> /\ hosted = [s \in Servers |-> {}]
  /\ caller = [k \in Clients |-> NoCaller] /\ broken = {} /\ hostFaults = 0

HostsNext ==
  \/ \E s \in Servers :
       \/ TryLock(s) \/ RemoveOldSocket(s) \/ Bind(s) \/ ReadConnections(s) \/ DropEndpoint(s)
       \/ DropLock(s) \/ Exit(s) \/ RunFails(s) \/ ServerDies(s)
       \/ (\E late \in BOOLEAN : ReadSessions(s, late)) \/ \E c \in DOMAIN connections : Accept(s, c)
  \/ \E c \in DOMAIN connections : Handle(c) \/ EndThread(c)
  \/ \E k \in Clients :
       \/ Connect(k) \/ HelloEnds(k) \/ SpawnHost(k) \/ StartupFailed(k)
       \/ StartupTimeout(k) \/ Request(k) \/ RequestEnds(k) \/ AnswerTooLate(k)

-----------------------------------------------------------------------------
HostsTypeOK ==
  /\ hostLock \in Servers \cup {Nobody} /\ socket \in Servers \cup {Nobody} /\ broken \subseteq Servers
  /\ \A s \in Servers : hosted[s] \subseteq DOMAIN connections
  /\ \A c \in DOMAIN connections :
       connections[c].to \in Servers \cup {Nobody} /\ connections[c].at \in {"pending", "served", "answered", "ended", "lost"}

\* Whatever hosts start, retire and die side by side: the one that accepts connections holds
\* the lock, and the socket leads to it.  A session that was started is there until its
\* client closes it, unless its host was killed or failed: no host retires from under a
\* session, or from under a connection it has accepted.
HostsSound ==
  /\ \A s \in Servers : stage[s] \in Accepting => hostLock = s /\ socket = s
  /\ \A k \in Clients :
       caller[k].session # 0 =>
         caller[k].to \in broken \/ caller[k].session \in hosted[caller[k].to]
  /\ \A s \in Servers : Alive(s) /\ stage[s] # "serving" => Active(s) = {}
=============================================================================
