---------------------------- MODULE TerminalHost ----------------------------
(***************************************************************************)
(* The detached terminal host: one native PTY session, the supervisor      *)
(* thread that evaluates its monitors, and the threads that serve clients  *)
(* (fx-process/src/terminal_host_server.rs, native_terminal.rs and         *)
(* terminal_monitor_store.rs).                                             *)
(*                                                                         *)
(* Threads interleave where a lock is released: the monitor store mutex,   *)
(* the session state mutex and the session map mutex are each held for one *)
(* action.  The stored set is a file replaced atomically; it survives the  *)
(* host, the session does not.                                             *)
(*                                                                         *)
(* Left out: requests that change neither the session nor its monitors     *)
(* (read, screen, write, wait, list, resize, signal), cancellation of      *)
(* requests, more than one session, tmux.                                  *)
(***************************************************************************)
EXTENDS MonitorSet, FiniteSets

CONSTANTS
  Clients,       \* connection threads of the host
  Bytes,         \* bytes the process writes
  Outcomes,      \* exit codes and signals
  Initial,       \* sequences of definitions a session is started with
  Definitions,   \* definitions of monitor operations
  Kinds,         \* monitor operations clients use
  Acknowledges,  \* whether clients acknowledge events
  Retained,      \* MAX_RAW_BYTES
  MaxTime,       \* bound on the clock
  MaxOutput,     \* bound on the bytes written
  MaxEventId,    \* bound on the event ids at which operations are still sent
  MaxCrashes     \* bound on crashes of the host

\* MonitorCondition::validate, which add, update and start call: a pattern is a
\* text and a span of time a number.
ConditionOK(c) ==
  /\ c.kind = "output" => c.pattern \in Seq(Range(c.pattern))
  /\ c.kind = "quiet" => c.span \in Nat

ASSUME HostAssumption ==
  /\ \A definitions \in Initial : definitions \in Seq(Range(definitions))
  /\ \A definitions \in Initial : \A i \in DOMAIN definitions :
       ConditionOK(definitions[i].condition)
  /\ \A definition \in Definitions : ConditionOK(definition.condition)
  /\ Retained \in Nat /\ MaxTime \in Nat /\ MaxOutput \in Nat
  /\ MaxEventId \in Nat /\ MaxCrashes \in Nat

VARIABLES
  now,       \* the wall clock
  session,   \* [life, outcome, output]: the Session in the map of the host
  set,       \* monitors-<id>.json, or None
  present,   \* HostRuntime.monitors_present
  worker,    \* the thread fx-terminal-monitor
  client,    \* the threads fx-terminal-host-client
  host,      \* "up" or "down"
  crashes

vars == <<now, session, set, present, worker, client, host, crashes>>

-----------------------------------------------------------------------------
(* The session. *)

\* output holds every byte with the time it was written at; raw keeps the last
\* Retained of them.  Life "none": not started; "gone": no longer in the map (NativeTerminalHost
\* finds no such session).
InMap == session.life \notin {"none", "gone"}

Total == Len(session.output)
Written(from, to) == [i \in 1..to + 1 - from |-> session.output[from + i - 1].byte]
Base == IF Total > Retained THEN Total - Retained ELSE 0

\* Mutant: the last byte seen is read again.
ObservationRereads(after) ==
  LET start == IF after > Base THEN after ELSE Base
      from == IF start = 0 THEN 1 ELSE start
  IN  IF ~InMap THEN None
      ELSE [lifecycle |-> session.life, outcome |-> session.outcome,
            start |-> start, end |-> Total, gap |-> after < Base,
            output |-> Written(from, Total)]

\* observe_terminal: None when the session is gone.
Observation(after) ==
  LET start == IF after > Base THEN after ELSE Base
  IN  IF ~InMap THEN None
      ELSE [lifecycle |-> session.life,
            outcome |-> session.outcome,
            start |-> start,
            end |-> Total,
            gap |-> after < Base,
            output |-> Written(start + 1, Total)]

HasMonitors(s) == s # None /\ s.monitors # << >>

IdleClient == [at |-> "idle"]
IdleWorker == [at |-> "wait"]

Init ==
  /\ now = 0
  /\ session = [life |-> "none", outcome |-> None, output |-> << >>]
  /\ set = None
  /\ present = FALSE
  /\ worker = IdleWorker
  /\ client = [c \in Clients |-> IdleClient]
  /\ host = "up"
  /\ crashes = 0

\* spawn_reader appends what the process, or one that outlives it on the same
\* PTY, writes.
Output(b) ==
  /\ InMap
  /\ Total < MaxOutput
  /\ session' = [session EXCEPT !.output = Append(@, [byte |-> b, at |-> now])]
  /\ UNCHANGED <<now, set, present, worker, client, host, crashes>>

\* spawn_waiter records the exit unless the session was closed before.
Exit(o) ==
  /\ session.life = "running"
  /\ session' = [session EXCEPT !.life = "exited", !.outcome = o]
  /\ UNCHANGED <<now, set, present, worker, client, host, crashes>>

Tick ==
  /\ now < MaxTime
  /\ now' = now + 1
  /\ UNCHANGED <<session, set, present, worker, client, host, crashes>>

-----------------------------------------------------------------------------
(* Requests (execute_terminal). *)

GoTo(c, state) == client' = [client EXCEPT ![c] = state]
View(lifecycle, cursor) == [lifecycle |-> lifecycle, cursor |-> cursor, now |-> now]
Room(s) == IF s = None THEN TRUE ELSE s.nextEvent <= MaxEventId

\* Start: the session is in the map before its monitors are installed.
Start(c, definitions) ==
  /\ host = "up" /\ client[c].at = "idle"
  /\ session.life = "none"
  /\ session' = [session EXCEPT !.life = "running"]
  /\ GoTo(c, [at |-> "started", definitions |-> definitions, installedAt |-> now])
  /\ UNCHANGED <<now, set, present, worker, host, crashes>>

\* Its lifecycle is sampled: the process may have ended by now.
SampleStarted(c) ==
  /\ client[c].at = "started"
  /\ GoTo(c, IF InMap
             THEN [at |-> "install", definitions |-> client[c].definitions,
                   view |-> [lifecycle |-> session.life, cursor |-> 0,
                             now |-> client[c].installedAt]]
             ELSE IdleClient)
  /\ UNCHANGED <<now, session, set, present, worker, host, crashes>>

Install(c) ==
  /\ client[c].at = "install"
  /\ LET installed == InstallInitial(set, client[c].definitions, client[c].view)
     IN  IF client[c].definitions = << >>
         THEN UNCHANGED <<session, set>> /\ GoTo(c, [at |-> "count"])
         ELSE IF installed = Failed
         THEN /\ session' = [session EXCEPT !.life = "gone"]
              /\ set' = set
              /\ GoTo(c, IdleClient)
         ELSE set' = installed /\ UNCHANGED session /\ GoTo(c, [at |-> "count"])
  /\ UNCHANGED <<now, present, worker, host, crashes>>

\* Monitor: the facts are sampled before the store is locked.
Sample(c, op) ==
  /\ host = "up" /\ client[c].at = "idle"
  /\ InMap /\ Room(set)
  /\ GoTo(c, [at |-> "operate", op |-> op, lifecycle |-> session.life, cursor |-> Total])
  /\ UNCHANGED <<now, session, set, present, worker, host, crashes>>

Operate(c) ==
  /\ client[c].at = "operate"
  /\ LET operated == OperateSet(set, client[c].op, View(client[c].lifecycle, client[c].cursor))
     IN  IF operated = Failed
         THEN set' = set /\ GoTo(c, IdleClient)
         ELSE set' = operated /\ GoTo(c, [at |-> "count"])
  /\ UNCHANGED <<now, session, present, worker, host, crashes>>

\* Close: the session is marked, leaves the map, and then its monitors end.
MarkClosed(c) ==
  /\ host = "up" /\ client[c].at = "idle"
  /\ session.life # "none"
  /\ session' = IF InMap THEN [session EXCEPT !.life = "closed"] ELSE session
  /\ GoTo(c, [at |-> IF InMap THEN "remove" ELSE "end"])
  /\ UNCHANGED <<now, set, present, worker, host, crashes>>

RemoveSession(c) ==
  /\ client[c].at = "remove"
  /\ session' = [session EXCEPT !.life = "gone"]
  /\ GoTo(c, [at |-> "end"])
  /\ UNCHANGED <<now, set, present, worker, host, crashes>>

EndSession(c) ==
  /\ client[c].at = "end"
  /\ set' = EndSet(set, "closed", now)
  /\ GoTo(c, [at |-> "count"])
  /\ UNCHANGED <<now, session, present, worker, host, crashes>>

\* refresh_monitors_present: the store is read under its lock, and the flag
\* stored after the lock is released.
Count(c) ==
  /\ client[c].at = "count"
  /\ GoTo(c, [at |-> "flag", found |-> HasMonitors(set)])
  /\ UNCHANGED <<now, session, set, present, worker, host, crashes>>

Flag(c) ==
  /\ client[c].at = "flag"
  /\ present' = client[c].found
  /\ GoTo(c, IdleClient)
  /\ UNCHANGED <<now, session, set, worker, host, crashes>>

\* A write of the set fails: the request ends with the set as it was, and a
\* session whose monitors were to be installed is closed.
StoreFails(c) ==
  /\ IF client[c].at = "install" THEN client[c].definitions # << >>
     ELSE client[c].at \in {"operate", "end"}
  /\ session' = [session EXCEPT !.life = IF client[c].at = "install" THEN "gone" ELSE @]
  /\ GoTo(c, IdleClient)
  /\ UNCHANGED <<now, set, present, worker, host, crashes>>

\* Inspect with an acknowledgement, for a session in the map.
Inspect(c, id) ==
  /\ host = "up" /\ client[c].at = "idle"
  /\ Acknowledges /\ InMap /\ set # None
  /\ id \in 1..set.nextEvent - 1
  /\ set' = Acknowledge(set, id)
  /\ UNCHANGED <<now, session, present, worker, client, host, crashes>>

-----------------------------------------------------------------------------
(* The supervisor (evaluate_monitors). *)

Supervising(state) ==
  /\ worker' = state
  /\ UNCHANGED <<now, client, host, crashes>>

Request ==
  /\ host = "up" /\ worker.at = "wait"
  /\ present
  /\ Supervising(IF HasMonitors(set) THEN [at |-> "observe", cursor |-> set.cursor]
                 ELSE [at |-> "count"])
  /\ UNCHANGED <<session, set, present>>

Look ==
  /\ worker.at = "observe"
  /\ Supervising([at |-> "evaluate", obs |-> Observation(worker.cursor)])
  /\ UNCHANGED <<session, set, present>>

Evaluate(answers) ==
  /\ worker.at = "evaluate"
  /\ set' = IF worker.obs = None THEN EndSet(set, "lost", now)
            ELSE EvaluateSet(set, worker.obs, answers, now)
  /\ Supervising([at |-> "count"])
  /\ UNCHANGED <<session, present>>

CountPresent ==
  /\ worker.at = "count"
  /\ Supervising([at |-> "flag", found |-> HasMonitors(set)])
  /\ UNCHANGED <<session, set, present>>

FlagPresent ==
  /\ worker.at = "flag"
  /\ present' = worker.found
  /\ Supervising(IdleWorker)
  /\ UNCHANGED <<session, set>>

-----------------------------------------------------------------------------
(* The host process. *)

Stops ==
  /\ host' = "down"
  /\ session' = [session EXCEPT !.life = IF InMap THEN "gone" ELSE @]
  /\ present' = FALSE
  /\ worker' = IdleWorker
  /\ client' = [c \in Clients |-> IdleClient]
  /\ UNCHANGED <<now, set>>

\* Killed, or stopped by run on a failure of the supervisor.
Crash ==
  /\ host = "up" /\ crashes < MaxCrashes
  /\ crashes' = crashes + 1
  /\ Stops

\* run retires an idle host.
IdleExit ==
  /\ host = "up"
  /\ \A c \in Clients : client[c].at = "idle"
  /\ ~InMap /\ ~present
  /\ UNCHANGED crashes
  /\ Stops

\* Mutant: a new host waits for the first request to look for monitors.
RestartUnaware ==
  /\ host = "down"
  /\ host' = "up"
  /\ present' = FALSE
  /\ UNCHANGED <<now, session, set, worker, client, crashes>>

\* A client spawns a host; HostRuntime::new reads the store.
Restart ==
  /\ host = "down"
  /\ host' = "up"
  /\ present' = HasMonitors(set)
  /\ UNCHANGED <<now, session, set, worker, client, crashes>>

-----------------------------------------------------------------------------
Operations ==
  {[kind |-> "add", definition |-> d] : d \in IF "add" \in Kinds THEN Definitions ELSE {}}
  \union {[kind |-> "update", id |-> i, definition |-> d] :
            i \in 1..MaxMonitors, d \in IF "update" \in Kinds THEN Definitions ELSE {}}
  \union {[kind |-> k, id |-> i] :
            k \in Kinds \intersect {"pause", "resume", "remove"}, i \in 1..MaxMonitors + 1}

Answers == [probe : BOOLEAN, screen : BOOLEAN]

\* What a request that has begun goes on to do.
ClientStep(c) ==
  \/ SampleStarted(c) \/ Install(c) \/ Operate(c)
  \/ RemoveSession(c) \/ EndSession(c) \/ Count(c) \/ Flag(c)

Supervise ==
  \/ Request \/ Look \/ CountPresent \/ FlagPresent
  \/ \E answers \in Answers : Evaluate(answers)

Next ==
  \/ Tick
  \/ \E b \in Bytes : Output(b)
  \/ \E o \in Outcomes : Exit(o)
  \/ \E c \in Clients :
       \/ \E definitions \in Initial : Start(c, definitions)
       \/ \E op \in Operations : Sample(c, op)
       \/ MarkClosed(c)
       \/ \E id \in 1..MaxEventId : Inspect(c, id)
       \/ ClientStep(c)
       \/ StoreFails(c)
  \/ Supervise
  \/ Crash \/ IdleExit \/ Restart

Spec == Init /\ [][Next]_vars

\* The threads of the host are scheduled: a request that has begun ends, by its
\* last step or by a failed write, a pass of the supervisor ends, and the next
\* begins while the flag is up.  (Each of these steps stays enabled until it is
\* taken, so this is weak fairness of ClientStep and Supervise.)
Fairness ==
  /\ \A c \in Clients : []<>(client[c].at = "idle")
  /\ []<>(worker.at = "wait")
  /\ []<>~(host = "up" /\ present /\ worker.at = "wait")

FairSpec == Spec /\ Fairness

-----------------------------------------------------------------------------
(* Properties. *)

Stored == IF set = None THEN {} ELSE {set.monitors[i] : i \in DOMAIN set.monitors}
Events == IF set = None THEN {} ELSE {set.events[i] : i \in DOMAIN set.events}

Lives == {"none", "running", "exited", "closed", "gone"}

TypeOK ==
  /\ now \in 0..MaxTime
  /\ session.life \in Lives
  /\ session.outcome \in Outcomes \union {None}
  /\ Total <= MaxOutput
  /\ present \in BOOLEAN
  /\ worker.at \in {"wait", "observe", "evaluate", "count", "flag"}
  /\ \A c \in Clients :
       client[c].at \in {"idle", "started", "install", "operate", "remove", "end", "count", "flag"}
  /\ host \in {"up", "down"}
  /\ crashes \in 0..MaxCrashes
  /\ Cardinality(Stored) <= MaxMonitors
  /\ \A m \in Stored : m.state \in {"active", "paused", "matched", "degraded"}
  /\ set # None => Valid(set)

\* An event is kept until it is acknowledged or the ring drops it, and then
\* the gap says so: a client that reads and acknowledges learns of every loss.
EventLogComplete ==
  set # None =>
    \A id \in 1..set.nextEvent - 1 :
      id <= set.acked \/ id <= set.gap \/ \E e \in Events : e.id = id

\* A monitor that was removed, expired or ended stays so: no later event bears
\* its id and no stored monitor does (stable ids are not given out again).
EndedForGood ==
  \A e \in Events :
    e.reason \in {"removed", "expired", "session_exit"} =>
      /\ \A f \in Events : f.monitor = e.monitor => f.id <= e.id
      /\ \A m \in Stored : m.id # e.monitor

OccursIn(p, text) ==
  \E i \in 0..Len(text) - Len(p) : \A k \in 1..Len(p) : text[i + k] = p[k]

Literal(m) == m.definition.condition.kind = "output" /\ ~m.definition.condition.wildcard
Pattern(m) == m.definition.condition.pattern

\* A monitor on output_contains reports a match only of output that contains
\* its pattern, in one piece.
MatchSound ==
  \A m \in Stored : Literal(m) /\ m.matched => OccursIn(Pattern(m), Written(1, Total))

\* The events an action adds.
Recorded == {e \in Events' : set = None \/ e.id >= set.nextEvent}

Evaluated == worker.at = "evaluate" /\ worker'.at = "count"

\* Monitors that were there from the start are told of their pattern by the
\* evaluation that first covers it, whatever chunks the output was seen in and
\* even when the same observation shows the exit.
OutputHeard ==
  [][Evaluated /\ worker.obs # None /\ ~worker.obs.gap =>
       \A m \in Stored :
         /\ Literal(m) /\ m.state = "active"
         /\ m.definition.notify.kind = "on_match"
         /\ OccursIn(Pattern(m), Written(1, worker.obs.end))
         => \E e \in Recorded : e.monitor = m.id /\ e.reason = "matched"]_vars

\* A quiet monitor that reports had no output for its span before, as far as
\* the output its event covers goes.
QuietSound ==
  \A e \in Events, m \in Stored :
    /\ e.monitor = m.id
    /\ m.definition.condition.kind = "quiet"
    /\ e.reason \in {"matched", "state_changed", "check"}
    /\ e.cursor > 0
    => session.output[e.cursor].at + m.definition.condition.span <= e.at

\* Past its lifetime a monitor reports its expiry and what clients did to it,
\* and nothing else.
LateMonitorsOnlyExpire ==
  [][\A m \in Stored, e \in Recorded :
       e.monitor = m.id /\ Expired(m, e.at) =>
         e.reason \in {"expired", "removed", "updated", "paused", "resumed"}]_vars

\* Monitors of a session that is gone end, and with them the reason for the
\* host to stay.
OrphansEnd ==
  (host = "up" /\ session.life = "gone") ~> (~HasMonitors(set) \/ host = "down")

AtRest == /\ host = "up"
          /\ worker.at \in {"wait", "observe", "evaluate"}
          /\ \A c \in Clients : client[c].at = "idle"

\* With no request in progress and no count under way, stored monitors are
\* being evaluated.
MonitorsWatched == AtRest /\ HasMonitors(set) => present

===============================================================================
