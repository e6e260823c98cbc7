----------------------------- MODULE MonitorSet -----------------------------
(***************************************************************************)
(* The durable monitor set of one terminal session, with its event log:    *)
(* PersistedMonitorSet and the MonitorStore operations on it               *)
(* (fx-process/src/terminal_monitor_store.rs), as operators from one       *)
(* stored set to the next.  An operation that fails stores nothing, and    *)
(* its result here is Failed.                                              *)
(*                                                                         *)
(* Left out: the schema version and the session id (one session), the time *)
(* of the last output (validate is its only reader), and the preparation   *)
(* of paths, which is part of what a probe answers.                        *)
(***************************************************************************)
EXTENDS Monitor, SequencesExt

CONSTANTS
  MaxMonitors,   \* MAXIMUM_MONITORS
  MaxEvents,     \* MAXIMUM_EVENTS
  Failed         \* the operation is refused, the set is as it was

ASSUME StoreAssumption == MaxMonitors \in Nat /\ MaxEvents \in Nat

EmptySet(cursor, lifecycle) ==
  [nextMonitor |-> 1, nextEvent |-> 1, gap |-> 0, acked |-> 0,
   cursor |-> cursor, last |-> lifecycle,
   monitors |-> << >>, events |-> << >>]

\* PersistedMonitorSet::validate: a set that fails it can be neither saved nor
\* loaded.
Valid(set) ==
  /\ set.acked < set.nextEvent
  /\ set.gap < set.nextEvent
  /\ Len(set.monitors) <= MaxMonitors
  /\ Len(set.events) <= MaxEvents
  /\ \A i \in DOMAIN set.monitors :
       LET m == set.monitors[i] IN m.matched => m.state # "active"
  /\ \A i \in DOMAIN set.events :
       /\ set.events[i].id < set.nextEvent
       /\ set.events[i].id > set.gap
       /\ set.events[i].id > set.acked
       /\ i > 1 => set.events[i].id > set.events[i - 1].id

MonitorIds(set) == [i \in DOMAIN set.monitors |-> set.monitors[i].id]
IndexOf(set, id) == CHOOSE i \in DOMAIN set.monitors : set.monitors[i].id = id
Has(set, id) == \E i \in DOMAIN set.monitors : set.monitors[i].id = id

\* Mutant: the ring drops its oldest event in silence.
PushEventNoGap(set, i, reason, view) ==
  LET event == [id |-> set.nextEvent, monitor |-> set.monitors[i].id, reason |-> reason,
                lifecycle |-> view.lifecycle, cursor |-> view.cursor, at |-> view.now]
      log == Append(set.events, event)
  IN  [set EXCEPT !.nextEvent = @ + 1,
                  !.monitors[i].lastReason = reason,
                  !.events = IF Len(log) > MaxEvents THEN Tail(log) ELSE log]

\* push_event: note_notification on the monitor, and a ring of events whose
\* dropped ids the gap remembers.
PushEvent(set, i, reason, view) ==
  LET event == [id |-> set.nextEvent, monitor |-> set.monitors[i].id, reason |-> reason,
                lifecycle |-> view.lifecycle, cursor |-> view.cursor, at |-> view.now]
      log == Append(set.events, event)
      full == Len(log) > MaxEvents
  IN  [set EXCEPT !.nextEvent = @ + 1,
                  !.monitors[i].lastReason = reason,
                  !.events = IF full THEN Tail(log) ELSE log,
                  !.gap = IF full /\ Head(log).id > @ THEN Head(log).id ELSE @]

\* apply_decision, with the monitor as the decision leaves it.
ApplyDecision(set, i, d, view) ==
  LET left == [set EXCEPT !.monitors[i] = d.monitor]
      told == IF d.notify = None THEN left ELSE PushEvent(left, i, d.notify, view)
  IN  IF d.remove THEN [told EXCEPT !.monitors = RemoveAt(@, i)] ELSE told

-----------------------------------------------------------------------------
(* What clients ask.  view is what the handler passes down: [lifecycle,    *)
(* cursor, now].                                                           *)

\* install_initial, for at least one definition.
InstallInitial(set, definitions, view) ==
  IF set # None \/ Len(definitions) > MaxMonitors THEN Failed
  ELSE [EmptySet(0, view.lifecycle) EXCEPT
          !.nextMonitor = Len(definitions) + 1,
          !.monitors = [i \in DOMAIN definitions |-> NewMonitor(i, definitions[i], view.now)]]

\* Mutants: one monitor too many; an id counted from the monitors there are.
AddPastLimit(set, definition, view) ==
  [set EXCEPT !.nextMonitor = @ + 1,
              !.monitors = Append(@, NewMonitor(set.nextMonitor, definition, view.now))]

AddCounted(set, definition, view) ==
  IF Len(set.monitors) >= MaxMonitors THEN Failed
  ELSE [set EXCEPT !.monitors =
                     Append(@, NewMonitor(Len(@) + 1, definition, view.now))]

AddMonitor(set, definition, view) ==
  IF Len(set.monitors) >= MaxMonitors THEN Failed
  ELSE [set EXCEPT !.nextMonitor = @ + 1,
                   !.monitors = Append(@, NewMonitor(set.nextMonitor, definition, view.now))]

\* The operations on a monitor that exists.
OperateOn(set, op, i, view) ==
  LET m == set.monitors[i]
      Becomes(new, reason) == PushEvent([set EXCEPT !.monitors[i] = new], i, reason, view)
  IN  CASE op.kind = "update" ->
             Becomes(NewMonitor(m.id, op.definition, view.now), "updated")
        [] op.kind = "pause" ->
             IF Pausable(m) THEN Becomes(Paused(m), "paused") ELSE set
        [] op.kind = "resume" ->
             IF m.state = "paused" THEN Becomes(Resumed(m, view.now), "resumed") ELSE set
        [] op.kind = "remove" ->
             LET told == PushEvent(set, i, "removed", view)
             IN  [told EXCEPT !.monitors = RemoveAt(@, i)]

\* operate: every operation records the lifecycle its caller sampled.
OperateSet(stored, op, view) ==
  LET set == [(IF stored = None THEN EmptySet(view.cursor, view.lifecycle) ELSE stored)
                EXCEPT !.last = view.lifecycle]
  IN  IF op.kind = "add" THEN AddMonitor(set, op.definition, view)
      ELSE IF ~Has(set, op.id) THEN Failed
      ELSE OperateOn(set, op, IndexOf(set, op.id), view)

\* Mutant: the acknowledged event itself is kept.
AcknowledgeBefore(set, id) ==
  [set EXCEPT !.acked = IF id > @ THEN id ELSE @,
              !.events = SelectSeq(@, LAMBDA e : e.id >= id)]

\* inspect with acknowledge_event_id; the page it returns is read from the
\* stored set.
Acknowledge(set, id) ==
  LET kept[k \in 0 .. Len(set.events)] ==
        IF k = 0 THEN << >>
        ELSE IF set.events[k].id > id THEN Append(kept[k - 1], set.events[k]) ELSE kept[k - 1]
  IN  [set EXCEPT !.acked = IF id > @ THEN id ELSE @, !.events = kept[Len(set.events)]]

-----------------------------------------------------------------------------
(* What the supervisor does with an observation [lifecycle, outcome, start, *)
(* end, gap, output] of the session.                                       *)

\* end_monitors
FinalDecision(m, lifecycle, outcome, now) ==
  LET c == m.definition.condition
      exited == c.kind = "exit" /\ lifecycle = "exited"
      first == IF exited THEN Observe(m, "exit", outcome \in c.when, now) ELSE Ignore(m)
      silent == /\ first.notify = None
                /\ m.definition.notify.kind = "on_exit"
                /\ m.lastReason # "session_exit"
      second == IF silent THEN ObserveSessionExit(first.monitor, now) ELSE first
  IN  [second EXCEPT !.remove = TRUE]

EndFirst(s, outcome, view) ==
  ApplyDecision(s, 1, FinalDecision(s.monitors[1], view.lifecycle, outcome, view.now), view)

EndMonitors(set, outcome, view) ==
  LET left[k \in 0 .. Len(set.monitors)] ==
        IF k = 0 THEN set ELSE EndFirst(left[k - 1], outcome, view)
  IN  left[Len(set.monitors)]

\* end_session, end_missing_session
EndSet(set, lifecycle, now) ==
  IF set = None \/ set.monitors = << >> THEN set
  ELSE [EndMonitors(set, None, [lifecycle |-> lifecycle, cursor |-> set.cursor, now |-> now])
          EXCEPT !.last = lifecycle]

\* Mutant: each chunk is matched on its own.
OutputDecisionByChunk(m, obs, answers, now) ==
  LET kind == m.definition.condition.kind
      fed == Fed([m EXCEPT !.reached = {}], obs.output)
  IN  CASE kind = "output" -> Observe(m, "output", fed.hit, now)
        [] kind = "screen" -> Observe(m, "screen", answers.screen, now)
        [] kind = "quiet"  -> Ignore(NoteOutput(m, now))
        [] OTHER           -> Ignore(m)

\* The answer of a monitor to new output; None when output does not concern it.
OutputDecision(m, obs, answers, now) ==
  LET kind == m.definition.condition.kind
      fed == Fed(m, obs.output)
  IN  CASE kind = "output" -> Observe([m EXCEPT !.reached = fed.reached], "output", fed.hit, now)
        [] kind = "screen" -> Observe(m, "screen", answers.screen, now)
        [] kind = "quiet"  -> Ignore(NoteOutput(m, now))
        [] OTHER           -> Ignore(m)

\* Each of the three passes of evaluate_terminal over the monitors carries
\* [set, changed], changed as the code computes it: only then is the set saved.
DegradePass(p) ==
  [set |-> [p.set EXCEPT !.monitors =
              [i \in DOMAIN @ |-> IF Degradable(@[i]) THEN Degraded(@[i]) ELSE @[i]]],
   changed |-> p.changed \/ \E i \in DOMAIN p.set.monitors : Degradable(p.set.monitors[i])]

HearOne(s, id, obs, answers, view) ==
  LET i == IndexOf(s, id) IN
  IF Deaf(s.monitors[i]) THEN s
  ELSE ApplyDecision(s, i, OutputDecision(s.monitors[i], obs, answers, view.now), view)

OutputPass(p, obs, answers, view) ==
  LET ids == MonitorIds(p.set)
      heard[k \in 0 .. Len(ids)] ==
        IF k = 0 THEN p.set ELSE HearOne(heard[k - 1], ids[k], obs, answers, view)
  IN  [set |-> heard[Len(ids)], changed |-> TRUE]

TimeOne(q, id, view) ==
  LET i == IndexOf(q.set, id)
      m == q.set.monitors[i]
      d == IF QuietDue(m, view.now) THEN Observe(m, "quiet", TRUE, view.now)
           ELSE TimerDecision(m, view.now)
  IN  [set |-> ApplyDecision(q.set, i, d, view), changed |-> q.changed \/ d.changed]

TimerPass(p, view) ==
  LET ids == MonitorIds(p.set)
      timed[k \in 0 .. Len(ids)] ==
        IF k = 0 THEN p ELSE TimeOne(timed[k - 1], ids[k], view)
  IN  timed[Len(ids)]

\* At most one probe runs in an evaluation: the first that is due.
PollPass(p, answers, view) ==
  LET due == {i \in DOMAIN p.set.monitors : PollingDue(p.set.monitors[i], view.now)}
      i == CHOOSE k \in due : \A j \in due : k <= j
  IN  IF view.lifecycle # "running" \/ due = {} THEN p
      ELSE [set |-> ApplyDecision(p.set, i,
                      Observe(p.set.monitors[i], "check", answers.probe, view.now), view),
            changed |-> TRUE]

LifecyclePass(p, obs, view) ==
  LET ended == p.set.last = "running" /\ obs.lifecycle # "running"
      s == IF ended THEN EndMonitors(p.set, obs.outcome, view) ELSE p.set
  IN  [set |-> [s EXCEPT !.last = obs.lifecycle],
       changed |-> p.changed \/ ended \/ p.set.last # obs.lifecycle]

\* evaluate_terminal: what is stored after it.
EvaluateSet(set, obs, answers, now) ==
  LET view == [lifecycle |-> obs.lifecycle, cursor |-> obs.end, now |-> now]
      p0 == [set |-> set, changed |-> FALSE]
      p1 == IF obs.gap THEN DegradePass(p0) ELSE p0
      p2 == IF obs.output = << >> THEN p1 ELSE OutputPass(p1, obs, answers, view)
      p3 == TimerPass([p2 EXCEPT !.set.cursor = obs.end], view)
      p4 == LifecyclePass(PollPass(p3, answers, view), obs, view)
  IN  IF set = None \/ set.monitors = << >> THEN set
      ELSE IF ~obs.gap /\ obs.start # set.cursor THEN set
      ELSE IF p4.changed THEN p4.set ELSE set

===============================================================================
