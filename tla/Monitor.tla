------------------------------ MODULE Monitor ------------------------------
(***************************************************************************)
(* One terminal monitor: the executor-neutral state machine of             *)
(* fx-process/src/monitor.rs, as operators on a monitor value.             *)
(*                                                                         *)
(* A definition is [condition, notify, lifetime], each a record with its   *)
(* kind and its parameter:                                                 *)
(*   condition  exit [when]              ProcessExit, ExitCode and Signal: *)
(*                                       when = the outcomes that match    *)
(*              output [pattern, wildcard]  OutputContains, OutputMatches  *)
(*              quiet [span]             OutputQuiet                       *)
(*              screen                   ScreenMatches                     *)
(*              poll [every]             the six polled conditions; what a *)
(*                                       probe answers is an input         *)
(*   notify     on_match, on_state_change, on_exit, every_n_checks [count] *)
(*              (EveryCheck is count 1), interval [every]                  *)
(*   lifetime   until_match, until_session_end, duration [span]            *)
(*                                                                         *)
(* Left out: generation and creation time, which only validate reads, the  *)
(* counter overflows (u64) and the clock checks for negative times.        *)
(***************************************************************************)
EXTENDS Integers, Sequences, PatternFeed

CONSTANT None    \* no deadline, no notification, no event yet

\* Monitor::new
NewMonitor(id, definition, now) ==
  LET c == definition.condition IN
  [id |-> id,
   definition |-> definition,
   state |-> "active",
   deadline |-> IF definition.lifetime.kind = "duration"
                THEN now + definition.lifetime.span ELSE None,
   nextCheck |-> CASE c.kind = "poll"  -> now + c.every
                   [] c.kind = "quiet" -> now + c.span
                   [] OTHER            -> None,
   nextNotice |-> IF definition.notify.kind = "interval"
                  THEN now + definition.notify.every ELSE None,
   checks |-> 0,
   lastReason |-> None,
   matched |-> FALSE,
   reached |-> {}]

Deaf(m) == m.state \in {"paused", "degraded"}
Due(time, now) == time # None /\ now >= time
Expired(m, now) == Due(m.deadline, now)
StateNotice(m, reason) ==
  IF m.definition.notify.kind = "on_state_change" THEN reason ELSE None

\* advance_deadline: the first time after now on the grid of current.
AdvanceDeadline(current, interval, now) ==
  IF current > now THEN current
  ELSE current + ((now - current) \div interval + 1) * interval

-----------------------------------------------------------------------------
(* Decisions: the monitor as it is left, the event to record, whether the  *)
(* monitor goes, and whether this is not Decision::default().              *)

Ignore(m) == [monitor |-> m, notify |-> None, remove |-> FALSE, changed |-> FALSE]
Retire(m, notice) == [monitor |-> m, notify |-> notice, remove |-> TRUE, changed |-> TRUE]

\* The rescheduling in observe: a poll keeps its grid, a quiet wait restarts.
Rescheduled(m, what, now) ==
  CASE what = "check" -> AdvanceDeadline(m.nextCheck, m.definition.condition.every, now)
    [] what = "quiet" -> now + m.definition.condition.span
    [] OTHER -> m.nextCheck

\* Monitor::observe for the observations output, screen, quiet, check, exit.
Judge(m, what, holds, now) ==
  LET fresh == holds /\ ~m.matched
      checks == m.checks + 1
      notify == m.definition.notify
      notice ==
        CASE notify.kind = "on_match" /\ fresh -> "matched"
          [] notify.kind = "on_state_change" /\ fresh -> "state_changed"
          [] notify.kind = "every_n_checks" /\ checks % notify.count = 0 -> "check"
          [] OTHER -> None
  IN  [monitor |-> [m EXCEPT !.checks = checks,
                             !.nextCheck = Rescheduled(m, what, now),
                             !.matched = m.matched \/ holds,
                             !.state = IF fresh THEN "matched" ELSE m.state],
       notify |-> notice,
       remove |-> fresh /\ m.definition.lifetime.kind = "until_match",
       changed |-> fresh \/ notice # None]

\* Mutant: an observation does not look at the lifetime.
ObserveLate(m, what, holds, now) == IF Deaf(m) THEN Ignore(m) ELSE Judge(m, what, holds, now)

Observe(m, what, holds, now) ==
  IF Deaf(m) THEN Ignore(m)
  ELSE IF Expired(m, now) THEN Retire(m, StateNotice(m, "expired"))
  ELSE Judge(m, what, holds, now)

\* observe(SessionExit)
ObserveSessionExit(m, now) ==
  IF Deaf(m) THEN Ignore(m)
  ELSE IF Expired(m, now) THEN Retire(m, StateNotice(m, "expired"))
  ELSE IF m.definition.notify.kind = "on_exit" THEN Retire(m, "session_exit")
  ELSE Retire(m, StateNotice(m, "session_exit"))

TimerDecision(m, now) ==
  IF Expired(m, now) THEN Retire(m, StateNotice(m, "expired"))
  ELSE IF Deaf(m) \/ m.definition.notify.kind # "interval" \/ now < m.nextNotice
  THEN Ignore(m)
  ELSE [Ignore(m) EXCEPT
          !.monitor.nextNotice =
             AdvanceDeadline(m.nextNotice, m.definition.notify.every, now),
          !.notify = "interval",
          !.changed = TRUE]

\* Mutant: output does not put off the check of a quiet monitor.
NoteNothing(m, now) == m

NoteOutput(m, now) == [m EXCEPT !.nextCheck = now + m.definition.condition.span]

QuietDue(m, now) ==
  m.state # "paused" /\ m.definition.condition.kind = "quiet" /\ Due(m.nextCheck, now)

PollingDue(m, now) ==
  ~Deaf(m) /\ m.definition.condition.kind = "poll" /\ Due(m.nextCheck, now)

-----------------------------------------------------------------------------
(* Operations on a monitor. *)

Pausable(m) == ~Deaf(m)
Paused(m) == [m EXCEPT !.state = "paused"]

Resumed(m, now) ==
  LET c == m.definition.condition IN
  [m EXCEPT !.state = IF m.matched THEN "matched" ELSE "active",
            !.nextCheck = CASE c.kind = "poll"  -> now + c.every
                            [] c.kind = "quiet" -> now + c.span
                            [] OTHER            -> m.nextCheck,
            !.nextNotice = IF m.definition.notify.kind = "interval"
                           THEN now + m.definition.notify.every
                           ELSE m.nextNotice]

\* degrade_for_raw_gap: output was lost before this monitor saw it.
GapSensitive(m) == m.definition.condition.kind \in {"output", "quiet", "screen"}
Degradable(m) == GapSensitive(m) /\ m.state # "degraded"
Degraded(m) == [m EXCEPT !.state = "degraded", !.reached = {},
                         !.nextCheck = None, !.nextNotice = None]

\* feed_output: the matcher state and the answer.
Fed(m, bytes) ==
  LET c == m.definition.condition IN PatternFed(c.pattern, c.wildcard, m.reached, bytes)

===============================================================================
