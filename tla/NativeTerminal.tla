--------------------------- MODULE NativeTerminal ---------------------------
(***************************************************************************)
(* The sessions of NativeTerminalHost (fx-process/src/native_terminal.rs): *)
(* the threads that serve the calls, and of every session the shell, the   *)
(* reader thread and the waiter thread.  Each lock (the map of sessions,   *)
(* the state of one) is held for one action.                               *)
(*                                                                         *)
(* A Session is dropped with the last of its references: the map and the   *)
(* calls that have found it hold one, the two threads none.                *)
(***************************************************************************)
EXTENDS Naturals, Sequences, FiniteSets

CONSTANTS
  Threads,       \* threads that serve calls
  Shells,        \* sessions, each with its shell
  Capacity,      \* MAX_SESSIONS
  RawLimit,      \* MAX_RAW_BYTES
  MaxTyped,      \* bound: bytes a shell writes, numbered
  MaxNativeCalls \* bound: calls

\* The host has room for one session at least, and what stands for no session is none.
ASSUME NativeAssumption ==
  /\ "none" \notin Shells /\ IsFiniteSet(Threads) /\ Capacity \in Nat \ {0} /\ RawLimit \in Nat
  /\ MaxTyped \in Nat /\ MaxNativeCalls \in Nat

VARIABLES
  shells,     \* "none", "running", "zombie", "reaped"
  typed,      \* bytes it has written
  life,       \* SessionState.lifecycle
  raw, base, total, reader,  \* SessionState: raw, base_offset, total_offset, reader_offset
  mapped,     \* the sessions in the map
  threads,    \* the reader and waiter threads that run; "reaped": the waiter has the status
  hung,       \* history: sessions whose shell was sent SIGHUP or SIGKILL
  op,         \* what each thread does
  nativeCalls

nativeVars == <<shells, typed, life, raw, base, total, reader, mapped, threads, hung, op, nativeCalls>>
stateVars == <<life, raw, base, total, reader>>
processVars == <<shells, typed, threads, hung>>

NoOp == [at |-> "idle", on |-> "none"]
Held(s, t) == op[t].on = s
Referenced(s, ops, map) == s \in map \/ \E t \in Threads : ops[t].on = s

\* Mutant: a session is dropped without a signal.
DropSilently(ops, map) == hung' = hung

\* Drop for Session, of those whose last reference has gone.
DropUnused(ops, map) ==
  hung' = hung \cup {s \in Shells : /\ life[s] = "running" /\ shells[s] \in {"running", "zombie"}
                                    /\ Referenced(s, op, mapped) /\ ~Referenced(s, ops, map)}

\* The thread t goes on with its call, or ends it and drops its reference.
Go(t, state) == [op EXCEPT ![t] = state]
Returns(t) ==
  /\ op' = Go(t, NoOp) /\ mapped' = mapped /\ DropUnused(op', mapped')
  /\ UNCHANGED <<shells, typed, threads, stateVars, nativeCalls>>
Continues(t, at) ==
  /\ op' = Go(t, [op[t] EXCEPT !.at = at])
  /\ UNCHANGED <<mapped, processVars, stateVars, nativeCalls>>

-----------------------------------------------------------------------------
(* start.                                                                  *)

\* The capacity is checked and the lock released.
CheckCapacity(t) ==
  /\ op[t].at = "idle" /\ nativeCalls < MaxNativeCalls /\ nativeCalls' = nativeCalls + 1
  /\ Cardinality(mapped) < Capacity
  /\ op' = Go(t, [at |-> "room", on |-> "none"])
  /\ UNCHANGED <<mapped, processVars, stateVars>>

SpawnFails(t) == op[t].at = "room" /\ Returns(t)

\* The PTY is opened and the shell spawned.
SpawnShell(t, s) ==
  /\ op[t].at = "room" /\ shells[s] = "none"
  /\ shells' = [shells EXCEPT ![s] = "running"] /\ life' = [life EXCEPT ![s] = "running"]
  /\ op' = Go(t, [at |-> "spawned", on |-> s])
  /\ UNCHANGED <<typed, threads, hung, raw, base, total, reader, mapped, nativeCalls>>

\* Insert; then the threads are spawned, in two steps that may fail.
InsertSession(t) ==
  /\ op[t].at = "spawned"
  /\ mapped' = mapped \cup {op[t].on} /\ op' = Go(t, [op[t] EXCEPT !.at = "inserted"])
  /\ UNCHANGED <<processVars, stateVars, nativeCalls>>

SpawnThread(t, from, thread, to) ==
  /\ op[t].at = from
  /\ threads' = [threads EXCEPT ![op[t].on] = @ \cup {thread}]
  /\ op' = Go(t, [op[t] EXCEPT !.at = to])
  /\ UNCHANGED <<shells, typed, hung, mapped, stateVars, nativeCalls>>

SpawnReader(t) == SpawnThread(t, "inserted", "reader", "read")
SpawnWaiter(t) == SpawnThread(t, "read", "waiter", "wait")

\* The session is removed again; what was spawned is left to Drop.
ThreadFails(t) ==
  /\ op[t].at \in {"inserted", "read"}
  /\ mapped' = mapped \ {op[t].on} /\ op' = Go(t, NoOp) /\ DropUnused(op', mapped')
  /\ UNCHANGED <<shells, typed, threads, stateVars, nativeCalls>>

-----------------------------------------------------------------------------
(* The other calls.                                                        *)

\* find; a session that is not in the map is reported.
Find(t, s, call) ==
  /\ op[t].at = "idle" /\ nativeCalls < MaxNativeCalls /\ nativeCalls' = nativeCalls + 1
  /\ s \in mapped
  /\ op' = Go(t, [at |-> call, on |-> s])
  /\ UNCHANGED <<mapped, processVars, stateVars>>

\* wait_for, also the end of start: it returns when the session has ended, when the condition
\* is met, or when the call is cancelled or its ceiling reached, that is, at any moment.
WaitReturns(t) == op[t].at = "wait" /\ Returns(t)

\* read: an offset that is retained; the reader has then seen all there is.
ReadRaw(t, offset) ==
  LET s == op[t].on
  IN  /\ op[t].at = "readRaw" /\ offset \in base[s] .. total[s]
      /\ reader' = [reader EXCEPT ![s] = total[s]]
      /\ op' = Go(t, NoOp) /\ DropUnused(op', mapped)
      /\ UNCHANGED <<mapped, shells, typed, threads, life, raw, base, total, nativeCalls>>

\* signal: the lifecycle is looked at and the lock released.
CheckSignal(t) ==
  /\ op[t].at = "signal"
  /\ IF life[op[t].on] = "running" THEN Continues(t, "signalling") ELSE Returns(t)

\* killpg, to a group that may have gone by now, or whose shell ignores the signal.
SendSignal(t, deadly) ==
  LET s == op[t].on
  IN  /\ op[t].at = "signalling"
      /\ shells' = IF deadly /\ shells[s] = "running" THEN [shells EXCEPT ![s] = "zombie"] ELSE shells
      /\ op' = Go(t, NoOp) /\ DropUnused(op', mapped)
      /\ UNCHANGED <<mapped, typed, threads, stateVars, nativeCalls>>

CheckClose(t) ==
  op[t].at = "close" /\ Continues(t, IF life[op[t].on] = "running" THEN "hangup" ELSE "ended")

\* close: SIGHUP, or SIGKILL by force.  The shell may have been reaped since: then close
\* fails, and the session stays.
Hangup(t, deadly) ==
  LET s == op[t].on
  IN  /\ op[t].at = "hangup"
      /\ IF shells[s] = "reaped" THEN Returns(t)
         ELSE /\ shells' = IF deadly /\ shells[s] = "running" THEN [shells EXCEPT ![s] = "zombie"] ELSE shells
              /\ hung' = hung \cup {s}
              /\ op' = Go(t, [op[t] EXCEPT !.at = "ended"])
              /\ UNCHANGED <<mapped, typed, threads, stateVars, nativeCalls>>

SetClosed(t) ==
  /\ op[t].at = "ended"
  /\ life' = [life EXCEPT ![op[t].on] = "closed"]
  /\ op' = Go(t, [op[t] EXCEPT !.at = "closed"])
  /\ UNCHANGED <<mapped, processVars, raw, base, total, reader, nativeCalls>>

RemoveClosed(t) ==
  /\ op[t].at = "closed"
  /\ mapped' = mapped \ {op[t].on} /\ op' = Go(t, NoOp) /\ DropUnused(op', mapped')
  /\ UNCHANGED <<shells, typed, threads, stateVars, nativeCalls>>

\* The host is dropped when nobody calls it any more.
HostDropped ==
  /\ \A t \in Threads : op[t] = NoOp
  /\ nativeCalls' = MaxNativeCalls /\ mapped' = {} /\ UNCHANGED op /\ DropUnused(op, {})
  /\ UNCHANGED <<shells, typed, threads, stateVars>>

-----------------------------------------------------------------------------
(* The shell and the two threads.                                          *)

ShellWrites(s) ==
  /\ shells[s] = "running" /\ typed[s] < MaxTyped
  /\ typed' = [typed EXCEPT ![s] = @ + 1]
  /\ UNCHANGED <<shells, threads, hung, stateVars, mapped, op, nativeCalls>>

ShellEnds(s) ==
  /\ shells[s] = "running" /\ shells' = [shells EXCEPT ![s] = "zombie"]
  /\ UNCHANGED <<typed, threads, hung, stateVars, mapped, op, nativeCalls>>

\* Mutant: the offset of what is dropped is not moved.
AppendKeepsBase(s, to) ==
  LET bytes == raw[s] \o [i \in 1 .. to - total[s] |-> total[s] + i]
      remove == IF Len(bytes) > RawLimit THEN Len(bytes) - RawLimit ELSE 0
  IN  /\ raw' = [raw EXCEPT ![s] = SubSeq(bytes, remove + 1, Len(bytes))]
      /\ UNCHANGED base
      /\ total' = [total EXCEPT ![s] = to]

\* SessionState::append of the bytes up to the one numbered to.
AppendRaw(s, to) ==
  LET bytes == raw[s] \o [i \in 1 .. to - total[s] |-> total[s] + i]
      remove == IF Len(bytes) > RawLimit THEN Len(bytes) - RawLimit ELSE 0
  IN  /\ raw' = [raw EXCEPT ![s] = SubSeq(bytes, remove + 1, Len(bytes))]
      /\ base' = [base EXCEPT ![s] = @ + remove]
      /\ total' = [total EXCEPT ![s] = to]

\* spawn_reader; a session that was dropped stops the thread.
ReaderReads(s, to) ==
  /\ "reader" \in threads[s] /\ to \in total[s] + 1 .. typed[s]
  /\ IF Referenced(s, op, mapped)
     THEN AppendRaw(s, to) /\ UNCHANGED threads
     ELSE threads' = [threads EXCEPT ![s] = @ \ {"reader"}] /\ UNCHANGED <<raw, base, total>>
  /\ UNCHANGED <<shells, typed, hung, life, reader, mapped, op, nativeCalls>>

\* spawn_waiter: child.wait; then the end is recorded, unless the session was closed.
WaiterReaps(s) ==
  /\ "waiter" \in threads[s] /\ shells[s] = "zombie"
  /\ shells' = [shells EXCEPT ![s] = "reaped"]
  /\ UNCHANGED <<typed, threads, hung, stateVars, mapped, op, nativeCalls>>

WaiterRecords(s, end) ==
  /\ "waiter" \in threads[s] /\ shells[s] = "reaped"
  /\ threads' = [threads EXCEPT ![s] = @ \ {"waiter"}]
  /\ life' = IF Referenced(s, op, mapped) /\ life[s] = "running" THEN [life EXCEPT ![s] = end] ELSE life
  /\ UNCHANGED <<shells, typed, hung, raw, base, total, reader, mapped, op, nativeCalls>>

-----------------------------------------------------------------------------
NativeInit ==
  /\ shells = [s \in Shells |-> "none"] /\ typed = [s \in Shells |-> 0]
  /\ life = [s \in Shells |-> "none"] /\ raw = [s \in Shells |-> <<>>]
  /\ base = [s \in Shells |-> 0] /\ total = [s \in Shells |-> 0] /\ reader = [s \in Shells |-> 0]
  /\ mapped = {} /\ threads = [s \in Shells |-> {}] /\ hung = {}
  /\ op = [t \in Threads |-> NoOp] /\ nativeCalls = 0

NativeNext ==
  \/ \E t \in Threads :
       \/ CheckCapacity(t) \/ SpawnFails(t) \/ InsertSession(t) \/ SpawnReader(t) \/ SpawnWaiter(t)
       \/ ThreadFails(t) \/ WaitReturns(t) \/ CheckSignal(t) \/ CheckClose(t) \/ SetClosed(t)
       \/ RemoveClosed(t) \/ (\E offset \in 0 .. MaxTyped : ReadRaw(t, offset))
       \/ (\E deadly \in BOOLEAN : SendSignal(t, deadly) \/ Hangup(t, deadly))
       \/ \E s \in Shells : \/ SpawnShell(t, s)
                            \/ \E call \in {"wait", "readRaw", "signal", "close"} : Find(t, s, call)
  \/ \E s \in Shells :
       \/ ShellWrites(s) \/ ShellEnds(s) \/ WaiterReaps(s)
       \/ (\E to \in 1 .. MaxTyped : ReaderReads(s, to))
       \/ \E end \in {"exited", "lost"} : WaiterRecords(s, end)
  \/ HostDropped

-----------------------------------------------------------------------------
NativeTypeOK ==
  /\ shells \in [Shells -> {"none", "running", "zombie", "reaped"}]
  /\ life \in [Shells -> {"none", "running", "exited", "lost", "closed"}]
  /\ mapped \subseteq Shells /\ hung \subseteq Shells /\ nativeCalls \in 0 .. MaxNativeCalls
  /\ \A s \in Shells : threads[s] \subseteq {"reader", "waiter"} /\ base[s] <= total[s]

\* No shell is left behind: one that runs is in the map, or a call still holds it, or it was
\* told to hang up, whatever start, close and the end of the host have met.  Starts that
\* race go over the capacity by one session each at most.  What is retained is the end of
\* what was read, at the offsets it is said to have.
NativeSound ==
  /\ \A s \in Shells : shells[s] = "running" => Referenced(s, op, mapped) \/ s \in hung
  /\ Cardinality(mapped) <= Capacity + Cardinality(Threads) - 1
  /\ \A s \in Shells : /\ raw[s] = [i \in 1 .. total[s] - base[s] |-> base[s] + i]
                       /\ Len(raw[s]) <= RawLimit /\ reader[s] <= total[s]
                       /\ life[s] \in {"exited", "lost"} => shells[s] = "reaped"
=============================================================================
