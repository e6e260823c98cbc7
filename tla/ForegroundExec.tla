--------------------------- MODULE ForegroundExec ---------------------------
(***************************************************************************)
(* A command run in the foreground (fx-process/src/lib.rs: run_command,    *)
(* CapturedStream): the shell and what it leaves in the background, the    *)
(* two readers that capture the head and the tail of each stream, the loop *)
(* that waits for the shell, and the answer.                               *)
(*                                                                         *)
(* The bytes of a stream are numbered: byte n is the number n.             *)
(***************************************************************************)
EXTENDS Integers, Sequences, FiniteSets

CONSTANTS
  OutputLimits,   \* values of max_result_bytes
  MaxWritten,     \* bound: bytes written to a stream
  MaxChunk        \* bound: bytes of one read, instead of 8192

\* A limit is a number of bytes.
ASSUME ExecAssumption == OutputLimits \subseteq Nat /\ MaxWritten \in Nat /\ MaxChunk \in Nat

Streams == {"stdout", "stderr"}
NoCapture == [head |-> <<>>, tail |-> <<>>, total |-> 0]

VARIABLES
  maxBytes,
  shell,        \* "running", "exited", "killed"
  background,   \* "none", "holding" the pipes or "detached" from them, "ended"
  written,      \* bytes written to each stream
  captured,
  finished,     \* the readers that have seen the end of their stream
  command,      \* "waiting", the termination, or "ended"
  outcome,      \* the termination that is answered
  cancelled, late

execVars == <<maxBytes, shell, background, written, captured, finished, command, outcome,
              cancelled, late>>

\* The numbers from a to b.
Interval(a, b) == [i \in 1 .. (IF b < a THEN 0 ELSE b - a + 1) |-> a + i - 1]
Lower(a, b) == IF a < b THEN a ELSE b
HeadLimit(limit) == (limit + 1) \div 2
LastOf(s, n) == SubSeq(s, Len(s) - Lower(n, Len(s)) + 1, Len(s))

-----------------------------------------------------------------------------
(* CapturedStream.                                                         *)

\* append.
AppendChunk(c, bytes) ==
  LET headLimit == HeadLimit(maxBytes)
      tailLimit == maxBytes - headLimit
  IN  [total |-> c.total + Len(bytes),
       head  |-> c.head \o SubSeq(bytes, 1, Lower(headLimit - Len(c.head), Len(bytes))),
       tail  |-> IF tailLimit = 0 THEN c.tail
                 ELSE IF Len(bytes) >= tailLimit THEN LastOf(bytes, tailLimit)
                 ELSE LastOf(c.tail \o bytes, tailLimit)]

\* Mutant: the head and the tail of a short output are put together as they are.
RenderDoubled(c, budget) ==
  IF c.total <= budget THEN c.head \o c.tail
  ELSE SubSeq(c.head, 1, Lower(Len(c.head), HeadLimit(budget))) \o LastOf(c.tail, budget - HeadLimit(budget))

\* render, without the line that says how much is left out.
Render(c, budget) ==
  IF c.total = 0 THEN <<>>
  ELSE IF c.total <= budget
  THEN LET overlap == Len(c.head) + Len(c.tail) - c.total
       IN  c.head \o SubSeq(c.tail, overlap + 1, Len(c.tail))
  ELSE SubSeq(c.head, 1, Lower(Len(c.head), HeadLimit(budget))) \o LastOf(c.tail, budget - HeadLimit(budget))

\* format_result: the budget of each stream.
Budget(s) ==
  LET total == captured["stdout"].total + captured["stderr"].total
      other == IF s = "stdout" THEN "stderr" ELSE "stdout"
  IN  IF total <= maxBytes \/ captured[other].total = 0 THEN maxBytes
      ELSE IF captured[s].total = 0 THEN 0
      ELSE IF s = "stdout" THEN HeadLimit(maxBytes) ELSE maxBytes - HeadLimit(maxBytes)

-----------------------------------------------------------------------------
ExecInit ==
  /\ maxBytes \in OutputLimits
  /\ shell = "running" /\ background = "none" /\ written = [s \in Streams |-> 0]
  /\ captured = [s \in Streams |-> NoCapture] /\ finished = {}
  /\ command = "waiting" /\ outcome = "none" /\ cancelled = FALSE /\ late = FALSE

Holding == shell = "running" \/ background = "holding"

Writes(s) ==
  /\ Holding /\ written[s] < MaxWritten
  /\ written' = [written EXCEPT ![s] = @ + 1]
  /\ UNCHANGED <<maxBytes, shell, background, captured, finished, command, outcome, cancelled, late>>

LeavesInBackground(how) ==
  /\ shell = "running" /\ background = "none" /\ background' = how
  /\ UNCHANGED <<maxBytes, shell, written, captured, finished, command, outcome, cancelled, late>>

ShellExits ==
  /\ shell = "running" /\ shell' = "exited"
  /\ UNCHANGED <<maxBytes, background, written, captured, finished, command, outcome, cancelled, late>>

BackgroundEnds ==
  /\ background \in {"holding", "detached"} /\ background' = "ended"
  /\ UNCHANGED <<maxBytes, shell, written, captured, finished, command, outcome, cancelled, late>>

\* capture_stream: a read of what is there, or the end when nobody holds the pipe any more.
Capture(s, n) ==
  /\ n \in 1 .. Lower(MaxChunk, written[s] - captured[s].total)
  /\ captured' = [captured EXCEPT ![s] = AppendChunk(@, Interval(@.total + 1, @.total + n))]
  /\ UNCHANGED <<maxBytes, shell, background, written, finished, command, outcome, cancelled, late>>

StreamEnds(s) ==
  /\ s \notin finished /\ ~Holding /\ captured[s].total = written[s]
  /\ finished' = finished \cup {s}
  /\ UNCHANGED <<maxBytes, shell, background, written, captured, command, outcome, cancelled, late>>

\* The call is cancelled, or its time is over.
CancelExec ==
  /\ ~cancelled /\ cancelled' = TRUE
  /\ UNCHANGED <<maxBytes, shell, background, written, captured, finished, command, outcome, late>>

TimeIsOver ==
  /\ ~late /\ late' = TRUE
  /\ UNCHANGED <<maxBytes, shell, background, written, captured, finished, command, outcome, cancelled>>

\* select!: the shell has exited; what it left behind is let be, and so is, from here on, a
\* cancellation or the end of the time.
Natural ==
  /\ command = "waiting" /\ shell = "exited"
  /\ command' = "natural"
  /\ UNCHANGED <<maxBytes, shell, background, written, captured, finished, outcome, cancelled, late>>

\* select!: POLL_INTERVAL has passed; the process group is killed.  The branches are tried in
\* any order, so the shell may have exited.
Poll ==
  /\ command = "waiting" /\ (cancelled \/ late)
  /\ command' = IF cancelled THEN "cancelled" ELSE "timed out"
  /\ shell' = IF shell = "running" THEN "killed" ELSE shell
  /\ background' = IF background = "none" THEN "none" ELSE "ended"
  /\ UNCHANGED <<maxBytes, written, captured, finished, outcome, cancelled, late>>

\* Mutant: the readers are not waited for.
AnswerEarly ==
  /\ command \in {"natural", "cancelled", "timed out"}
  /\ command' = "ended" /\ outcome' = command
  /\ UNCHANGED <<maxBytes, shell, background, written, captured, finished, cancelled, late>>

Answer ==
  /\ command \in {"natural", "cancelled", "timed out"} /\ finished = Streams
  /\ command' = "ended" /\ outcome' = command
  /\ UNCHANGED <<maxBytes, shell, background, written, captured, finished, cancelled, late>>

ExecNext ==
  \/ \E s \in Streams : Writes(s) \/ StreamEnds(s) \/ \E n \in 1 .. MaxChunk : Capture(s, n)
  \/ \E how \in {"holding", "detached"} : LeavesInBackground(how)
  \/ ShellExits \/ BackgroundEnds \/ CancelExec \/ TimeIsOver \/ Natural \/ Poll \/ Answer

-----------------------------------------------------------------------------
\* The answer shows all that was written to a stream when it fits, and otherwise its
\* beginning and its end, as much as the budget allows, with nothing twice; both streams
\* keep to the limit together.  An answer of a cancellation or a timeout has a reason, and
\* after it nothing of the command runs.
ExecSound ==
  command = "ended" =>
    /\ \A s \in Streams :
         LET n == written[s]
             b == Budget(s)
         IN  Render(captured[s], b) =
               IF n <= b THEN Interval(1, n)
               ELSE Interval(1, HeadLimit(b)) \o Interval(n - (b - HeadLimit(b)) + 1, n)
    /\ Len(Render(captured["stdout"], Budget("stdout")))
         + Len(Render(captured["stderr"], Budget("stderr"))) <= maxBytes
    /\ outcome = "cancelled" => cancelled
    /\ outcome = "timed out" => late
    /\ outcome # "natural" => shell # "running" /\ background \in {"none", "ended"}
=============================================================================
