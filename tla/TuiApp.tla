------------------------------- MODULE TuiApp -------------------------------
(***************************************************************************)
(* The terminal user interface (fx-tui: app.rs, lib.rs) as a client of one *)
(* agent: the phase it is in, the prompts in flight and queued, the        *)
(* operations whose answer it waits for, and the permission it asks the    *)
(* user for.  Keys, answers and requests are handled one at a time by the  *)
(* loop of run_connected; an answer may come whenever its request is out.  *)
(*                                                                         *)
(* There is one phase for everything that is under way.  A prompt is the   *)
(* number of its Enter; the text, menus, pickers and the focus are left    *)
(* out: a key is there when some path of handle_key leads to its effect.   *)
(***************************************************************************)
EXTENDS Naturals, Sequences, SequencesExt, FiniteSets

CONSTANTS
  MaxPrompts,      \* bound: prompts entered
  MaxOperations,   \* bound: operations begun
  MaxRequests      \* bound: permissions the agent asks for

\* The bounds are numbers.
ASSUME TuiAssumption == MaxPrompts \in Nat /\ MaxOperations \in Nat /\ MaxRequests \in Nat

Prompts == 1 .. MaxPrompts

\* The operations that leave the session as it is, and those that change to another.
Settings == {"mode", "config", "login"}
Switches == {"new", "resume"}

VARIABLES
  phase,           \* "idle", "running", "cancelling" or "working"
  session,         \* the number of the session; another one for each switch
  inflight,        \* prompts sent and not answered, with the session they were sent to
  queued,
  operations,      \* operations sent and not answered
  asked,           \* permission requests the agent waits for
  dialog,          \* the request the user is asked about, or 0
  parked,
  connected,
  entered, begun, requests,
  sent             \* history: how often each prompt was sent

tuiVars == <<phase, session, inflight, queued, operations, asked, dialog, parked, connected,
             entered, begun, requests, sent>>
counts == <<entered, begun, requests>>

TuiInit ==
  /\ phase = "idle" /\ session = 0 /\ inflight = {} /\ queued = <<>> /\ operations = {}
  /\ asked = {} /\ dialog = 0 /\ parked = FALSE /\ connected = TRUE
  /\ entered = 0 /\ begun = 0 /\ requests = 0 /\ sent = [p \in Prompts |-> 0]

\* The keys go to the dialog, unless it is parked.
Modal == dialog # 0 /\ ~parked
Busy == phase \in {"running", "cancelling"}

Send(p) ==
  /\ inflight' = inflight \cup {[prompt |-> p, to |-> session]}
  /\ sent' = [sent EXCEPT ![p] = @ + 1]

-----------------------------------------------------------------------------
(* Keys.                                                                   *)

\* Enter: while a prompt runs what is entered waits, a command too; otherwise it is sent.
EnterPrompt ==
  /\ ~Modal /\ entered < MaxPrompts /\ entered' = entered + 1
  /\ IF Busy
     THEN queued' = Append(queued, entered + 1) /\ UNCHANGED <<phase, inflight, sent>>
     ELSE Send(entered + 1) /\ phase' = "running" /\ UNCHANGED queued
  /\ UNCHANGED <<session, operations, asked, dialog, parked, connected, begun, requests>>

\* mark_working and dispatch.
BeginOperation(kind) ==
  /\ ~Modal /\ begun < MaxOperations /\ begun' = begun + 1
  /\ phase' = "working"
  /\ operations' = operations \cup {[kind |-> kind, number |-> begun + 1]}
  /\ UNCHANGED <<session, inflight, queued, asked, dialog, parked, connected, entered, requests, sent>>

\* By BackTab or a picker, whatever the phase, or by a command.
ChangeSetting(kind) == kind \in Settings /\ BeginOperation(kind)

\* /new and /resume are commands: they are not run while a prompt is.
SwitchSession(kind) == kind \in Switches /\ ~Busy /\ BeginOperation(kind)

\* Esc or Ctrl-C; if the notification cannot be sent the phase is idle at once.
CancelPrompt(delivered) ==
  /\ ~Modal /\ phase = "running"
  /\ phase' = IF delivered THEN "cancelling" ELSE "idle"
  /\ UNCHANGED <<session, inflight, queued, operations, asked, dialog, parked, connected, counts, sent>>

\* Esc parks the dialog, Tab brings it back.
Park ==
  /\ dialog # 0 /\ parked' = ~parked
  /\ UNCHANGED <<phase, session, inflight, queued, operations, asked, dialog, connected, counts, sent>>

\* A request is answered when an option is chosen, and when what is shown of it is dropped.
Resolved == asked \ {dialog}

\* An option is chosen: the request is answered with it.
Choose ==
  /\ Modal /\ asked' = Resolved /\ dialog' = 0 /\ UNCHANGED parked
  /\ UNCHANGED <<phase, session, inflight, queued, operations, connected, counts, sent>>

-----------------------------------------------------------------------------
(* What comes from the agent.                                              *)

\* Mutant: after a prompt that failed the queue is left alone.
PromptFinishedStuck(p, failed) ==
  /\ p \in inflight
  /\ IF queued = <<>> \/ failed
     THEN /\ phase' = "idle" /\ inflight' = inflight \ {p} /\ UNCHANGED <<queued, sent>>
     ELSE /\ phase' = "running" /\ queued' = Tail(queued)
          /\ inflight' = (inflight \ {p}) \cup {[prompt |-> Head(queued), to |-> session]}
          /\ sent' = [sent EXCEPT ![Head(queued)] = @ + 1]
  /\ UNCHANGED <<session, operations, asked, dialog, parked, connected, counts>>

\* on_prompt_finished: the phase is idle, and the next queued prompt is sent to the session
\* of the moment.
PromptFinished(p, failed) ==
  /\ p \in inflight
  /\ IF queued = <<>>
     THEN /\ phase' = "idle" /\ inflight' = inflight \ {p} /\ UNCHANGED <<queued, sent>>
     ELSE /\ phase' = "running" /\ queued' = Tail(queued)
          /\ inflight' = (inflight \ {p}) \cup {[prompt |-> Head(queued), to |-> session]}
          /\ sent' = [sent EXCEPT ![Head(queued)] = @ + 1]
  /\ UNCHANGED <<session, operations, asked, dialog, parked, connected, counts>>

\* OperationFinished, ConfigApplied, ModeApplied or SessionReady: whatever else is under
\* way, the phase is idle.
OperationFinished(o, ok) ==
  /\ o \in operations /\ operations' = operations \ {o}
  /\ phase' = "idle"
  /\ session' = IF o.kind \in Switches /\ ok THEN o.number ELSE session
  /\ UNCHANGED <<inflight, queued, asked, dialog, parked, connected, counts, sent>>

\* set_permission: a request that was shown is dropped, and so answered as cancelled.
AskPermission ==
  /\ connected /\ requests < MaxRequests /\ requests' = requests + 1
  /\ dialog' = requests + 1 /\ parked' = FALSE
  /\ asked' = Resolved \cup {requests + 1}
  /\ UNCHANGED <<phase, session, inflight, queued, operations, connected, entered, begun, sent>>

\* The agent has exited: what is in flight will fail.
TransportClosed ==
  /\ connected /\ connected' = FALSE /\ phase' = "idle"
  /\ UNCHANGED <<session, inflight, queued, operations, asked, dialog, parked, counts, sent>>

TuiNext ==
  \/ EnterPrompt \/ Park \/ Choose \/ AskPermission \/ TransportClosed
  \/ \E kind \in Settings : ChangeSetting(kind)
  \/ \E kind \in Switches : SwitchSession(kind)
  \/ \E delivered \in BOOLEAN : CancelPrompt(delivered)
  \/ \E p \in inflight, failed \in BOOLEAN : (connected \/ failed) /\ PromptFinished(p, failed)
  \/ \E o \in operations, ok \in BOOLEAN : (ok => connected) /\ OperationFinished(o, ok)

-----------------------------------------------------------------------------
TuiTypeOK ==
  /\ phase \in {"idle", "running", "cancelling", "working"} /\ session \in 0 .. MaxOperations
  /\ inflight \subseteq [prompt : Prompts, to : 0 .. MaxOperations] /\ queued \in Seq(Prompts)
  /\ operations \subseteq [kind : Settings \cup Switches, number : 1 .. MaxOperations]
  /\ dialog \in 0 .. MaxRequests /\ asked \subseteq 1 .. MaxRequests

\* What waits has something to wait for: a phase other than idle, a queued prompt.  What was
\* entered was sent once or is queued, in its order.  The agent waits only for the answer
\* of the request that is shown.
TuiSound ==
  /\ Busy \/ queued # <<>> => inflight # {}
  /\ phase = "working" => operations # {}
  /\ \A p \in 1 .. entered : IF Contains(queued, p) THEN sent[p] = 0 ELSE sent[p] = 1
  /\ \A i, j \in 1 .. Len(queued) : i < j => queued[i] < queued[j]
  /\ asked = IF dialog = 0 THEN {} ELSE {dialog}
=============================================================================
