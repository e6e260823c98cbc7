----------------------------- MODULE AgentLoop -----------------------------
(***************************************************************************)
(* fx-core/src/agent.rs: run_controlled and what it calls for a batch of   *)
(* tool calls.  An action runs from one await to the next or, where that   *)
(* would make it long, to a label in between at which nothing else runs:   *)
(* both front ends use a current-thread executor (see Yielded).            *)
(*                                                                         *)
(* A text is the number of its deltas.  A tool call is a record: who runs  *)
(* it, whether it is well formed, its effect, the target of its permission *)
(* request, and whether scoped project instructions apply to the target.   *)
(***************************************************************************)
EXTENDS Permissions, SequencesExt

CONSTANTS
  Batches,   \* the sequences of tool calls a response may carry
  MaxText,   \* deltas of one response
  MaxSteps   \* AgentOptions.max_steps, here not 0 (which is no limit)

CallRecord == [by : {"fx", "provider"}, valid : BOOLEAN, effect : {"read", "write"},
               target : STRING, scoped : BOOLEAN]

ASSUME AgentAssumption ==
  /\ MaxSteps \in Nat \ {0} /\ MaxText \in Nat
  /\ Batches \subseteq Seq(CallRecord)

VARIABLES
  run,       \* the run_controlled in progress, with its TrackedEvents
  flag,      \* SessionCancellation.cancelled
  perm,      \* the PermissionEngine: mode and session grants
  delivered  \* the scoped instructions were delivered (SessionProjectContext)

agent == <<run, flag, perm, delivered>>

Message(role, text, calls, result) ==
  [role |-> role, text |-> text, calls |-> calls, result |-> result]

System == Message("system", 0, << >>, "none")
User(n) == Message("user", n, << >>, "none")
Assistant(text, calls) == Message("assistant", text, calls, "none")
ToolResult(call, result) == Message("tool", 0, <<call>>, result)

NoRun ==
  [at |-> "none", messages |-> << >>, step |-> 0, text |-> 0, partial |-> 0,
   calls |-> << >>, delayed |-> {}, outcomes |-> << >>, group |-> 0, admitted |-> << >>,
   reviewer |-> "none", stop |-> "none", ran |-> 0, visible |-> 0]

\* The executor runs other tasks only while the run awaits something.
Yielded == run.at \in {"none", "gateway", "stage", "model", "review", "execute", "save"}

Stopped(reason) == [run EXCEPT !.at = "stop", !.stop = reason]

-----------------------------------------------------------------------------
(* A step: one request to the gateway.                                     *)

\* The head of the loop.
LoopTop ==
  /\ run.at = "loop"
  /\ run' = IF run.step = MaxSteps THEN Stopped("limit")
            ELSE IF flag THEN Stopped("cancelled")
            ELSE [run EXCEPT !.at = "model", !.step = @ + 1, !.text = 0]
  /\ UNCHANGED <<flag, perm, delivered>>

\* ThreadedGateway relays a content delta; TrackedEvents collects it.
Delta ==
  /\ run.at = "model"
  /\ run.text < MaxText
  /\ run' = [run EXCEPT !.text = @ + 1, !.partial = @ + 1, !.visible = @ + 1]
  /\ UNCHANGED <<flag, perm, delivered>>

\* The response arrives before the flag is polled again.
Respond ==
  /\ run.at = "model"
  /\ \E calls \in Batches :
       LET answered == [run EXCEPT !.messages = Append(@, Assistant(run.text, calls))]
       IN  run' = IF flag THEN [answered EXCEPT !.at = "stop", !.stop = "cancelled"]
                  ELSE IF calls = << >> THEN [answered EXCEPT !.at = "stop", !.stop = "complete"]
                  ELSE [answered EXCEPT !.at = "select", !.calls = calls]
  /\ UNCHANGED <<flag, perm, delivered>>

\* ThreadedGateway polls the flag.
GatewayCancelled ==
  /\ run.at = "model"
  /\ flag
  /\ run' = Stopped("cancelled")
  /\ UNCHANGED <<flag, perm, delivered>>

GatewayFails ==
  /\ run.at = "model"
  /\ run' = Stopped("error")
  /\ UNCHANGED <<flag, perm, delivered>>

-----------------------------------------------------------------------------
(* A batch of tool calls.                                                  *)

Local(call) == call.by = "fx" /\ call.valid

\* insert_stable_system_context: after the leading system messages.
InsertSystem(messages) ==
  LET prefix == CHOOSE n \in 0..Len(messages) :
                  /\ \A i \in 1..n : messages[i].role = "system"
                  /\ n = Len(messages) \/ messages[n + 1].role # "system"
  IN  InsertAt(messages, prefix + 1, System)

\* select_scoped_project_context.
SelectContext ==
  /\ run.at = "select"
  /\ LET scoped == {i \in DOMAIN run.calls : Local(run.calls[i]) /\ run.calls[i].scoped}
     IN  IF scoped # {} /\ ~delivered
         THEN /\ delivered' = TRUE
              /\ run' = [run EXCEPT
                   !.at = "call", !.messages = InsertSystem(@),
                   !.delayed = {i \in scoped : run.calls[i].effect # "read"}]
         ELSE /\ run' = [run EXCEPT !.at = "call", !.delayed = {}]
              /\ UNCHANGED delivered
  /\ UNCHANGED <<flag, perm>>

\* The instructions cannot be read.
SelectFails ==
  /\ run.at = "select"
  /\ \E i \in DOMAIN run.calls : Local(run.calls[i]) /\ run.calls[i].scoped
  /\ run' = Stopped("error")
  /\ UNCHANGED <<flag, perm, delivered>>

Index == Len(run.outcomes) + 1

\* Every call has an outcome: the results enter the history.
CollectResults ==
  /\ run.at = "call"
  /\ Index > Len(run.calls)
  /\ run' = [run EXCEPT
       !.at = "loop", !.calls = << >>, !.outcomes = << >>, !.delayed = {},
       !.messages = @ \o [i \in DOMAIN run.calls |-> ToolResult(run.calls[i], run.outcomes[i])]]
  /\ UNCHANGED <<flag, perm, delivered>>

\* Mutant: the calls that are left get no result.
CancelForgotten ==
  /\ run.at = "call"
  /\ Index <= Len(run.calls)
  /\ flag
  /\ run' = [run EXCEPT !.calls = SubSeq(@, 1, Index - 1)]
  /\ UNCHANGED <<flag, perm, delivered>>

CancelRest ==
  /\ run.at = "call"
  /\ Index <= Len(run.calls)
  /\ flag
  /\ run' = [run EXCEPT !.outcomes = @ \o [i \in 1..(Len(run.calls) - Index + 1) |-> "cancelled"]]
  /\ UNCHANGED <<flag, perm, delivered>>

\* The model must first see the instructions that apply to this change.
Defer ==
  /\ run.at = "call"
  /\ Index \in run.delayed
  /\ ~flag
  /\ run' = [run EXCEPT !.outcomes = Append(@, "deferred"), !.partial = 0]
  /\ UNCHANGED <<flag, perm, delivered>>

\* parallel_read_prefix_len of the calls that are left.
ReadPrefix ==
  LET reads(n) == \A i \in Index..(Index + n - 1) :
                    Local(run.calls[i]) /\ run.calls[i].effect = "read"
  IN  CHOOSE n \in 0..(Len(run.calls) - Index + 1) :
        /\ reads(n)
        /\ n = Len(run.calls) - Index + 1 \/ ~reads(n + 1)

\* Two reads or more form a group, any other call is one of its own.
\* emit_tool_started clears the tracked text.
BeginGroup ==
  /\ run.at = "call"
  /\ Index <= Len(run.calls)
  /\ Index \notin run.delayed
  /\ ~flag
  /\ run' = [run EXCEPT !.at = "admit", !.admitted = << >>, !.partial = 0,
                        !.group = IF ReadPrefix >= 2 THEN ReadPrefix ELSE 1]
  /\ UNCHANGED <<flag, perm, delivered>>

Candidate == run.calls[Index + Len(run.admitted)]

\* The admission of a call is decided.
Admitted(verdict) ==
  [run EXCEPT !.at = IF Len(run.admitted) + 1 = run.group THEN "start" ELSE "admit",
              !.admitted = Append(@, verdict)]

\* The check after the decision.
IfNotCancelled == IF flag THEN "cancelled" ELSE "go"

\* execute_one_tool and admit_local_tool up to the review.
Admit ==
  /\ run.at = "admit"
  /\ LET decision == Decide(perm.mode, perm.grants, Candidate)
     IN  run' = IF Candidate.by = "provider" THEN Admitted("provider")
                ELSE IF ~Candidate.valid THEN Admitted("invalid")
                ELSE CASE decision = "deny"   -> Admitted("denied")
                       [] decision = "allow"  -> Admitted(IfNotCancelled)
                       [] decision = "ask"    -> [run EXCEPT !.at = "review", !.reviewer = "user"]
                       [] decision = "review" -> [run EXCEPT !.at = "review", !.reviewer = "model"]
  /\ UNCHANGED <<flag, perm, delivered>>

\* ApprovalHandler::review ends: AllowOnce, AllowForSession or Deny.
Reviewed(answer) ==
  /\ run.at = "review"
  /\ run' = Admitted(IF answer = "deny" THEN "denied" ELSE IfNotCancelled)
  /\ perm' = IF answer = "session"
             THEN [perm EXCEPT !.grants = @ \union {Candidate.target}] ELSE perm
  /\ UNCHANGED <<flag, delivered>>

\* review_automatically.
ModelReviews ==
  /\ run.reviewer = "model"
  /\ \E answer \in {"once", "deny"} : Reviewed(answer)

\* Mutant: a question to the user stays open.
QuestionStays == flag /\ run.reviewer = "model" /\ Reviewed("deny")

\* AcpApproval and the gateway of the automatic review give up.
ReviewCancelled == flag /\ Reviewed("deny")

\* The connection to the user is gone.
ReviewFails ==
  /\ run.at = "review"
  /\ run.reviewer = "user"
  /\ run' = Stopped("error")
  /\ UNCHANGED <<flag, perm, delivered>>

\* The calls of the group that are to run.
Going == {i \in DOMAIN run.admitted : run.admitted[i] = "go"}

\* Mutant: the futures of the group do not look at the flag again.
StartAnyway ==
  /\ run.at = "start"
  /\ run' = IF Going # {}
            THEN [run EXCEPT !.at = "execute",
                    !.ran = @ + Cardinality(Going)]
            ELSE [run EXCEPT !.at = "call", !.outcomes = @ \o run.admitted]
  /\ UNCHANGED <<flag, perm, delivered>>

\* The first poll of the group's futures.
StartTools ==
  /\ run.at = "start"
  /\ run' = IF ~flag /\ Going # {}
            THEN [run EXCEPT !.at = "execute",
                    !.ran = @ + Cardinality(Going)]
            ELSE [run EXCEPT !.at = "call", !.outcomes = @ \o
                    [i \in DOMAIN run.admitted |->
                       IF run.admitted[i] = "go" THEN "cancelled" ELSE run.admitted[i]]]
  /\ UNCHANGED <<flag, perm, delivered>>

\* Mutant: what a cancelled tool did is not reported.
FinishUnlessCancelled ==
  /\ run.at = "execute"
  /\ run' = [run EXCEPT !.at = "call", !.outcomes = @ \o
               [i \in DOMAIN run.admitted |->
                  IF run.admitted[i] # "go" THEN run.admitted[i]
                  ELSE IF flag THEN "cancelled" ELSE "ran"]]
  /\ UNCHANGED <<flag, perm, delivered>>

\* All of them are done, in the order of the calls (join_ordered).
FinishTools ==
  /\ run.at = "execute"
  /\ run' = [run EXCEPT !.at = "call", !.outcomes = @ \o
               [i \in DOMAIN run.admitted |->
                  IF run.admitted[i] = "go" THEN "ran" ELSE run.admitted[i]]]
  /\ UNCHANGED <<flag, perm, delivered>>

-----------------------------------------------------------------------------

\* Steps of the run that wait for nobody outside it.
Progress ==
  \/ LoopTop \/ GatewayCancelled \/ SelectContext \/ SelectFails
  \/ CollectResults \/ CancelRest \/ Defer \/ BeginGroup \/ Admit \/ StartTools
  \/ FinishTools

\* Steps that depend on a provider.
Provided == Delta \/ Respond \/ GatewayFails \/ ModelReviews
=============================================================================
