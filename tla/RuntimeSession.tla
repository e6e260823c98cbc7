--------------------------- MODULE RuntimeSession ---------------------------
(***************************************************************************)
(* fx-runtime/src/lib.rs and fx-cli/src/acp.rs: one session of FxRuntime   *)
(* behind the ACP server.  The SDK handles the client's messages one by    *)
(* one, in order; a handler that awaits holds up the messages behind it.   *)
(* Prompts run in tasks of their own, on the same thread.                  *)
(*                                                                         *)
(* The store is an atomic register (SessionRegister).  A message of the    *)
(* client is a record of its kind and its argument.                        *)
(***************************************************************************)
EXTENDS AgentLoop

CONSTANTS
  Models,       \* routes of the provider registry
  DefaultModel, \* the one the session was created with
  Requests,     \* what a client sends besides prompts and answers
  MaxMessages,  \* of both that a client sends
  MaxInbox      \* of these that wait to be dispatched

ClientModes == {"ask", "auto"}

RequestRecord ==
  [kind : {"cancel", "close", "load"}, arg : {"none"}]
    \union [kind : {"set_mode", "config_mode"}, arg : ClientModes]
    \union [kind : {"config_model"}, arg : Models]

ASSUME RuntimeAssumption ==
  /\ DefaultModel \in Models /\ Requests \subseteq RequestRecord
  /\ MaxMessages \in Nat /\ MaxInbox \in Nat

VARIABLES
  disk,      \* the session in the store
  session,   \* ActiveSession.session: history and preferences.model
  active,    \* the slot is registered
  lock,      \* SessionSlot.runtime: "free", "prompt" or "handler"
  mode,      \* SessionSlot.mode
  inbox,     \* messages of the client that were not dispatched yet
  handler,   \* the message whose handler has not returned, and where it waits
  tasks,     \* prompt tasks that were spawned and have not run yet
  sent,      \* how much the client has sent; a bound
  stored     \* the last write of the session reached the store; a history variable

slot == <<session, active, lock, mode>>
client == <<inbox, sent>>
vars == <<agent, disk, slot, client, handler, tasks, stored>>

Blank == [history |-> << >>, model |-> "none"]

Idle == [kind |-> "none", arg |-> "none", at |-> "none", persisted |-> Blank]

\* The handler of a message awaits something.
Awaits(message, what) ==
  [kind |-> message.kind, arg |-> message.arg, at |-> what, persisted |-> Blank]

Init ==
  /\ disk = [history |-> <<System>>, model |-> DefaultModel]
  /\ session = disk
  /\ active = TRUE
  /\ lock = "free"
  /\ mode = "ask"
  /\ inbox = << >>
  /\ handler = Idle
  /\ tasks = 0
  /\ sent = 0
  /\ stored = TRUE
  /\ run = NoRun
  /\ flag = FALSE
  /\ perm = [mode |-> "auto", grants |-> {}]
  /\ delivered = FALSE

-----------------------------------------------------------------------------
(* The client.                                                             *)

Send(message) ==
  /\ sent < MaxMessages /\ Len(inbox) < MaxInbox
  /\ sent' = sent + 1
  /\ inbox' = Append(inbox, message)
  /\ UNCHANGED <<agent, disk, slot, handler, tasks, stored>>

SendPrompt == Send([kind |-> "prompt", arg |-> "none"])
SendRequest == \E request \in Requests : Send(request)

AwaitsUser == run.at = "review" /\ run.reviewer = "user"

\* The user answers the open question, once.
SendAnswer ==
  /\ AwaitsUser
  /\ \A i \in DOMAIN inbox : inbox[i].kind # "answer"
  /\ \E answer \in {"once", "session", "deny"} :
       inbox' = Append(inbox, [kind |-> "answer", arg |-> answer])
  /\ UNCHANGED <<agent, disk, slot, handler, tasks, sent, stored>>

Client == SendPrompt \/ SendRequest \/ SendAnswer

\* The answer to a question that is not open any more finds no one; there is
\* one at most.
DropAnswers ==
  LET answers == {i \in DOMAIN inbox : inbox[i].kind = "answer"}
  IN  inbox' = IF answers = {} THEN inbox ELSE RemoveAt(inbox, CHOOSE i \in answers : TRUE)

-----------------------------------------------------------------------------
(* The ordered dispatcher of the SDK and the handlers of acp.rs.           *)

Dispatch(kind) ==
  /\ Yielded
  /\ handler = Idle
  /\ inbox # << >> /\ Head(inbox).kind = kind
  /\ inbox' = Tail(inbox)
  /\ UNCHANGED <<sent, disk, stored>>

HandlePrompt ==
  /\ Dispatch("prompt")
  /\ tasks' = tasks + 1
  /\ UNCHANGED <<agent, slot, handler>>

HandleAnswer ==
  /\ Dispatch("answer")
  /\ Reviewed(Head(inbox).arg)
  /\ UNCHANGED <<slot, handler, tasks>>

\* cancel_session.
HandleCancel ==
  /\ Dispatch("cancel")
  /\ flag' = (flag \/ active)
  /\ UNCHANGED <<run, perm, delivered, slot, handler, tasks>>

HandleSetMode ==
  /\ Dispatch("set_mode")
  /\ mode' = IF active THEN Head(inbox).arg ELSE mode
  /\ UNCHANGED <<agent, session, active, lock, handler, tasks>>

\* set_session_config_option up to the lock.
HandleConfig ==
  /\ Dispatch("config_mode") \/ Dispatch("config_model")
  /\ handler' = IF active THEN Awaits(Head(inbox), "lock") ELSE Idle
  /\ UNCHANGED <<agent, slot, tasks>>

\* close_session up to the lock.
HandleClose ==
  /\ Dispatch("close")
  /\ active' = FALSE
  /\ flag' = (flag \/ active)
  /\ handler' = IF active THEN Awaits(Head(inbox), "lock") ELSE Idle
  /\ UNCHANGED <<run, perm, delivered, session, lock, mode, tasks>>

\* load_session: an active session builds its tools again, another one is
\* read from the store and gets a new slot.
HandleLoad ==
  /\ Dispatch("load")
  /\ \/ /\ active
        /\ handler' = Awaits(Head(inbox), "build")
        /\ UNCHANGED <<agent, slot>>
     \/ /\ ~active
        /\ session' = disk
        /\ active' = TRUE
        /\ mode' = "ask"
        /\ flag' = FALSE
        /\ perm' = [mode |-> "auto", grants |-> {}]
        /\ delivered' = FALSE
        /\ UNCHANGED <<run, lock, handler>>
     \/ ~active /\ UNCHANGED <<agent, slot, handler>>  \* the load fails
  /\ UNCHANGED tasks

LoadBuilt ==
  /\ Yielded
  /\ handler.at = "build"
  /\ flag' = TRUE
  /\ handler' = [handler EXCEPT !.at = "lock"]
  /\ UNCHANGED <<run, perm, delivered, disk, slot, client, tasks, stored>>

LoadFails ==
  /\ Yielded
  /\ handler.at = "build"
  /\ handler' = Idle
  /\ UNCHANGED <<agent, disk, slot, client, tasks, stored>>

\* The lock is granted: close is done, load and config_mode finish at once.
HandlerLocks ==
  /\ Yielded
  /\ handler.at = "lock" /\ handler.kind # "config_model"
  /\ lock = "free"
  /\ mode' = CASE handler.kind = "load"        -> "ask"
               [] handler.kind = "config_mode" -> handler.arg
               [] handler.kind = "close"       -> mode
  /\ delivered' = IF handler.kind = "load" THEN FALSE ELSE delivered
  /\ handler' = Idle
  /\ UNCHANGED <<run, flag, perm, disk, session, active, lock, client, tasks, stored>>

\* Mutant: the lock is taken for granted.
ConfigModelUnlocked ==
  /\ Yielded
  /\ handler.at = "lock" /\ handler.kind = "config_model"
  /\ lock' = "handler"
  /\ handler' = [handler EXCEPT !.at = "save",
                                !.persisted = [session EXCEPT !.model = handler.arg]]
  /\ UNCHANGED <<agent, disk, session, active, mode, client, tasks, stored>>

ConfigModelLocks ==
  /\ Yielded
  /\ handler.at = "lock" /\ handler.kind = "config_model"
  /\ lock = "free"
  /\ lock' = "handler"
  /\ handler' = [handler EXCEPT !.at = "save",
                                !.persisted = [session EXCEPT !.model = handler.arg]]
  /\ UNCHANGED <<agent, disk, session, active, mode, client, tasks, stored>>

ConfigModelSaved ==
  /\ Yielded
  /\ handler.at = "save"
  /\ session' = handler.persisted
  /\ disk' = handler.persisted
  /\ stored' = TRUE
  /\ lock' = "free"
  /\ handler' = Idle
  /\ UNCHANGED <<agent, active, mode, client, tasks>>

ConfigModelFails ==
  /\ Yielded
  /\ handler.at = "save"
  /\ lock' = "free"
  /\ handler' = Idle
  /\ UNCHANGED <<agent, disk, session, active, mode, client, tasks, stored>>

Handlers ==
  \/ HandlePrompt \/ HandleAnswer \/ HandleCancel \/ HandleSetMode \/ HandleConfig
  \/ HandleClose \/ HandleLoad \/ LoadBuilt \/ LoadFails \/ HandlerLocks
  \/ ConfigModelLocks \/ ConfigModelSaved \/ ConfigModelFails

-----------------------------------------------------------------------------
(* FxRuntime::prompt, in its task.                                         *)

\* The task gets the lock at once or is refused.
StartPrompt ==
  /\ Yielded
  /\ tasks > 0
  /\ tasks' = tasks - 1
  /\ IF active /\ lock = "free" /\ handler.at # "lock"
     THEN /\ lock' = "prompt"
          /\ run' = [NoRun EXCEPT !.at = "gateway"]
     ELSE UNCHANGED <<lock, run>>
  /\ UNCHANGED <<flag, perm, delivered, disk, session, active, mode, client, handler, stored>>

\* The prompt returns and drops the lock.
Release ==
  /\ run' = NoRun
  /\ lock' = "free"

\* No gateway: the credentials are missing, say.
GatewayRefused ==
  /\ run.at = "gateway"
  /\ Release
  /\ UNCHANGED <<flag, perm, delivered, disk, session, active, mode, client, handler, tasks, stored>>

\* SessionCancellation::reset; the mode of the slot holds for this turn.
GatewayReady ==
  /\ run.at = "gateway"
  /\ flag' = FALSE
  /\ perm' = [perm EXCEPT !.mode = mode]
  /\ run' = [run EXCEPT !.at = "stage"]
  /\ UNCHANGED <<delivered, disk, slot, client, handler, tasks, stored>>

\* Prompts are told apart by their number.
StageSaved ==
  /\ run.at = "stage"
  /\ LET prompts == {i \in DOMAIN session.history : session.history[i].role = "user"}
     IN  session' = [session EXCEPT !.history = Append(@, User(Cardinality(prompts) + 1))]
  /\ disk' = session'
  /\ stored' = TRUE
  /\ run' = [run EXCEPT !.at = "loop", !.messages = session'.history]
  /\ UNCHANGED <<flag, perm, delivered, active, lock, mode, client, handler, tasks>>

StageFails ==
  /\ run.at = "stage"
  /\ Release
  /\ UNCHANGED <<flag, perm, delivered, disk, session, active, mode, client, handler, tasks, stored>>

\* append_uncommitted_response: unless the last answer has the same text.
Uncommitted(history) ==
  LET answers == {i \in DOMAIN history : history[i].role = "assistant"}
  IN  /\ run.partial > 0
      /\ answers # {} => history[Max(answers)].text # run.partial

AppendUncommitted(history) ==
  IF Uncommitted(history) THEN Append(history, Assistant(run.partial, << >>)) ELSE history

\* run_controlled has returned: what it did goes into the session.
TurnEnds ==
  /\ run.at = "stop"
  /\ CASE run.stop = "error" ->
            IF Uncommitted(session.history)
            THEN /\ session' = [session EXCEPT !.history = AppendUncommitted(@)]
                 /\ run' = [run EXCEPT !.at = "save"]
                 /\ UNCHANGED lock
            ELSE Release /\ UNCHANGED session
       [] run.stop # "error" ->
            /\ session' = [session EXCEPT !.history =
                 IF run.stop = "cancelled" THEN AppendUncommitted(run.messages) ELSE run.messages]
            /\ run' = [run EXCEPT !.at = "save"]
            /\ UNCHANGED lock
  /\ UNCHANGED <<flag, perm, delivered, disk, active, mode, client, handler, tasks, stored>>

TurnSaved ==
  /\ run.at = "save"
  /\ disk' = session
  /\ stored' = TRUE
  /\ Release
  /\ UNCHANGED <<flag, perm, delivered, session, active, mode, client, handler, tasks>>

TurnNotSaved ==
  /\ run.at = "save"
  /\ stored' = FALSE
  /\ Release
  /\ UNCHANGED <<flag, perm, delivered, disk, session, active, mode, client, handler, tasks>>

\* Steps of the agent loop; a question that is closed takes its answer along.
Agent ==
  /\ Progress \/ Provided
  /\ UNCHANGED <<disk, slot, client, handler, tasks, stored>>

QuestionCloses ==
  /\ ReviewCancelled \/ ReviewFails
  /\ DropAnswers
  /\ UNCHANGED <<disk, slot, sent, handler, tasks, stored>>

Turn ==
  \/ StartPrompt \/ GatewayRefused \/ GatewayReady \/ StageSaved \/ StageFails
  \/ TurnEnds \/ TurnSaved \/ TurnNotSaved \/ Agent \/ QuestionCloses

Next == Client \/ Handlers \/ Turn

Spec == Init /\ [][Next]_vars

\* What a turn does by itself goes on: the store answers, tools end, the
\* gateway polls the flag and so does the wait for a review.
Moves ==
  \/ StageSaved \/ StageFails \/ TurnEnds \/ TurnSaved \/ TurnNotSaved
  \/ Progress /\ UNCHANGED <<disk, slot, client, handler, tasks, stored>>
  \/ ReviewCancelled /\ DropAnswers /\ UNCHANGED <<disk, slot, sent, handler, tasks, stored>>

FairSpec == Spec /\ WF_vars(Moves)

-----------------------------------------------------------------------------
(* Correctness.                                                            *)

Roles == {"system", "user", "assistant", "tool"}
Results == {"provider", "invalid", "denied", "cancelled", "deferred", "ran"}

IsHistory(history) ==
  \A i \in DOMAIN history :
    /\ history[i].role \in Roles
    /\ history[i].text \in Nat
    /\ history[i].role = "tool" => history[i].result \in Results

\* The state has its types, and a call that got past its admission is in the
\* group that is being admitted.
TypeOK ==
  /\ IsHistory(disk.history) /\ disk.model \in Models
  /\ IsHistory(session.history) /\ session.model \in Models
  /\ active \in BOOLEAN /\ stored \in BOOLEAN /\ flag \in BOOLEAN /\ delivered \in BOOLEAN
  /\ lock \in {"free", "prompt", "handler"}
  /\ lock = "prompt" <=> run.at # "none"
  /\ mode \in ClientModes /\ perm.mode \in Modes
  /\ IsHistory(run.messages)
  /\ run.step <= MaxSteps
  /\ Len(run.outcomes) <= Len(run.calls)
  /\ \A i \in DOMAIN run.outcomes : run.outcomes[i] \in Results
  /\ run.at \in {"admit", "review", "start", "execute"} =>
       Len(run.outcomes) + run.group <= Len(run.calls)
  /\ handler.at \in {"none", "build", "lock", "save"}

\* A history without the instructions that are put in front of it.
Talk(history) ==
  LET talk[n \in 0 .. Len(history)] ==
        IF n = 0 THEN << >>
        ELSE IF history[n].role = "system" THEN talk[n - 1]
        ELSE Append(talk[n - 1], history[n])
  IN  talk[Len(history)]

\* The turn has committed its prompt and has not ended.
Running == run.at \notin {"none", "gateway", "stage", "save"}

\* The store, the session and the run hold one conversation at different
\* points: the store is never ahead, it is level when the last save succeeded,
\* and nobody else writes the session while a prompt runs.
HistoriesNest ==
  /\ active /\ lock = "free" =>
       /\ IsPrefix(Talk(disk.history), Talk(session.history))
       /\ stored => disk = session
  /\ Running => disk = session /\ IsPrefix(Talk(session.history), Talk(run.messages))

\* The results that follow an answer.
ResultsAfter(history, i) ==
  LET after == {n \in 0..(Len(history) - i) :
                  \A j \in (i + 1)..(i + n) : history[j].role = "tool"}
  IN  SubSeq(history, i + 1, i + Max(after))

\* The calls of an answer have a result each, in their order, or, after a
\* cancellation, none has one.
CallsAnswered ==
  \A i \in DOMAIN session.history :
    session.history[i].role = "assistant" =>
      LET results == ResultsAfter(session.history, i)
          answered == [k \in DOMAIN results |-> results[k].calls[1]]
      IN  answered \in {session.history[i].calls, << >>}

\* What a message adds to a sum over a turn.
Weight(m, of) ==
  CASE of = "text"    -> m.text
    [] of = "ran"     -> IF m.result = "ran" THEN 1 ELSE 0
    [] of = "calls"   -> IF m.role = "assistant" THEN Len(m.calls) ELSE 0
    [] of = "results" -> IF m.role = "tool" THEN 1 ELSE 0

\* The sum over the messages after the last prompt.
SincePrompt(history, of) ==
  LET sum[n \in 0 .. Len(history)] ==
        IF n = 0 THEN 0
        ELSE IF history[n].role = "user" THEN 0
        ELSE sum[n - 1] + Weight(history[n], of)
  IN  sum[Len(history)]

\* A turn that ends without an error keeps the result of every tool that ran
\* in it, also of those that a cancellation overtook; one that is not cancelled
\* keeps all the text the user saw, and has answered every call.
TurnKept ==
  run.at = "stop" /\ run.stop # "error" =>
    /\ SincePrompt(run.messages, "ran") = run.ran
    /\ run.stop # "cancelled" =>
         /\ SincePrompt(run.messages, "text") = run.visible
         /\ SincePrompt(run.messages, "calls") = SincePrompt(run.messages, "results")

\* Once the flag is up, no request goes to a provider and no tool starts.
StopsWhenCancelled ==
  [][flag /\ flag' /\ run'.at \in {"model", "execute"} => run.at = run'.at]_vars

\* A turn that is cancelled after its flag was reset comes to an end, whoever
\* else waits for it.
CancelEnds == flag /\ run.at \notin {"none", "gateway"} ~> run.at = "none"

\* The documented reason for running prompts in tasks of their own: the answer
\* to an open question and a cancellation can be dispatched
\* (docs/architecture.md, "Semantic contracts").
AnswerDispatchable == ~(AwaitsUser /\ ~flag /\ handler.at = "lock")

\* The documented promise of a generation that fails or is cancelled: what the
\* user saw of the answer is kept (docs/architecture.md, "Semantic contracts").
\* A run that ends in "model" has no open calls.
VisibleTextKept ==
  [][TurnEnds /\ run.stop \in {"error", "cancelled"} /\ run.calls = << >> =>
       SincePrompt(session'.history, "text") = run.visible]_vars
=============================================================================
