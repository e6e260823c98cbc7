--------------------------- MODULE GatewayStream ---------------------------
(***************************************************************************)
(* One completion: fx-runtime's ThreadedGateway, which waits for a thread  *)
(* and looks at the cancellation; in the thread fx-core's SafeRetryGateway *)
(* and one of the transports of fx-provider, which sends the request and   *)
(* assembles the answer from the server-sent events of the provider.       *)
(*                                                                         *)
(* A text or an argument string is sent in two pieces: 0, 1 and 2 of them  *)
(* are nothing, a half (not JSON) and the whole.  An event of the sink is  *)
(* <<item, n>>: the nth piece of a message, or for n = 0 ToolStarted.      *)
(***************************************************************************)
EXTENDS Naturals, Sequences, SequencesExt

CONSTANTS
  Texts,       \* message items of the answer
  Functions,   \* calls of the answer; the provider may execute them
  Searches,    \* Codex's web searches
  Outputs,     \* the lists of items a terminal event of Codex may repeat
  MaxRetries   \* max_unsent_retries

\* An item is of one kind; a terminal event repeats items.
ASSUME GatewayAssumption ==
  /\ Texts \cap Functions = {} /\ Texts \cap Searches = {} /\ Functions \cap Searches = {}
  /\ Outputs \subseteq Seq(Texts \cup Functions \cup Searches) /\ MaxRetries \in Nat

Items == Texts \cup Functions \cup Searches

VARIABLES
  kind,     \* "codex" or "vercel"
  style,    \* what this provider's answer is like
  wire,     \* what the provider has sent of each item
  at,       \* the thread
  retries, posted,
  state,    \* StreamState, VercelStreamState
  events,   \* what the thread has emitted
  result,   \* what the thread has come to
  outcome   \* what complete has returned

gatewayVars == <<kind, style, wire, at, retries, posted, state, events, result, outcome>>
thread == <<kind, style, at, retries, posted, result>>

Empty == [content |-> <<>>, streamed |-> FALSE, calls |-> <<>>, pending |-> {},
          searches |-> <<>>, error |-> FALSE, reason |-> "none"]

-----------------------------------------------------------------------------
(* complete, its retries and its cancellation.                             *)

\* build_codex_request_body, build_vercel_request_body: a history with arguments that are
\* no JSON, or with a result without its call, is not sent.
Unbuildable ==
  /\ at = "connect" /\ retries = 0 /\ at' = "closed" /\ result' = "invalid"
  /\ UNCHANGED <<kind, style, wire, retries, posted, state, events, outcome>>

\* map_send_error: the kinds of error that cannot follow the delivery, and those that may.
SendErrors == {"unsent", "ambiguous", "auth", "rejected"}

\* Mutant: whatever the transport could not do is tried again.
RetriedAny == {"unsent", "ambiguous"}
Retried == {"unsent"}

SendFails(error) ==
  /\ at = "connect"
  /\ \E delivered \in CASE error = "unsent" -> {0} [] error = "ambiguous" -> {0, 1}
                        [] OTHER -> {1} : posted' = posted + delivered
  /\ IF error \in Retried /\ retries < MaxRetries
     THEN retries' = retries + 1 /\ UNCHANGED <<at, result>>
     ELSE at' = "closed" /\ result' = error /\ UNCHANGED retries
  /\ UNCHANGED <<kind, style, wire, state, events, outcome>>

Sent ==
  /\ at = "connect" /\ at' = "stream" /\ posted' = posted + 1
  /\ UNCHANGED <<kind, style, wire, retries, state, events, outcome, result>>

\* The stream ends, or cannot be read, before its terminal event.
Broken ==
  /\ at = "stream" /\ at' = "closed"
  /\ result' \in {"invalid", "ambiguous"}
  /\ UNCHANGED <<kind, style, wire, retries, posted, state, events, outcome>>

\* ThreadedGateway::complete: the messages of the thread, in their order, and its result.
Return ==
  /\ outcome = "none" /\ result # "none" /\ outcome' = result
  /\ UNCHANGED <<thread, wire, state, events>>

\* The flag is set first: the thread is left to itself, and goes on.
Abandon ==
  /\ outcome = "none" /\ outcome' = "cancelled"
  /\ UNCHANGED <<thread, wire, state, events>>

-----------------------------------------------------------------------------
(* An event of the provider: what is left of the state, and what is said.  *)

\* What StreamState::finish makes of the state.  Of several searches the first is kept.
Finished(s) ==
  IF s.error THEN "rejected"
  ELSE IF kind = "vercel" /\ s.pending # {} THEN "invalid"
  ELSE "response"

Receive(s, said, sends) ==
  /\ at = "stream" /\ wire' = sends
  /\ state' = s /\ events' = events \o said
  /\ UNCHANGED <<thread, outcome>>

Refuse(sends) ==
  /\ at = "stream" /\ wire' = sends
  /\ at' = "closed" /\ result' = "invalid"
  /\ UNCHANGED <<kind, style, retries, posted, state, events, outcome>>

CloseStream(s) ==
  /\ at = "stream" /\ at' = "closed"
  /\ result' = Finished(s) /\ state' = s
  /\ UNCHANGED <<kind, style, wire, retries, posted, events, outcome>>

Sends(i, phase) == [wire EXCEPT ![i].phase = phase]
Piece(i) == <<i, wire[i].n + 1>>
Whole(i) == <<<<i, 1>>, <<i, 2>>>>
Id(i, final) == <<i, final>>
Call(i, final, n, provisional, local) ==
  [item |-> i, id |-> Id(i, final), n |-> n, valid |-> n # 1, provisional |-> provisional,
   local |-> local, answered |-> FALSE]
Of(s, i) == {p \in s.pending : p.item = i}
HasCall(s, id) == \E c \in ToSet(s.calls) : c.id = id

-----------------------------------------------------------------------------
(* Codex.                                                                  *)

\* capture_message_item: a whole text counts only if none was streamed.
CaptureMessage(s, i) == IF s.streamed THEN s ELSE [s EXCEPT !.content = Whole(i)]

\* finish_function: of the item's arguments if it has any, else of those streamed.
FinishFunction(s, i, carried) ==
  LET streamed == {p.n : p \in Of(s, i)}
      n == IF carried > 0 THEN carried ELSE IF streamed = {} THEN 0 ELSE CHOOSE k \in streamed : TRUE
  IN  [s EXCEPT !.pending = @ \ Of(s, i), !.calls = Append(@, Call(i, FALSE, n, FALSE, TRUE))]

CaptureSearch(s, i) ==
  IF i \in ToSet(s.searches) THEN s ELSE [s EXCEPT !.searches = Append(@, i)]

\* capture_output_item_added.  ASSUMED of the provider: an item is added empty, and all of it
\* follows in deltas or when it is done.  (The code would take a text or arguments that an
\* added item has, and append the deltas to them.)
Added(i) ==
  /\ kind = "codex" /\ wire[i].phase = "none"
  /\ LET sends == Sends(i, "open")
     IN  CASE i \in Functions ->
                Receive([state EXCEPT !.pending = @ \cup {[item |-> i, n |-> 0, ended |-> FALSE]}],
                        <<<<i, 0>>>>, sends)
           [] i \in Searches -> Receive(CaptureSearch(state, i), <<>>, sends)
           [] i \in Texts -> Receive(state, <<>>, sends)

Grown(s, i) == [s EXCEPT !.pending =
  {IF p.item = i THEN [p EXCEPT !.n = @ + 1] ELSE p : p \in @}]

\* response.output_text.delta and response.function_call_arguments.delta.
Delta(i) ==
  /\ kind = "codex" /\ wire[i].phase = "open" /\ wire[i].n < 2 /\ i \notin Searches
  /\ LET sends == [wire EXCEPT ![i].n = @ + 1]
     IN  IF i \in Functions THEN Receive(Grown(state, i), <<>>, sends)
         ELSE Receive([state EXCEPT !.content = Append(@, Piece(i)), !.streamed = TRUE],
                      <<Piece(i)>>, sends)

\* capture_output_item_done: also of an item that was never added, or a second time.
Done(i, carried) ==
  /\ kind = "codex" /\ wire[i].n # 1 /\ (carried = 0 => i \in Functions)
  /\ LET sends == Sends(i, "done")
     IN  CASE i \in Functions -> IF HasCall(state, Id(i, FALSE)) THEN Refuse(sends)
                                 ELSE Receive(FinishFunction(state, i, carried), <<>>, sends)
           [] i \in Searches -> Receive(CaptureSearch(state, i), <<>>, sends)
           [] i \in Texts -> wire[i].phase # "done" /\ Receive(CaptureMessage(state, i), <<>>, sends)

\* Mutant: a call of the terminal response is taken whether or not it was known.
RepeatAll(s, i) ==
  CASE i \in Functions -> FinishFunction(s, i, 2)
    [] i \in Searches -> CaptureSearch(s, i)
    [] i \in Texts -> CaptureMessage(s, i)

\* capture_terminal_response, for one item of the output.
Repeat(s, i) ==
  CASE i \in Functions -> IF \E c \in ToSet(s.calls) : c.item = i THEN s ELSE FinishFunction(s, i, 2)
    [] i \in Searches -> CaptureSearch(s, i)
    [] i \in Texts -> CaptureMessage(s, i)

Reason(s, fallback) == IF s.calls # <<>> THEN "toolCalls" ELSE fallback

\* All of the output, item by item.
Repeated(output) ==
  LET after[k \in 0 .. Len(output)] ==
        IF k = 0 THEN state ELSE Repeat(after[k - 1], output[k])
  IN  after[Len(output)]

\* response.completed and response.incomplete, with all, some or none of the items.
Terminal(output, fallback) ==
  /\ kind = "codex"
  /\ LET s == Repeated(output)
     IN  CloseStream([s EXCEPT !.reason = Reason(s, fallback)])

\* response.failed and error.
CodexError == kind = "codex" /\ CloseStream([state EXCEPT !.error = TRUE])

-----------------------------------------------------------------------------
(* Vercel.  style.streamed: the provider streams the inputs of the calls;  *)
(* style.renamed: its tool-call event has another id than the stream had;  *)
(* style.equal: the calls have the same name and arguments.                *)

TextDelta(i) ==
  /\ kind = "vercel" /\ i \in Texts /\ wire[i].n < 2
  /\ Receive([state EXCEPT !.content = Append(@, Piece(i))], <<Piece(i)>>,
             [wire EXCEPT ![i].n = @ + 1])

\* tool-input-start; started again before its call it is a duplicate.
InputStart(i) ==
  /\ kind = "vercel" /\ style.streamed /\ i \in Functions /\ wire[i].phase # "done"
  /\ IF Of(state, i) # {} \/ HasCall(state, Id(i, FALSE)) THEN Refuse(wire)
     ELSE Receive([state EXCEPT !.pending = @ \cup {[item |-> i, n |-> 0, ended |-> FALSE]}],
                  <<<<i, 0>>>>, Sends(i, "open"))

\* tool-input-delta and tool-input-end, which have to follow their start.
InputDelta(i) ==
  /\ kind = "vercel" /\ i \in Functions /\ wire[i].phase \in {"none", "open"} /\ wire[i].n < 2
  /\ LET sends == [wire EXCEPT ![i].n = @ + 1]
     IN  IF Of(state, i) = {} THEN Refuse(sends) ELSE Receive(Grown(state, i), <<>>, sends)

InputEnd(i) ==
  /\ kind = "vercel" /\ i \in Functions
  /\ wire[i].phase = "none" \/ (wire[i].phase = "open" /\ wire[i].n = 2)
  /\ LET ended == {IF p.item = i THEN [p EXCEPT !.ended = TRUE] ELSE p : p \in state.pending}
     IN  IF Of(state, i) = {} THEN Refuse(Sends(i, "ended"))
         ELSE Receive([state EXCEPT !.pending = ended], <<>>, Sends(i, "ended"))

\* json_arguments_equivalent of whole arguments, names being equal.
Equivalent(i, p) == p.n = 2 /\ (i = p.item \/ style.equal)

\* The input a tool-call event belongs to: that of its id, or the only one it can be.
Candidates(s, i, final) ==
  IF ~final /\ Of(s, i) # {} THEN Of(s, i)
  ELSE {p \in s.pending : p.ended /\ Equivalent(i, p)}

Match(s, i, final) ==
  LET found == Candidates(s, i, final)
  IN  IF \E p \in found : found = {p} THEN found ELSE {}

\* capture_vercel_tool_call.
ToolCall(i, local) ==
  /\ kind = "vercel" /\ i \in Functions
  /\ wire[i].phase \in (IF style.streamed THEN {"ended", "done"} ELSE {"none", "done"})
  /\ LET final == style.renamed
         found == Match(state, i, final)
         renames == \E p \in found : Id(p.item, FALSE) # Id(i, final)
         sends == Sends(i, "done")
     IN  IF HasCall(state, Id(i, final)) THEN Refuse(sends)
         ELSE Receive([state EXCEPT !.pending = @ \ found,
                                    !.calls = Append(@, Call(i, final, 2, renames, local))],
                      IF found = {} THEN <<<<i, 0>>>> ELSE <<>>, sends)

\* capture_vercel_tool_result.
ToolResult(i) ==
  /\ kind = "vercel" /\ i \in Functions
  /\ IF \E c \in ToSet(state.calls) : c.item = i /\ ~c.local
     THEN Receive([state EXCEPT !.calls = [k \in DOMAIN @ |->
                     IF @[k].item = i THEN [@[k] EXCEPT !.answered = TRUE] ELSE @[k]]], <<>>, wire)
     ELSE Refuse(wire)

\* An error event does not end the stream.
VercelError ==
  /\ kind = "vercel" /\ ~state.error
  /\ Receive([state EXCEPT !.error = TRUE], <<>>, wire)

Finish(reason) ==
  /\ kind = "vercel"
  /\ CloseStream([state EXCEPT !.reason = reason, !.error = @ \/ reason = "error"])

-----------------------------------------------------------------------------
GatewayInit ==
  /\ kind \in {"codex", "vercel"}
  /\ style \in [streamed : BOOLEAN, renamed : BOOLEAN, equal : BOOLEAN]
  /\ kind = "codex" => style = [streamed |-> TRUE, renamed |-> FALSE, equal |-> FALSE]
  /\ wire = [i \in Items |-> [phase |-> "none", n |-> 0]]
  /\ at = "connect" /\ retries = 0 /\ posted = 0
  /\ state = Empty /\ events = <<>>
  /\ result = "none" /\ outcome = "none"

GatewayNext ==
  \/ Unbuildable \/ (\E error \in SendErrors : SendFails(error)) \/ Sent \/ Broken
  \/ Abandon \/ Return
  \/ \E i \in Items : Added(i) \/ Delta(i) \/ Done(i, 0) \/ Done(i, 2)
  \/ \E output \in Outputs, fallback \in {"stop", "length"} : Terminal(output, fallback)
  \/ CodexError
  \/ \E i \in Items : \/ TextDelta(i) \/ InputStart(i) \/ InputDelta(i) \/ InputEnd(i)
                      \/ ToolCall(i, TRUE) \/ ToolCall(i, FALSE) \/ ToolResult(i)
  \/ VercelError
  \/ \E reason \in {"stop", "error"} : Finish(reason)

-----------------------------------------------------------------------------
Once(seq) == \A j, k \in DOMAIN seq : seq[j] = seq[k] => j = k

GatewayTypeOK ==
  /\ at \in {"connect", "stream", "closed"} /\ (at = "closed" <=> result # "none")
  /\ retries \in 0 .. MaxRetries
  /\ \A p \in state.pending : p.item \in Functions /\ p.n \in 0 .. 2
  /\ outcome \in {"none", "cancelled", result}

\* No text is in the answer twice, and all that was shown is in it.
TextOnce ==
  /\ Once(state.content)
  /\ \A e \in ToSet(events) : e[2] > 0 => e \in ToSet(state.content)

\* A call is in the answer once, with all the arguments that were streamed for it.
CallsWhole ==
  \A j \in DOMAIN state.calls :
    LET c == state.calls[j]
    IN  /\ \A k \in DOMAIN state.calls : c.id = state.calls[k].id => j = k
        /\ c.valid /\ c.n = 0 => wire[c.item].n = 0

\* Nothing is announced twice.
StartsOnce == \A j, k \in DOMAIN events : events[j][2] = 0 /\ events[j] = events[k] => j = k

\* What Vercel's answer announced is in it.
StartsAnswered ==
  kind = "vercel" /\ result = "response" =>
    \A e \in ToSet(events) : e[2] = 0 => \E c \in ToSet(state.calls) : c.item = e[1]

\* The answer is what was streamed, whatever of it the provider repeats as finished items
\* and in its terminal event, whether inputs are streamed, and whichever ids they have.
StreamFaithful == result = "response" => TextOnce /\ CallsWhole /\ StartsOnce /\ StartsAnswered

\* A request is delivered once, however often it was tried: no generation is paid twice.
DeliveredOnce == posted <= 1 /\ (result = "unsent" => posted = 0)
=============================================================================
