---------------------------- MODULE RuntimeProofs ----------------------------
(***************************************************************************)
(* Proofs about RuntimeSession, for any rules, batches of tool calls,      *)
(* models and bounds: what the store, the session and the run hold of one  *)
(* conversation, and that every call in it has its result.                 *)
(***************************************************************************)
EXTENDS RuntimeSession, SequenceTheorems, NaturalLemmas

-----------------------------------------------------------------------------
(* The types, in full.                                                     *)

Places == {"none", "gateway", "stage", "loop", "model", "select", "call", "admit", "review",
           "start", "execute", "stop", "save"}
Verdicts == {"provider", "invalid", "denied", "cancelled", "go"}
Stops == {"none", "limit", "cancelled", "complete", "error"}

MessageRecord ==
  [role : {"system", "user", "assistant"}, text : Nat, calls : Seq(CallRecord), result : {"none"}]
    \cup [role : {"tool"}, text : {0}, calls : Seq(CallRecord), result : Results]

History == Seq(MessageRecord)
SessionRecord == [history : History, model : Models]

RunRecord ==
  [at : Places, messages : History, step : Nat, text : Nat, partial : Nat,
   calls : Seq(CallRecord), delayed : SUBSET Nat, outcomes : Seq(Results), group : Nat,
   admitted : Seq(Verdicts), reviewer : {"none", "user", "model"}, stop : Stops, ran : Nat,
   visible : Nat]

ClientMessage ==
  [kind : {"prompt"}, arg : {"none"}] \cup [kind : {"answer"}, arg : {"once", "session", "deny"}]
    \cup RequestRecord

-----------------------------------------------------------------------------
(* The inductive invariant.                                                *)

Admission == {"admit", "review", "start", "execute"}
Batch == {"select", "call"} \cup Admission

\* The batch that is worked on: which of its calls have an outcome, which are
\* in the group that is being admitted.
RunOK ==
  /\ run \in RunRecord
  /\ run.step <= MaxSteps
  /\ run.at \in {"none", "gateway", "stage", "loop", "model"} => run.calls = << >>
  /\ Len(run.outcomes) <= Len(run.calls)
  /\ run.delayed \subseteq 1 .. Len(run.calls)
  /\ run.at \in Admission => Len(run.outcomes) + run.group <= Len(run.calls)
  /\ run.at \in {"admit", "review"} => Len(run.admitted) < run.group
  /\ run.at \in {"start", "execute"} => Len(run.admitted) = run.group
  /\ run.at = "review" => run.reviewer # "none"

PermOK == perm.mode \in Modes /\ perm = [mode |-> perm.mode, grants |-> perm.grants]

\* What the handler that has not returned waits for.
HandlerOK ==
  \/ handler = Idle
  \/ active /\ handler = Awaits([kind |-> "load", arg |-> "none"], "build")
  \/ \E m \in RequestRecord :
       /\ m.kind \in {"load", "close", "config_mode", "config_model"}
       /\ active <=> m.kind # "close"
       /\ handler = Awaits(m, "lock")
  \/ \E model \in Models :
       /\ active
       /\ handler = [kind |-> "config_model", arg |-> model, at |-> "save",
                     persisted |-> [session EXCEPT !.model = model]]

\* Who has the lock of the slot.  A slot that is not registered any more is
\* locked only by the prompt that close waits for.
LockOK ==
  /\ lock \in {"free", "prompt", "handler"}
  /\ lock = "prompt" <=> run.at # "none"
  /\ lock = "handler" <=> handler.at = "save"
  /\ ~active => lock = "free" \/ (handler.at = "lock" /\ handler.kind = "close")

DataOK ==
  /\ disk \in SessionRecord /\ session \in SessionRecord
  /\ active \in BOOLEAN /\ stored \in BOOLEAN /\ flag \in BOOLEAN /\ delivered \in BOOLEAN
  /\ mode \in ClientModes
  /\ inbox \in Seq(ClientMessage)
  /\ tasks \in Nat /\ sent \in Nat

\* The store is behind the session by what the last turn could not save; while
\* a turn runs it is not, and the run is ahead of both.
NestOK ==
  /\ IsPrefix(Talk(disk.history), Talk(session.history))
  /\ stored /\ run.at # "save" => disk = session
  /\ Running => disk = session /\ IsPrefix(Talk(session.history), Talk(run.messages))

\* Each answer is followed by a result per call, in order, or by none.
Answered(history) ==
  \A i \in DOMAIN history :
    history[i].role = "assistant" =>
      \E n \in {0, Len(history[i].calls)} :
        /\ i + n <= Len(history)
        /\ \A j \in 1 .. n : /\ history[i + j].role = "tool"
                             /\ history[i + j].calls[1] = history[i].calls[j]
        /\ i + n < Len(history) => history[i + n + 1].role # "tool"

\* While a batch is worked on, the answer that asked for it is the last message.
AnswersOK ==
  /\ Answered(disk.history) /\ Answered(session.history) /\ Answered(run.messages)
  /\ run.at \in Batch =>
       /\ run.messages # << >>
       /\ run.messages[Len(run.messages)].role = "assistant"
       /\ run.messages[Len(run.messages)].calls = run.calls

TypesOK == RunOK /\ PermOK /\ DataOK /\ LockOK /\ HandlerOK

IInv == TypesOK /\ NestOK /\ AnswersOK

-----------------------------------------------------------------------------
(* What the model chooses exists.                                          *)

LEMMA FunctionIsSeq ==
  ASSUME NEW S, NEW n \in Nat, NEW f \in [1 .. n -> S]
  PROVE  f \in Seq(S) /\ Len(f) = n
<1>1. f \in Seq(S)
  BY SeqDef
<1>2. DOMAIN f = 1 .. n /\ DOMAIN f = 1 .. Len(f) /\ Len(f) \in Nat
  BY <1>1, LenProperties
<1>3. \A k \in Nat : 1 .. n = 1 .. k => k = n
  <2> SUFFICES ASSUME NEW k \in Nat, 1 .. n = 1 .. k
               PROVE  k = n
    OBVIOUS
  <2>1. ~(n < k)
    <3>1. n + 1 \in 1 .. k => n + 1 \in 1 .. n
      OBVIOUS
    <3> QED
      BY <3>1
  <2>2. ~(k < n)
    <3>1. k + 1 \in 1 .. n => k + 1 \in 1 .. k
      OBVIOUS
    <3> QED
      BY <3>1
  <2> QED
    BY <2>1, <2>2
<1> QED
  BY <1>1, <1>2, <1>3

\* The rule that counts is the last that matches: the decision is one of four.
LEMMA DecideType ==
  ASSUME NEW m \in Modes, NEW grants, NEW call \in CallRecord
  PROVE  Decide(m, grants, call) \in {"allow", "ask", "deny", "review"}
<1> DEFINE matching == {i \in DOMAIN Rules : call.target \in Rules[i].targets}
<1>1. /\ Len(Rules) \in Nat /\ DOMAIN Rules = 1 .. Len(Rules)
      /\ \A i \in DOMAIN Rules : Rules[i].action \in {"allow", "ask", "deny"}
  <2> DEFINE R == [targets : SUBSET STRING, action : {"allow", "ask", "deny"}]
  <2>1. \A r \in R : r.action \in {"allow", "ask", "deny"}
    OBVIOUS
  <2> HIDE DEF R
  <2>2. Rules \in Seq(R)
    BY RulesAssumption DEF R
  <2> QED
    BY <2>1, <2>2
<1>2. ASSUME matching # {}
      PROVE  \E i \in matching : \A j \in matching : j <= i
  <2> DEFINE T == {Len(Rules) - i : i \in matching}
  <2>1. T \in SUBSET Nat /\ T # {}
    BY <1>1, <1>2
  <2>2. PICK n \in T : \A m_1 \in T : n <= m_1
    <3> HIDE DEF T
    <3> QED
      BY <2>1, LeastNatural
  <2>3. PICK i \in matching : n = Len(Rules) - i
    OBVIOUS
  <2>4. ASSUME NEW j \in matching
        PROVE  j <= i
    <3>1. n <= Len(Rules) - j
      BY <2>2
    <3> QED
      BY <3>1, <2>3, <1>1
  <2> QED
    BY <2>4
<1>3. Configured(call.target) \in {"unset", "allow", "ask", "deny"}
  <2>1. CASE matching = {}
    BY <2>1 DEF Configured
  <2>2. CASE matching # {}
    <3>1. (CHOOSE i \in matching : \A j \in matching : j <= i) \in DOMAIN Rules
      BY <1>2, <2>2
    <3> QED
      BY <3>1, <2>2, <1>1 DEF Configured
  <2> QED
    BY <2>1, <2>2
<1> QED
  BY <1>3 DEF Decide, AutomaticBaseline

\* The fields of the run, one by one.
LEMMA RunTypes ==
  ASSUME RunOK
  PROVE  /\ run.at \in Places /\ run.messages \in History /\ run.step \in Nat
         /\ run.text \in Nat /\ run.partial \in Nat /\ run.calls \in Seq(CallRecord)
         /\ run.outcomes \in Seq(Results) /\ run.group \in Nat /\ run.admitted \in Seq(Verdicts)
         /\ run.reviewer \in {"none", "user", "model"} /\ run.stop \in Stops
         /\ run.ran \in Nat /\ run.visible \in Nat
         /\ Len(run.calls) \in Nat /\ Len(run.outcomes) \in Nat /\ Len(run.admitted) \in Nat
         /\ Index \in Nat \ {0}
<1>1. run \in RunRecord
  BY DEF RunOK
<1>2. /\ run.at \in Places /\ run.messages \in History /\ run.step \in Nat
      /\ run.text \in Nat /\ run.partial \in Nat /\ run.calls \in Seq(CallRecord)
      /\ run.outcomes \in Seq(Results) /\ run.group \in Nat /\ run.admitted \in Seq(Verdicts)
      /\ run.reviewer \in {"none", "user", "model"} /\ run.stop \in Stops
      /\ run.ran \in Nat /\ run.visible \in Nat
  BY <1>1 DEF RunRecord
<1>3. Len(run.calls) \in Nat /\ Len(run.outcomes) \in Nat /\ Len(run.admitted) \in Nat
  BY <1>2, LenProperties
<1>4. Index \in Nat \ {0}
  BY <1>3 DEF Index
<1> QED
  BY <1>2, <1>3, <1>4

\* parallel_read_prefix_len does not reach past the batch.
LEMMA ReadPrefixBound ==
  ASSUME RunOK, Index <= Len(run.calls)
  PROVE  ReadPrefix \in 0 .. (Len(run.calls) - Index + 1)
<1> DEFINE reads(n) == \A i \in Index .. (Index + n - 1) :
                         Local(run.calls[i]) /\ run.calls[i].effect = "read"
           left == Len(run.calls) - Index + 1
           T == {n \in 0 .. left : n = left \/ ~reads(n + 1)}
<1>1. left \in Nat /\ Index \in Nat
  <2>1. Len(run.calls) \in Nat /\ Index \in Nat
    BY RunTypes
  <2> QED
    BY <2>1
<1>2. left \in T /\ T \in SUBSET Nat
  BY <1>1
<1>3. PICK n \in T : \A m \in T : n <= m
  <2> HIDE DEF T
  <2> QED
    BY <1>2, LeastNatural
<1>4. reads(n)
  <2>1. CASE n = 0
    BY <2>1, <1>1
  <2>2. CASE n # 0
    <3>1. n \in 0 .. left
      OBVIOUS
    <3>2. n - 1 \in 0 .. left
      BY <3>1, <2>2, <1>1
    <3>3. n - 1 \notin T
      <4> HIDE DEF T
      <4> QED
        BY <3>1, <3>2, <1>1, <1>3
    <3>4. reads((n - 1) + 1)
      BY <3>2, <3>3
    <3>5. (n - 1) + 1 = n
      BY <1>1
    <3> QED
      BY <3>4, <3>5
  <2> QED
    BY <2>1, <2>2
<1>5. \E k \in 0 .. left : reads(k) /\ (k = left \/ ~reads(k + 1))
  BY <1>3, <1>4
<1> QED
  BY <1>5 DEF ReadPrefix

\* insert_stable_system_context puts one message behind the leading instructions.
LEMMA Inserted ==
  ASSUME NEW h \in History
  PROVE  \E p \in 0 .. Len(h) :
           /\ \A i \in 1 .. p : h[i].role = "system"
           /\ p = Len(h) \/ h[p + 1].role # "system"
           /\ InsertSystem(h) \in History /\ Len(InsertSystem(h)) = Len(h) + 1
           /\ \A i \in 1 .. p : InsertSystem(h)[i] = h[i]
           /\ InsertSystem(h)[p + 1] = System
           /\ \A i \in (p + 1) .. Len(h) : InsertSystem(h)[i + 1] = h[i]
<1> DEFINE Fits(n) == /\ \A i \in 1 .. n : h[i].role = "system"
                      /\ n = Len(h) \/ h[n + 1].role # "system"
           T == {n \in 0 .. Len(h) : n = Len(h) \/ h[n + 1].role # "system"}
           p == CHOOSE n \in 0 .. Len(h) : Fits(n)
<1>1. Len(h) \in Nat /\ \A i \in 1 .. Len(h) : h[i] \in MessageRecord
  BY DEF History
<1>2. PICK n \in T : \A m \in T : n <= m
  <2>1. Len(h) \in T /\ T \in SUBSET Nat
    BY <1>1
  <2> HIDE DEF T
  <2> QED
    BY <2>1, LeastNatural
<1>3. ASSUME NEW i \in 1 .. n
      PROVE  h[i].role = "system"
  <2>1. i - 1 \in 0 .. Len(h) /\ i - 1 \notin T
    BY <1>1, <1>2
  <2>2. (i - 1) + 1 = i
    OBVIOUS
  <2> QED
    BY <2>1, <2>2
<1>4. p \in 0 .. Len(h) /\ Fits(p)
  BY <1>2, <1>3
<1>5. InsertSystem(h) = SubSeq(h, 1, p) \o <<System>> \o SubSeq(h, p + 1, Len(h))
  <2>1. InsertSystem(h) = SubSeq(h, 1, (p + 1) - 1) \o <<System>> \o SubSeq(h, p + 1, Len(h))
    BY DEF InsertSystem, InsertAt
  <2>2. (p + 1) - 1 = p
    <3> HIDE DEF p
    <3> QED
      BY <1>1, <1>4
  <2> QED
    BY <2>1, <2>2
<1> HIDE DEF p
<1>6. System \in MessageRecord
  BY DEF System, Message, MessageRecord
<1>7. /\ SubSeq(h, 1, p) \in History /\ Len(SubSeq(h, 1, p)) = p
      /\ \A i \in 1 .. p : SubSeq(h, 1, p)[i] = h[i]
  BY <1>1, <1>4, SubSeqProperties DEF History
<1>8. /\ SubSeq(h, p + 1, Len(h)) \in History /\ Len(SubSeq(h, p + 1, Len(h))) = Len(h) - p
      /\ \A i \in 1 .. (Len(h) - p) : SubSeq(h, p + 1, Len(h))[i] = h[p + i]
  BY <1>1, <1>4, SubSeqProperties DEF History
<1> DEFINE a == SubSeq(h, 1, p)
           b == SubSeq(h, p + 1, Len(h))
<1> HIDE DEF a, b
<1>9. /\ a \o <<System>> \o b \in History
      /\ Len(a \o <<System>> \o b) = Len(h) + 1
      /\ \A i \in 1 .. p : (a \o <<System>> \o b)[i] = h[i]
      /\ (a \o <<System>> \o b)[p + 1] = System
      /\ \A i \in (p + 1) .. Len(h) : (a \o <<System>> \o b)[i + 1] = b[i - p]
  <2>1. a \in History /\ Len(a) = p /\ \A i \in 1 .. p : a[i] = h[i]
    BY <1>7 DEF a
  <2>2. b \in History /\ Len(b) = Len(h) - p
    BY <1>8 DEF b
  <2> QED
    BY <2>1, <2>2, <1>1, <1>4, <1>6 DEF History
<1>10. \A i \in (p + 1) .. Len(h) : b[i - p] = h[i]
  BY <1>8, <1>4, <1>1 DEF b
<1> QED
  BY <1>4, <1>5, <1>9, <1>10 DEF a, b

-----------------------------------------------------------------------------
(* A step of the agent loop keeps the batch in order.                      *)

LEMMA StoppedOK ==
  ASSUME RunOK, NEW reason \in Stops, run' = Stopped(reason)
  PROVE  RunOK'
<1>1. run \in RunRecord /\ "stop" \in Places
  BY DEF RunOK, Places
<1>2. /\ run' \in RunRecord /\ run'.at = "stop" /\ run'.calls = run.calls /\ run'.step = run.step
      /\ run'.outcomes = run.outcomes /\ run'.delayed = run.delayed
  BY <1>1 DEF RunRecord, Stopped
<1> QED
  BY <1>2 DEF RunOK, Admission

\* Empty values of each type.
LEMMA Empties ==
  /\ << >> \in Seq(CallRecord) /\ << >> \in Seq(Results) /\ << >> \in Seq(Verdicts)
  /\ {} \in SUBSET Nat /\ 0 \in Nat /\ << >> \in History
BY DEF History

LEMMA RequestOK ==
  ASSUME RunOK, AgentAssumption, LoopTop \/ Delta \/ Respond \/ GatewayCancelled \/ GatewayFails
  PROVE  RunOK'
<1>0. run \in RunRecord
  BY DEF RunOK
<1>1. CASE LoopTop
  <2>1. CASE run.step = MaxSteps \/ flag
    BY <1>1, <2>1, StoppedOK DEF LoopTop, Stops
  <2>2. CASE run.step # MaxSteps /\ ~flag
    <3>1. run.at = "loop" /\ run.step + 1 \in Nat /\ run.step + 1 <= MaxSteps
      BY <1>1, <2>2, RunTypes, AgentAssumption DEF LoopTop, RunOK
    <3>2. PICK n \in Nat, t \in Nat :
            n = run.step + 1 /\ run' = [run EXCEPT !.at = "model", !.step = n, !.text = t]
      BY <1>1, <2>2, <3>1, Empties, Zenon DEF LoopTop
    <3>3. "model" \in Places
      BY DEF Places
    <3>4. /\ run' \in RunRecord /\ run'.at = "model" /\ run'.calls = run.calls /\ run'.step = n
          /\ run'.outcomes = run.outcomes /\ run'.delayed = run.delayed
      BY <1>0, <3>2, <3>3 DEF RunRecord
    <3> QED
      BY <3>1, <3>2, <3>4 DEF RunOK, Admission
  <2> QED
    BY <2>1, <2>2
<1>2. CASE Delta
  <2>1. run.text + 1 \in Nat /\ run.partial + 1 \in Nat /\ run.visible + 1 \in Nat
    <3>1. run.text \in Nat /\ run.partial \in Nat /\ run.visible \in Nat
      BY <1>0 DEF RunRecord
    <3> QED
      BY <3>1
  <2>2. PICK t \in Nat, p \in Nat, v \in Nat :
          run' = [run EXCEPT !.text = t, !.partial = p, !.visible = v]
    BY <1>2, <2>1, Zenon DEF Delta
  <2>3. /\ run' \in RunRecord /\ run'.at = run.at /\ run'.calls = run.calls /\ run'.step = run.step
        /\ run'.outcomes = run.outcomes /\ run'.delayed = run.delayed
    BY <1>0, <2>2 DEF RunRecord
  <2> QED
    BY <1>2, <2>3 DEF Delta, RunOK, Admission
<1>3. CASE Respond
  <2>1. PICK calls \in Batches :
          LET answered == [run EXCEPT !.messages = Append(@, Assistant(run.text, calls))]
          IN  run' = IF flag THEN [answered EXCEPT !.at = "stop", !.stop = "cancelled"]
                     ELSE IF calls = << >> THEN [answered EXCEPT !.at = "stop", !.stop = "complete"]
                     ELSE [answered EXCEPT !.at = "select", !.calls = calls]
    BY <1>3 DEF Respond
  <2>2. calls \in Seq(CallRecord)
    BY AgentAssumption
  <2>3. Assistant(run.text, calls) \in MessageRecord
    BY <2>2, RunTypes DEF Assistant, Message, MessageRecord
  <2>4. Append(run.messages, Assistant(run.text, calls)) \in History
    BY <2>3, RunTypes DEF History
  <2>5. PICK new \in History :
          LET answered == [run EXCEPT !.messages = new]
          IN  \/ run' = [answered EXCEPT !.at = "stop", !.stop = "cancelled"]
              \/ run' = [answered EXCEPT !.at = "stop", !.stop = "complete"]
              \/ run' = [answered EXCEPT !.at = "select", !.calls = calls]
    BY <2>1, <2>4, Zenon
  <2>6. "stop" \in Places /\ "select" \in Places /\ "cancelled" \in Stops /\ "complete" \in Stops
    BY DEF Places, Stops
  <2>7. /\ run' \in RunRecord
        /\ run'.at \in {"stop", "select"} /\ run'.calls \in {run.calls, calls} /\ run'.step = run.step
        /\ run'.outcomes = run.outcomes /\ run'.delayed = run.delayed
    <3>1. CASE run' = [run EXCEPT !.messages = new, !.at = "stop", !.stop = "cancelled"]
      BY <1>0, <2>6, <3>1 DEF RunRecord
    <3>2. CASE run' = [run EXCEPT !.messages = new, !.at = "stop", !.stop = "complete"]
      BY <1>0, <2>6, <3>2 DEF RunRecord
    <3>3. CASE run' = [run EXCEPT !.messages = new, !.at = "select", !.calls = calls]
      BY <1>0, <2>2, <2>6, <3>3 DEF RunRecord
    <3> QED
      BY <2>5, <3>1, <3>2, <3>3
  <2>8. run.calls = << >> /\ Len(run.outcomes) = 0 /\ run.delayed = {}
    <3>1. run.calls = << >>
      BY <1>3 DEF Respond, RunOK
    <3> QED
      BY <3>1, RunTypes DEF RunOK
  <2>9. Len(run'.calls) \in Nat
    BY <2>2, <2>7, <2>8
  <2> QED
    BY <2>7, <2>8, <2>9 DEF RunOK, Admission
<1>4. CASE GatewayCancelled
  BY <1>4, StoppedOK DEF GatewayCancelled, Stops
<1>5. CASE GatewayFails
  BY <1>5, StoppedOK DEF GatewayFails, Stops
<1> QED
  BY <1>1, <1>2, <1>3, <1>4, <1>5

LEMMA BatchOK ==
  ASSUME RunOK, SelectContext \/ SelectFails \/ CollectResults \/ CancelRest \/ Defer \/ BeginGroup
  PROVE  RunOK'
<1>0. run \in RunRecord
  BY DEF RunOK
<1>1. CASE SelectContext
  <2> DEFINE scoped == {i \in DOMAIN run.calls : Local(run.calls[i]) /\ run.calls[i].scoped}
             writes == {i \in scoped : run.calls[i].effect # "read"}
  <2>1. \/ run' = [run EXCEPT !.at = "call", !.messages = InsertSystem(@), !.delayed = writes]
        \/ run' = [run EXCEPT !.at = "call", !.delayed = {}]
    BY <1>1 DEF SelectContext
  <2>2. InsertSystem(run.messages) \in History /\ writes \in SUBSET (1 .. Len(run.calls))
    BY RunTypes, Inserted
  <2> HIDE DEF scoped, writes
  <2>3. PICK d \in SUBSET (1 .. Len(run.calls)), new \in History :
          \/ run' = [run EXCEPT !.at = "call", !.messages = new, !.delayed = d]
          \/ run' = [run EXCEPT !.at = "call", !.delayed = d]
    <3>1. {} \in SUBSET (1 .. Len(run.calls))
      OBVIOUS
    <3> QED
      BY <2>1, <2>2, <3>1, Zenon
  <2>4. d \in SUBSET Nat /\ "call" \in Places
    BY RunTypes DEF Places
  <2>5. /\ run' \in RunRecord /\ run'.at = "call" /\ run'.calls = run.calls /\ run'.step = run.step
        /\ run'.outcomes = run.outcomes /\ run'.delayed = d
    <3>1. CASE run' = [run EXCEPT !.at = "call", !.messages = new, !.delayed = d]
      BY <1>0, <2>4, <3>1 DEF RunRecord
    <3>2. CASE run' = [run EXCEPT !.at = "call", !.delayed = d]
      BY <1>0, <2>4, <3>2 DEF RunRecord
    <3> QED
      BY <2>3, <3>1, <3>2, Zenon
  <2> QED
    BY <2>5 DEF RunOK, Admission
<1>2. CASE SelectFails
  BY <1>2, StoppedOK DEF SelectFails, Stops
<1>3. CASE CollectResults
  <2> DEFINE results == [i \in DOMAIN run.calls |-> ToolResult(run.calls[i], run.outcomes[i])]
  <2>1. Len(run.outcomes) = Len(run.calls)
    BY <1>3, RunTypes DEF CollectResults, RunOK, Index
  <2>2. \A i \in 1 .. Len(run.calls) : ToolResult(run.calls[i], run.outcomes[i]) \in MessageRecord
    <3> SUFFICES ASSUME NEW i \in 1 .. Len(run.calls)
                 PROVE  ToolResult(run.calls[i], run.outcomes[i]) \in MessageRecord
      OBVIOUS
    <3>1. run.calls[i] \in CallRecord /\ run.outcomes[i] \in Results
      BY <2>1, RunTypes
    <3> QED
      BY <3>1 DEF ToolResult, Message, MessageRecord
  <2>3. results \in History
    <3>1. DOMAIN run.calls = 1 .. Len(run.calls) /\ Len(run.calls) \in Nat
      BY RunTypes
    <3>2. results \in [1 .. Len(run.calls) -> MessageRecord]
      BY <2>2, <3>1
    <3> QED
      BY <3>1, <3>2, SeqDef DEF History
  <2>4. run.messages \o results \in History
    <3> HIDE DEF results
    <3> QED
      BY <2>3, RunTypes DEF History
  <2>5. PICK new \in History, c \in Seq(CallRecord), o \in Seq(Results), d \in SUBSET Nat :
          /\ c = << >> /\ o = << >> /\ d = {}
          /\ run' = [run EXCEPT !.at = "loop", !.calls = c, !.outcomes = o, !.delayed = d,
                                !.messages = new]
    BY <1>3, <2>4, Empties, Zenon DEF CollectResults
  <2>6. "loop" \in Places
    BY DEF Places
  <2>7. /\ run' \in RunRecord /\ run'.at = "loop" /\ run'.calls = c /\ run'.step = run.step
        /\ run'.outcomes = o /\ run'.delayed = d
    BY <1>0, <2>5, <2>6 DEF RunRecord
  <2> QED
    BY <2>5, <2>7 DEF RunOK, Admission
<1>4. CASE CancelRest
  <2> DEFINE k == Len(run.calls) - Index + 1
             rest == [i \in 1 .. k |-> "cancelled"]
  <2>1. k \in Nat /\ k = Len(run.calls) - Len(run.outcomes)
    BY <1>4, RunTypes DEF CancelRest, Index
  <2>2. rest \in Seq(Results) /\ Len(rest) = k
    <3> HIDE DEF k
    <3>1. "cancelled" \in Results
      BY DEF Results
    <3>2. rest \in [1 .. k -> Results]
      BY <3>1
    <3> HIDE DEF rest
    <3> QED
      BY <2>1, <3>2, FunctionIsSeq
  <2>3. run.outcomes \o rest \in Seq(Results) /\ Len(run.outcomes \o rest) = Len(run.calls)
    <3> HIDE DEF rest, k
    <3> QED
      BY <2>1, <2>2, RunTypes, ConcatProperties
  <2>4. PICK new \in Seq(Results) : Len(new) = Len(run.calls) /\ run' = [run EXCEPT !.outcomes = new]
    BY <1>4, <2>3, Zenon DEF CancelRest
  <2>5. /\ run' \in RunRecord /\ run'.at = run.at /\ run'.calls = run.calls /\ run'.step = run.step
        /\ run'.outcomes = new /\ run'.delayed = run.delayed
    BY <1>0, <2>4 DEF RunRecord
  <2>6. Len(run.calls) \in Nat /\ run.at = "call"
    BY <1>4, RunTypes DEF CancelRest
  <2> QED
    BY <2>4, <2>5, <2>6 DEF RunOK, Admission
<1>5. CASE Defer
  <2>1. Index \in 1 .. Len(run.calls)
    BY <1>5 DEF Defer, RunOK
  <2>2. /\ Append(run.outcomes, "deferred") \in Seq(Results)
        /\ Len(Append(run.outcomes, "deferred")) <= Len(run.calls)
    BY <2>1, RunTypes DEF Results, Index
  <2>3. PICK new \in Seq(Results), p \in Nat :
          Len(new) <= Len(run.calls) /\ run' = [run EXCEPT !.outcomes = new, !.partial = p]
    BY <1>5, <2>2, Empties, Zenon DEF Defer
  <2>4. /\ run' \in RunRecord /\ run'.at = run.at /\ run'.calls = run.calls /\ run'.step = run.step
        /\ run'.outcomes = new /\ run'.delayed = run.delayed
    BY <1>0, <2>3 DEF RunRecord
  <2> QED
    BY <1>5, <2>3, <2>4 DEF Defer, RunOK, Admission
<1>6. CASE BeginGroup
  <2> DEFINE g == IF ReadPrefix >= 2 THEN ReadPrefix ELSE 1
  <2>1. Index <= Len(run.calls)
    BY <1>6 DEF BeginGroup
  <2>2. g \in Nat /\ g # 0 /\ Len(run.outcomes) + g <= Len(run.calls)
    <3>1. ReadPrefix \in 0 .. (Len(run.calls) - Index + 1)
      BY <2>1, ReadPrefixBound
    <3>2. Index = Len(run.outcomes) + 1 /\ Len(run.outcomes) \in Nat /\ Len(run.calls) \in Nat
      BY RunTypes DEF Index
    <3>3. \A o, c \in Nat : \A p \in 0 .. (c - (o + 1) + 1) :
            o + 1 <= c => LET n == IF p >= 2 THEN p ELSE 1
                          IN  n \in Nat /\ n # 0 /\ o + n <= c
      OBVIOUS
    <3> QED
      BY <2>1, <3>1, <3>2, <3>3, Zenon
  <2>3. PICK n \in Nat, a \in Seq(Verdicts), p \in Nat :
          /\ n = g /\ a = << >>
          /\ run' = [run EXCEPT !.at = "admit", !.admitted = a, !.partial = p, !.group = n]
    BY <1>6, <2>2, Empties, Zenon DEF BeginGroup
  <2> HIDE DEF g
  <2>4. "admit" \in Places
    BY DEF Places
  <2>5. /\ run' \in RunRecord /\ run'.at = "admit" /\ run'.calls = run.calls /\ run'.step = run.step
        /\ run'.outcomes = run.outcomes /\ run'.delayed = run.delayed
        /\ run'.group = n /\ run'.admitted = a
    BY <1>0, <2>3, <2>4 DEF RunRecord
  <2> QED
    BY <2>2, <2>3, <2>5 DEF RunOK, Admission
<1> QED
  BY <1>1, <1>2, <1>3, <1>4, <1>5, <1>6

\* A call of the group that is decided moves the group on.
LEMMA AdmittedOK ==
  ASSUME RunOK, run.at \in {"admit", "review"}, NEW verdict \in Verdicts, run' = Admitted(verdict)
  PROVE  RunOK'
<1>1. run \in RunRecord /\ "start" \in Places /\ "admit" \in Places
  BY DEF RunOK, Places
<1>2. /\ Append(run.admitted, verdict) \in Seq(Verdicts)
      /\ Len(Append(run.admitted, verdict)) = Len(run.admitted) + 1
  BY RunTypes
<1>3. PICK a \in Seq(Verdicts) :
        /\ Len(a) = Len(run.admitted) + 1
        /\ run' = [run EXCEPT !.at = IF Len(run.admitted) + 1 = run.group THEN "start" ELSE "admit",
                              !.admitted = a]
  BY <1>2, Zenon DEF Admitted
<1>4. /\ run' \in RunRecord
      /\ run'.at = IF Len(run.admitted) + 1 = run.group THEN "start" ELSE "admit"
      /\ run'.calls = run.calls /\ run'.step = run.step /\ run'.outcomes = run.outcomes
      /\ run'.delayed = run.delayed /\ run'.group = run.group /\ run'.admitted = a
  BY <1>1, <1>3 DEF RunRecord
<1>5. /\ Len(run.admitted) < run.group /\ Len(run.outcomes) + run.group <= Len(run.calls)
      /\ Len(run.admitted) \in Nat /\ run.group \in Nat
  BY RunTypes DEF RunOK, Admission
<1> QED
  BY <1>3, <1>4, <1>5 DEF RunOK, Admission

LEMMA CandidateType ==
  ASSUME RunOK, run.at \in {"admit", "review"}
  PROVE  Candidate \in CallRecord
<1>1. Index + Len(run.admitted) \in 1 .. Len(run.calls)
  <2>1. /\ Len(run.admitted) < run.group /\ Len(run.outcomes) + run.group <= Len(run.calls)
        /\ Len(run.admitted) \in Nat /\ run.group \in Nat /\ Len(run.calls) \in Nat
        /\ Index = Len(run.outcomes) + 1 /\ Len(run.outcomes) \in Nat
    BY RunTypes DEF RunOK, Admission, Index
  <2>2. \A a, g, o, c \in Nat : a < g /\ o + g <= c => (o + 1) + a \in 1 .. c
    OBVIOUS
  <2> QED
    BY <2>1, <2>2, Zenon
<1> QED
  BY <1>1, RunTypes, ElementOfSeq DEF Candidate

LEMMA AdmitOK ==
  ASSUME RunOK, perm.mode \in Modes, Admit
  PROVE  RunOK'
<1>1. run.at = "admit" /\ Candidate \in CallRecord /\ run \in RunRecord
  BY CandidateType DEF Admit, RunOK
<1>2. Decide(perm.mode, perm.grants, Candidate) \in {"allow", "ask", "deny", "review"}
  BY <1>1, DecideType
<1>3. PICK verdict \in Verdicts, r \in {"user", "model"} :
        run' = Admitted(verdict) \/ run' = [run EXCEPT !.at = "review", !.reviewer = r]
  BY <1>2 DEF Admit, IfNotCancelled, Verdicts
<1>4. CASE run' = Admitted(verdict)
  BY <1>1, <1>4, AdmittedOK
<1>5. CASE run' = [run EXCEPT !.at = "review", !.reviewer = r]
  <2>1. "review" \in Places /\ r \in {"none", "user", "model"} /\ r # "none"
    BY DEF Places
  <2>2. /\ run' \in RunRecord /\ run'.at = "review" /\ run'.reviewer = r
        /\ run'.calls = run.calls /\ run'.step = run.step /\ run'.outcomes = run.outcomes
        /\ run'.delayed = run.delayed /\ run'.group = run.group /\ run'.admitted = run.admitted
    BY <1>1, <1>5, <2>1 DEF RunRecord
  <2> QED
    BY <1>1, <2>1, <2>2 DEF RunOK, Admission
<1> QED
  BY <1>3, <1>4, <1>5

LEMMA ReviewOK ==
  ASSUME RunOK, (\E answer : Reviewed(answer)) \/ ReviewFails
  PROVE  RunOK'
<1>1. ASSUME NEW answer, Reviewed(answer)
      PROVE  RunOK'
  <2>1. PICK verdict \in Verdicts : run' = Admitted(verdict)
    BY <1>1 DEF Reviewed, IfNotCancelled, Verdicts
  <2> QED
    BY <1>1, <2>1, AdmittedOK DEF Reviewed
<1>2. CASE ReviewFails
  BY <1>2, StoppedOK DEF ReviewFails, Stops
<1> QED
  BY <1>1, <1>2

\* The outcomes of the group follow those there are.
LEMMA GroupOutcomes ==
  ASSUME RunOK, run.at \in {"start", "execute"}, NEW go \in Results, NEW outcomes,
         outcomes = run.outcomes \o [i \in DOMAIN run.admitted |->
                                       IF run.admitted[i] = "go" THEN go ELSE run.admitted[i]]
  PROVE  outcomes \in Seq(Results) /\ Len(outcomes) <= Len(run.calls)
<1> DEFINE new == [i \in DOMAIN run.admitted |->
                     IF run.admitted[i] = "go" THEN go ELSE run.admitted[i]]
<1>1. DOMAIN run.admitted = 1 .. Len(run.admitted) /\ Len(run.admitted) \in Nat
  BY RunTypes
<1>2. \A i \in 1 .. Len(run.admitted) : run.admitted[i] \in Verdicts
  BY RunTypes
<1>3. \A v \in Verdicts : v = "go" \/ v \in Results
  BY DEF Verdicts, Results
<1>4. new \in [1 .. Len(run.admitted) -> Results]
  BY <1>1, <1>2, <1>3
<1>5. new \in Seq(Results)
  BY <1>1, <1>4, SeqDef
<1>6. Len(new) = Len(run.admitted)
  BY <1>1
<1> HIDE DEF new
<1>7. Len(run.outcomes \o new) = Len(run.outcomes) + Len(new) /\ run.outcomes \o new \in Seq(Results)
  BY <1>5, RunTypes, ConcatProperties
<1>8. Len(run.admitted) = run.group /\ Len(run.outcomes) + run.group <= Len(run.calls)
  BY DEF RunOK, Admission
<1> QED
  BY <1>6, <1>7, <1>8 DEF new

\* How many calls of the group start.
LEMMA GoingCount ==
  ASSUME RunOK
  PROVE  IsFiniteSet(Going) /\ Cardinality(Going) \in Nat
<1>1. DOMAIN run.admitted = 1 .. Len(run.admitted) /\ Len(run.admitted) + 1 \in Nat
  BY RunTypes
<1>2. Going \in SUBSET (0 .. ((Len(run.admitted) + 1) - 1))
  BY <1>1 DEF Going
<1> QED
  BY <1>1, <1>2, FirstNaturals, FS_Subset, FS_CardinalityType

LEMMA ToolsOK ==
  ASSUME RunOK, StartTools \/ FinishTools
  PROVE  RunOK'
<1>0. run \in RunRecord /\ "call" \in Places /\ "execute" \in Places
  BY DEF RunOK, Places
<1>1. ASSUME NEW outcomes \in Seq(Results), Len(outcomes) <= Len(run.calls),
             run' = [run EXCEPT !.at = "call", !.outcomes = outcomes]
      PROVE  RunOK'
  <2>1. /\ run' \in RunRecord /\ run'.at = "call" /\ run'.calls = run.calls /\ run'.step = run.step
        /\ run'.outcomes = outcomes /\ run'.delayed = run.delayed
    BY <1>0, <1>1 DEF RunRecord
  <2> QED
    BY <1>1, <2>1 DEF RunOK, Admission
<1>2. CASE FinishTools
  <2> DEFINE outcomes == run.outcomes \o [i \in DOMAIN run.admitted |->
                           IF run.admitted[i] = "go" THEN "ran" ELSE run.admitted[i]]
  <2>1. run.at = "execute" /\ "ran" \in Results
    BY <1>2 DEF FinishTools, Results
  <2>2. outcomes \in Seq(Results) /\ Len(outcomes) <= Len(run.calls)
    BY <2>1, GroupOutcomes
  <2> QED
    BY <1>1, <1>2, <2>2 DEF FinishTools
<1>3. CASE StartTools
  <2> DEFINE outcomes == run.outcomes \o [i \in DOMAIN run.admitted |->
                           IF run.admitted[i] = "go" THEN "cancelled" ELSE run.admitted[i]]
  <2>1. run.at = "start" /\ "cancelled" \in Results
    BY <1>3 DEF StartTools, Results
  <2>2. outcomes \in Seq(Results) /\ Len(outcomes) <= Len(run.calls)
    BY <2>1, GroupOutcomes
  <2>3. run.ran + Cardinality(Going) \in Nat
    <3>1. Cardinality(Going) \in Nat
      BY GoingCount
    <3> QED
      BY <3>1, RunTypes
  <2>4. CASE ~flag /\ Going # {}
    <3>1. PICK n \in Nat : run' = [run EXCEPT !.at = "execute", !.ran = n]
      BY <1>3, <2>3, <2>4, Zenon DEF StartTools
    <3>2. /\ run' \in RunRecord /\ run'.at = "execute" /\ run'.calls = run.calls /\ run'.step = run.step
          /\ run'.outcomes = run.outcomes /\ run'.delayed = run.delayed /\ run'.group = run.group
          /\ run'.admitted = run.admitted
      BY <1>0, <3>1 DEF RunRecord
    <3> QED
      BY <2>1, <3>2 DEF RunOK, Admission
  <2>5. CASE ~(~flag /\ Going # {})
    <3>1. run' = [run EXCEPT !.at = "call", !.outcomes = outcomes]
      BY <1>3, <2>5, Zenon DEF StartTools
    <3> QED
      BY <1>1, <2>2, <3>1
  <2> QED
    BY <2>4, <2>5
<1> QED
  BY <1>2, <1>3

\* Where a step of the loop leads, and what of the slot it touches.
AgentAction == Progress \/ Provided \/ ReviewFails \/ \E answer : Reviewed(answer)

LEMMA AgentRunOK ==
  ASSUME RunOK, AgentAssumption, perm.mode \in Modes, AgentAction
  PROVE  RunOK'
<1>1. CASE LoopTop \/ Delta \/ Respond \/ GatewayCancelled \/ GatewayFails
  BY <1>1, RequestOK
<1>2. CASE SelectContext \/ SelectFails \/ CollectResults \/ CancelRest \/ Defer \/ BeginGroup
  BY <1>2, BatchOK
<1>3. CASE Admit
  BY <1>3, AdmitOK
<1>4. CASE StartTools \/ FinishTools
  BY <1>4, ToolsOK
<1>5. CASE ModelReviews \/ ReviewFails \/ \E answer : Reviewed(answer)
  BY <1>5, ReviewOK DEF ModelReviews
<1> QED
  BY <1>1, <1>2, <1>3, <1>4, <1>5 DEF AgentAction, Progress, Provided

LEMMA AgentMoves ==
  ASSUME RunOK, PermOK, delivered \in BOOLEAN, AgentAction
  PROVE  /\ Running /\ Running'
         /\ flag' = flag /\ delivered' \in BOOLEAN /\ PermOK'
         /\ flag /\ run'.at \in {"model", "execute"} => run.at = run'.at
<1>0. run \in RunRecord
  BY DEF RunOK
<1>1. CASE LoopTop \/ Delta \/ Respond \/ GatewayCancelled \/ GatewayFails
  <2>1. LoopTop => run.at = "loop" /\ run'.at \in {"stop", "model"} /\ (flag => run'.at = "stop")
    BY <1>0 DEF LoopTop, Stopped, RunRecord
  <2>2. Delta => run.at = "model" /\ run'.at = "model"
    BY <1>0 DEF Delta, RunRecord
  <2>3. Respond => run.at = "model" /\ run'.at \in {"stop", "select"}
    BY <1>0 DEF Respond, RunRecord
  <2>4. GatewayCancelled \/ GatewayFails => run.at = "model" /\ run'.at = "stop"
    BY <1>0 DEF GatewayCancelled, GatewayFails, Stopped, RunRecord
  <2>5. UNCHANGED <<flag, perm, delivered>>
    BY <1>1 DEF LoopTop, Delta, Respond, GatewayCancelled, GatewayFails
  <2> QED
    BY <1>1, <2>1, <2>2, <2>3, <2>4, <2>5 DEF Running, PermOK
<1>2. CASE SelectContext \/ SelectFails \/ CollectResults \/ CancelRest \/ Defer \/ BeginGroup
  <2>1. SelectContext \/ SelectFails => run.at = "select" /\ run'.at \in {"call", "stop"}
    BY <1>0 DEF SelectContext, SelectFails, Stopped, RunRecord
  <2>2. CollectResults \/ CancelRest \/ Defer \/ BeginGroup
          => run.at = "call" /\ run'.at \in {"loop", "call", "admit"}
    BY <1>0 DEF CollectResults, CancelRest, Defer, BeginGroup, RunRecord
  <2>3. UNCHANGED <<flag, perm>> /\ delivered' \in BOOLEAN
    BY <1>2 DEF SelectContext, SelectFails, CollectResults, CancelRest, Defer, BeginGroup
  <2> QED
    BY <1>2, <2>1, <2>2, <2>3 DEF Running, PermOK
<1>3. ASSUME NEW verdict, run' = Admitted(verdict)
      PROVE  run'.at \in {"start", "admit"}
  BY <1>0, <1>3 DEF Admitted, RunRecord
<1>4. CASE Admit
  <2>1. /\ run.at = "admit" /\ UNCHANGED <<flag, perm, delivered>>
        /\ \/ \E verdict : run' = Admitted(verdict)
           \/ run' = [run EXCEPT !.at = "review", !.reviewer = "user"]
           \/ run' = [run EXCEPT !.at = "review", !.reviewer = "model"]
    <3>1. Decide(perm.mode, perm.grants, Candidate) \in {"allow", "ask", "deny", "review"}
      BY <1>4, CandidateType, DecideType DEF Admit, PermOK
    <3> QED
      BY <1>4, <3>1 DEF Admit
  <2>2. run'.at \in {"start", "admit", "review"}
    BY <1>0, <1>3, <2>1 DEF RunRecord
  <2> QED
    BY <2>1, <2>2 DEF Running, PermOK
<1>5. CASE StartTools \/ FinishTools
  <2>1. StartTools => run.at = "start" /\ run'.at \in {"execute", "call"} /\ (flag => run'.at = "call")
    BY <1>0 DEF StartTools, RunRecord
  <2>2. FinishTools => run.at = "execute" /\ run'.at = "call"
    BY <1>0 DEF FinishTools, RunRecord
  <2>3. UNCHANGED <<flag, perm, delivered>>
    BY <1>5 DEF StartTools, FinishTools
  <2> QED
    BY <1>5, <2>1, <2>2, <2>3 DEF Running, PermOK
<1>6. ASSUME NEW answer, Reviewed(answer)
      PROVE  /\ run.at = "review" /\ run'.at \in {"start", "admit"}
             /\ flag' = flag /\ delivered' = delivered /\ PermOK'
  <2>1. run' = Admitted(IF answer = "deny" THEN "denied" ELSE IfNotCancelled)
    BY <1>6 DEF Reviewed
  <2>2. perm' = perm \/ perm' = [perm EXCEPT !.grants = @ \union {Candidate.target}]
    BY <1>6 DEF Reviewed
  <2> QED
    BY <1>3, <1>6, <2>1, <2>2 DEF Reviewed, PermOK
<1>7. CASE ReviewFails
  <2>1. run.at = "review" /\ run'.at = "stop" /\ UNCHANGED <<flag, perm, delivered>>
    BY <1>0, <1>7 DEF ReviewFails, Stopped, RunRecord
  <2> QED
    BY <2>1 DEF Running, PermOK
<1>8. CASE ModelReviews \/ \E answer : Reviewed(answer)
  <2>1. PICK answer : Reviewed(answer)
    BY <1>8 DEF ModelReviews
  <2> QED
    BY <1>6, <2>1 DEF Running
<1> QED
  BY <1>1, <1>2, <1>4, <1>5, <1>7, <1>8 DEF AgentAction, Progress, Provided

-----------------------------------------------------------------------------
(* The steps of the session: types, and who has the lock.                  *)

LEMMA FreshRun ==
  ASSUME NEW at \in Places, NEW messages \in History, NEW zero \in Nat, NEW calls \in Seq(CallRecord),
         NEW delayed \in SUBSET Nat, NEW outcomes \in Seq(Results), NEW admitted \in Seq(Verdicts),
         NEW reviewer \in {"none", "user", "model"}, NEW stop \in Stops
  PROVE  [at |-> at, messages |-> messages, step |-> zero, text |-> zero, partial |-> zero,
          calls |-> calls, delayed |-> delayed, outcomes |-> outcomes, group |-> zero,
          admitted |-> admitted, reviewer |-> reviewer, stop |-> stop, ran |-> zero,
          visible |-> zero] \in RunRecord
BY DEF RunRecord

LEMMA NoRunOK ==
  ASSUME AgentAssumption, NEW place \in {"none", "gateway"}, run' = [NoRun EXCEPT !.at = place]
  PROVE  RunOK' /\ run'.at = place /\ run'.messages = << >>
<1>1. /\ place \in Places /\ "none" \in Stops /\ "none" \in {"none", "user", "model"} /\ 0 \in Nat
      /\ {} \in SUBSET Nat
  BY DEF Places, Stops
<1>2. run' = [at |-> place, messages |-> << >>, step |-> 0, text |-> 0, partial |-> 0,
              calls |-> << >>, delayed |-> {}, outcomes |-> << >>, group |-> 0, admitted |-> << >>,
              reviewer |-> "none", stop |-> "none", ran |-> 0, visible |-> 0]
  BY DEF NoRun
<1>3. run' \in RunRecord
  <2>1. PICK at \in Places, messages \in History, zero \in Nat, calls \in Seq(CallRecord),
             delayed \in SUBSET Nat, outcomes \in Seq(Results), admitted \in Seq(Verdicts),
             reviewer \in {"none", "user", "model"}, stop \in Stops :
          /\ at = place /\ messages = << >> /\ zero = 0 /\ calls = << >> /\ delayed = {}
          /\ outcomes = << >> /\ admitted = << >> /\ reviewer = "none" /\ stop = "none"
    BY <1>1, Empties, Zenon
  <2>2. run' = [at |-> at, messages |-> messages, step |-> zero, text |-> zero, partial |-> zero,
                calls |-> calls, delayed |-> delayed, outcomes |-> outcomes, group |-> zero,
                admitted |-> admitted, reviewer |-> reviewer, stop |-> stop, ran |-> zero,
                visible |-> zero]
    BY <1>2, <2>1, Zenon
  <2>3. [at |-> at, messages |-> messages, step |-> zero, text |-> zero, partial |-> zero,
         calls |-> calls, delayed |-> delayed, outcomes |-> outcomes, group |-> zero,
         admitted |-> admitted, reviewer |-> reviewer, stop |-> stop, ran |-> zero,
         visible |-> zero] \in RunRecord
    BY FreshRun, Zenon
  <2> QED
    BY <2>2, <2>3, Zenon
<1>4. /\ run'.at = place /\ run'.step = 0 /\ run'.calls = << >> /\ run'.outcomes = << >>
      /\ run'.delayed = {} /\ run'.messages = << >>
  BY <1>2
<1>5. 0 <= MaxSteps
  BY AgentAssumption
<1> QED
  BY <1>3, <1>4, <1>5 DEF RunOK, Admission

\* A step that leaves the run alone.
LEMMA SameRunOK ==
  ASSUME RunOK, run' = run
  PROVE  RunOK'
BY DEF RunOK

\* What the properties need of the session's values.
LEMMA SessionTypes ==
  ASSUME DataOK
  PROVE  /\ session = [history |-> session.history, model |-> session.model]
         /\ disk = [history |-> disk.history, model |-> disk.model]
         /\ session.history \in History /\ disk.history \in History
         /\ session.model \in Models /\ disk.model \in Models
BY DEF DataOK, SessionRecord

LEMMA InitTypes ==
  ASSUME AgentAssumption, RuntimeAssumption, Init
  PROVE  TypesOK
<1>1. RunOK
  <2>1. /\ "none" \in Places /\ "none" \in Stops /\ 0 \in Nat /\ {} \in SUBSET Nat
        /\ "none" \in {"none", "user", "model"}
    BY DEF Places, Stops
  <2>2. run \in RunRecord
    BY <2>1, Empties DEF Init, NoRun, RunRecord
  <2>3. /\ run.at = "none" /\ run.step = 0 /\ run.calls = << >> /\ run.outcomes = << >>
        /\ run.delayed = {}
    BY DEF Init, NoRun
  <2>4. 0 <= MaxSteps
    BY AgentAssumption
  <2> QED
    BY <2>2, <2>3, <2>4 DEF RunOK, Admission
<1>2. PermOK
  BY DEF Init, PermOK, Modes
<1>3. disk \in SessionRecord
  <2>1. System \in MessageRecord
    BY DEF System, Message, MessageRecord
  <2>2. <<System>> \in History
    BY <2>1 DEF History
  <2>3. DefaultModel \in Models
    BY RuntimeAssumption
  <2> QED
    BY <2>2, <2>3 DEF Init, SessionRecord
<1>4. DataOK
  <2>1. << >> \in Seq(ClientMessage) /\ 0 \in Nat /\ "ask" \in ClientModes
    BY DEF ClientModes
  <2>2. session = disk /\ active = TRUE /\ stored = TRUE /\ flag = FALSE /\ delivered = FALSE
    BY DEF Init
  <2>3. inbox \in Seq(ClientMessage) /\ tasks \in Nat /\ sent \in Nat /\ mode \in ClientModes
    BY <2>1 DEF Init
  <2> QED
    BY <1>3, <2>2, <2>3 DEF DataOK
<1>5. LockOK /\ HandlerOK
  BY DEF Init, LockOK, HandlerOK, NoRun, Idle
<1> QED
  BY <1>1, <1>2, <1>4, <1>5 DEF TypesOK

\* The client only adds messages.
LEMMA ClientTypes ==
  ASSUME TypesOK, RuntimeAssumption, Client
  PROVE  /\ TypesOK' /\ UNCHANGED <<agent, disk, slot, handler, tasks, stored>>
<1>1. UNCHANGED <<agent, disk, slot, handler, tasks, stored>>
  BY DEF Client, SendPrompt, SendRequest, SendAnswer, Send
<1>2. PICK message \in ClientMessage : inbox' = Append(inbox, message) /\ sent' \in {sent, sent + 1}
  <2>1. CASE SendPrompt
    <3>1. [kind |-> "prompt", arg |-> "none"] \in ClientMessage
      BY DEF ClientMessage
    <3> QED
      BY <2>1, <3>1 DEF SendPrompt, Send
  <2>2. CASE SendRequest
    <3>1. Requests \subseteq ClientMessage
      BY RuntimeAssumption DEF ClientMessage
    <3> QED
      BY <2>2, <3>1 DEF SendRequest, Send
  <2>3. CASE SendAnswer
    <3>1. \A a \in {"once", "session", "deny"} : [kind |-> "answer", arg |-> a] \in ClientMessage
      BY DEF ClientMessage
    <3> QED
      BY <2>3, <3>1 DEF SendAnswer
  <2> QED
    BY <2>1, <2>2, <2>3 DEF Client
<1>3. inbox' \in Seq(ClientMessage) /\ sent' \in Nat
  BY <1>2 DEF TypesOK, DataOK
<1>4. RunOK'
  BY <1>1, SameRunOK DEF TypesOK, agent
<1>5. PermOK' /\ DataOK' /\ LockOK' /\ HandlerOK'
  BY <1>1, <1>3 DEF TypesOK, PermOK, DataOK, LockOK, HandlerOK, agent, slot
<1> QED
  BY <1>1, <1>4, <1>5 DEF TypesOK

\* Taking the first message out of the queue.
LEMMA DispatchTypes ==
  ASSUME DataOK, NEW kind, Dispatch(kind)
  PROVE  /\ inbox' \in Seq(ClientMessage)
         /\ Head(inbox) \in ClientMessage /\ Head(inbox).kind = kind
         /\ handler = Idle /\ Yielded
         /\ UNCHANGED <<sent, disk, stored>>
BY HeadTailProperties DEF DataOK, Dispatch

\* What a handler that waits is.
LEMMA HandlerTypes ==
  ASSUME HandlerOK
  PROVE  /\ handler.at \in {"none", "build", "lock", "save"}
         /\ handler.at = "none" => handler = Idle
         /\ handler.at = "build" =>
              active /\ handler = Awaits([kind |-> "load", arg |-> "none"], "build")
         /\ handler.at = "lock" =>
              \E m \in RequestRecord :
                /\ m.kind \in {"load", "close", "config_mode", "config_model"}
                /\ active <=> m.kind # "close"
                /\ handler = Awaits(m, "lock")
         /\ handler.at = "save" =>
              \E model \in Models :
                /\ active
                /\ handler = [kind |-> "config_model", arg |-> model, at |-> "save",
                              persisted |-> [session EXCEPT !.model = model]]
<1>1. Idle.at = "none" /\ \A m, what : Awaits(m, what).at = what
  BY DEF Idle, Awaits
<1>2. CASE handler = Idle
  BY <1>1, <1>2
<1>3. CASE active /\ handler = Awaits([kind |-> "load", arg |-> "none"], "build")
  BY <1>1, <1>3
<1>4. CASE \E m \in RequestRecord :
             /\ m.kind \in {"load", "close", "config_mode", "config_model"}
             /\ active <=> m.kind # "close"
             /\ handler = Awaits(m, "lock")
  BY <1>1, <1>4
<1>5. CASE \E model \in Models :
             /\ active
             /\ handler = [kind |-> "config_model", arg |-> model, at |-> "save",
                           persisted |-> [session EXCEPT !.model = model]]
  <2>1. handler.at = "save"
    BY <1>5
  <2> QED
    BY <1>5, <2>1
<1> QED
  BY <1>2, <1>3, <1>4, <1>5 DEF HandlerOK

\* A handler runs from its dispatch to its first await.
LEMMA DispatchedTypes ==
  ASSUME TypesOK, RuntimeAssumption, AgentAssumption,
         HandlePrompt \/ HandleAnswer \/ HandleCancel \/ HandleSetMode \/ HandleConfig
           \/ HandleClose \/ HandleLoad
  PROVE  TypesOK'
<1>1. CASE HandlePrompt
  <2>1. /\ inbox' \in Seq(ClientMessage) /\ tasks' \in Nat
        /\ UNCHANGED <<agent, slot, handler, sent, disk, stored>>
    BY <1>1, DispatchTypes DEF HandlePrompt, TypesOK, DataOK
  <2>2. RunOK'
    BY <2>1, SameRunOK DEF TypesOK, agent
  <2> QED
    BY <2>1, <2>2 DEF TypesOK, PermOK, DataOK, LockOK, HandlerOK, agent, slot
<1>2. CASE HandleAnswer
  <2>1. /\ inbox' \in Seq(ClientMessage) /\ Reviewed(Head(inbox).arg)
        /\ UNCHANGED <<slot, handler, tasks, sent, disk, stored>>
    BY <1>2, DispatchTypes DEF HandleAnswer, TypesOK
  <2>2. AgentAction
    BY <2>1 DEF AgentAction
  <2>3. RunOK' /\ PermOK' /\ flag' = flag /\ delivered' \in BOOLEAN /\ Running /\ Running'
    BY <2>2, AgentRunOK, AgentMoves DEF TypesOK, PermOK, DataOK
  <2>4. run.at # "none" /\ run'.at # "none"
    BY <2>3 DEF Running
  <2> QED
    BY <2>1, <2>3, <2>4 DEF TypesOK, DataOK, LockOK, HandlerOK, slot
<1>3. CASE HandleCancel
  <2>1. /\ inbox' \in Seq(ClientMessage) /\ flag' \in BOOLEAN
        /\ UNCHANGED <<run, perm, delivered, slot, handler, tasks, sent, disk, stored>>
    BY <1>3, DispatchTypes DEF HandleCancel, TypesOK, DataOK
  <2>2. RunOK'
    BY <2>1, SameRunOK DEF TypesOK
  <2> QED
    BY <2>1, <2>2 DEF TypesOK, PermOK, DataOK, LockOK, HandlerOK, slot
<1>4. CASE HandleSetMode
  <2>1. /\ inbox' \in Seq(ClientMessage) /\ Head(inbox) \in ClientMessage
        /\ Head(inbox).kind = "set_mode" /\ mode' = IF active THEN Head(inbox).arg ELSE mode
        /\ UNCHANGED <<agent, session, active, lock, handler, tasks, sent, disk, stored>>
    BY <1>4, DispatchTypes DEF HandleSetMode, TypesOK
  <2>2. Head(inbox).arg \in ClientModes
    BY <2>1 DEF ClientMessage, RequestRecord
  <2>3. RunOK'
    BY <2>1, SameRunOK DEF TypesOK, agent
  <2> QED
    BY <2>1, <2>2, <2>3 DEF TypesOK, PermOK, DataOK, LockOK, HandlerOK, agent
<1>5. CASE HandleConfig
  <2>1. /\ inbox' \in Seq(ClientMessage) /\ Head(inbox) \in ClientMessage
        /\ Head(inbox).kind \in {"config_mode", "config_model"} /\ handler = Idle
        /\ handler' = IF active THEN Awaits(Head(inbox), "lock") ELSE Idle
        /\ UNCHANGED <<agent, slot, tasks, sent, disk, stored>>
    BY <1>5, DispatchTypes DEF HandleConfig, TypesOK
  <2>2. Head(inbox) \in RequestRecord /\ Head(inbox).kind # "close"
    BY <2>1 DEF ClientMessage
  <2>3. RunOK'
    BY <2>1, SameRunOK DEF TypesOK, agent
  <2>4. HandlerOK' /\ LockOK'
    <3>1. HandlerOK'
      BY <2>1, <2>2 DEF HandlerOK, slot
    <3>2. handler'.at # "save" /\ handler.at = "none"
      BY <2>1 DEF Awaits, Idle
    <3>3. active' \/ lock' = "free"
      BY <2>1, <3>2 DEF TypesOK, LockOK, DataOK, slot
    <3> QED
      BY <2>1, <3>1, <3>2, <3>3 DEF TypesOK, LockOK, agent, slot
  <2> QED
    BY <2>1, <2>3, <2>4 DEF TypesOK, PermOK, DataOK, agent, slot
<1>6. CASE HandleClose
  <2>1. /\ inbox' \in Seq(ClientMessage) /\ Head(inbox) \in ClientMessage
        /\ Head(inbox).kind = "close" /\ handler = Idle
        /\ active' = FALSE /\ flag' = (flag \/ active)
        /\ handler' = IF active THEN Awaits(Head(inbox), "lock") ELSE Idle
        /\ UNCHANGED <<run, perm, delivered, session, lock, mode, tasks, sent, disk, stored>>
    BY <1>6, DispatchTypes DEF HandleClose, TypesOK
  <2>2. Head(inbox) \in RequestRecord
    BY <2>1 DEF ClientMessage
  <2>3. RunOK'
    BY <2>1, SameRunOK DEF TypesOK
  <2>4. HandlerOK' /\ LockOK'
    <3>1. HandlerOK'
      BY <2>1, <2>2 DEF HandlerOK
    <3>2. handler'.at # "save" /\ handler.at = "none"
      BY <2>1 DEF Awaits, Idle
    <3>3. active => handler'.at = "lock" /\ handler'.kind = "close"
      BY <2>1 DEF Awaits
    <3>4. ~active => lock' = "free"
      BY <2>1, <3>2 DEF TypesOK, LockOK
    <3> QED
      BY <2>1, <3>1, <3>2, <3>3, <3>4 DEF TypesOK, LockOK
  <2> QED
    BY <2>1, <2>3, <2>4 DEF TypesOK, PermOK, DataOK
<1>7. CASE HandleLoad
  <2>1. /\ inbox' \in Seq(ClientMessage) /\ Head(inbox) \in ClientMessage
        /\ Head(inbox).kind = "load" /\ handler = Idle
        /\ UNCHANGED <<tasks, sent, disk, stored>>
    BY <1>7, DispatchTypes DEF HandleLoad, TypesOK
  <2>2. Head(inbox) = [kind |-> "load", arg |-> "none"]
    BY <2>1 DEF ClientMessage, RequestRecord
  <2>3. handler.at = "none" /\ lock # "handler"
    BY <2>1 DEF Idle, TypesOK, LockOK
  <2>4. CASE /\ active
             /\ handler' = Awaits(Head(inbox), "build")
             /\ UNCHANGED <<agent, slot>>
    <3>1. RunOK'
      BY <2>4, SameRunOK DEF TypesOK, agent
    <3>2. HandlerOK' /\ handler'.at = "build"
      BY <2>2, <2>4 DEF HandlerOK, slot, Awaits
    <3>3. LockOK'
      BY <2>3, <2>4, <3>2 DEF TypesOK, LockOK, agent, slot
    <3> QED
      BY <2>1, <2>4, <3>1, <3>2, <3>3 DEF TypesOK, PermOK, DataOK, agent, slot
  <2>5. CASE /\ ~active
             /\ session' = disk /\ active' = TRUE /\ mode' = "ask" /\ flag' = FALSE
             /\ perm' = [mode |-> "auto", grants |-> {}]
             /\ delivered' = FALSE
             /\ UNCHANGED <<run, lock, handler>>
    <3>1. RunOK'
      BY <2>5, SameRunOK DEF TypesOK
    <3>2. HandlerOK' /\ LockOK'
      BY <2>1, <2>5 DEF TypesOK, HandlerOK, LockOK
    <3>3. PermOK'
      BY <2>5 DEF PermOK, Modes
    <3>4. DataOK'
      BY <2>1, <2>5 DEF TypesOK, DataOK, ClientModes
    <3> QED
      BY <3>1, <3>2, <3>3, <3>4 DEF TypesOK
  <2>6. CASE UNCHANGED <<agent, slot, handler>>
    <3>1. RunOK'
      BY <2>6, SameRunOK DEF TypesOK, agent
    <3> QED
      BY <2>1, <2>6, <3>1 DEF TypesOK, PermOK, DataOK, LockOK, HandlerOK, agent, slot
  <2> QED
    BY <1>7, <2>4, <2>5, <2>6 DEF HandleLoad
<1> QED
  BY <1>1, <1>2, <1>3, <1>4, <1>5, <1>6, <1>7

\* A handler that waited goes on.
LEMMA ResumedTypes ==
  ASSUME TypesOK, RuntimeAssumption,
         LoadBuilt \/ LoadFails \/ HandlerLocks \/ ConfigModelLocks \/ ConfigModelSaved
           \/ ConfigModelFails
  PROVE  TypesOK'
<1>1. HandlerOK /\ DataOK /\ LockOK
  BY DEF TypesOK
<1>2. /\ RunOK' /\ PermOK' /\ UNCHANGED <<run, perm>>
      /\ UNCHANGED <<active, tasks, inbox, sent>>
  <2>1. UNCHANGED <<run, perm, active, tasks, inbox, sent>>
    BY DEF LoadBuilt, LoadFails, HandlerLocks, ConfigModelLocks, ConfigModelSaved,
           ConfigModelFails, agent, client, slot
  <2> QED
    BY <2>1, SameRunOK DEF TypesOK, PermOK
<1>3. CASE LoadBuilt
  <2>1. active /\ handler = Awaits([kind |-> "load", arg |-> "none"], "build")
    BY <1>1, <1>3, HandlerTypes DEF LoadBuilt
  <2>2. handler' = Awaits([kind |-> "load", arg |-> "none"], "lock")
    BY <1>3, <2>1 DEF LoadBuilt, Awaits
  <2>3. [kind |-> "load", arg |-> "none"] \in RequestRecord
    BY DEF RequestRecord
  <2>4. HandlerOK'
    BY <1>2, <2>1, <2>2, <2>3 DEF HandlerOK
  <2>5. handler.at = "build" /\ handler'.at = "lock"
    BY <2>1, <2>2 DEF Awaits
  <2>6. DataOK' /\ LockOK'
    BY <1>1, <1>2, <1>3, <2>1, <2>5 DEF LoadBuilt, DataOK, LockOK, slot
  <2> QED
    BY <1>2, <2>4, <2>6 DEF TypesOK
<1>4. CASE LoadFails
  <2>1. HandlerOK' /\ handler'.at = "none"
    BY <1>4 DEF LoadFails, HandlerOK, Idle
  <2>2. active
    BY <1>1, <1>4, HandlerTypes DEF LoadFails
  <2>3. DataOK' /\ LockOK'
    BY <1>1, <1>2, <1>4, <2>1, <2>2 DEF LoadFails, DataOK, LockOK, agent, slot
  <2> QED
    BY <1>2, <2>1, <2>3 DEF TypesOK
<1>5. CASE HandlerLocks
  <2>1. PICK m \in RequestRecord :
          m.kind \in {"load", "close", "config_mode", "config_model"} /\ handler = Awaits(m, "lock")
    BY <1>1, <1>5, HandlerTypes DEF HandlerLocks
  <2>2. handler.kind = m.kind /\ handler.arg = m.arg /\ m.kind # "config_model"
    BY <1>5, <2>1 DEF Awaits, HandlerLocks
  <2>3. mode' \in ClientModes
    <3>1. m.kind = "config_mode" => m.arg \in ClientModes
      BY DEF RequestRecord
    <3>2. mode' = CASE m.kind = "load" -> "ask" [] m.kind = "config_mode" -> m.arg
                    [] m.kind = "close" -> mode
      BY <1>5, <2>2 DEF HandlerLocks
    <3>3. m.kind \in {"load", "close", "config_mode"}
      BY <2>1, <2>2
    <3>4. mode \in ClientModes /\ "ask" \in ClientModes
      BY <1>1 DEF DataOK, ClientModes
    <3> QED
      BY <3>1, <3>2, <3>3, <3>4
  <2>4. HandlerOK' /\ handler'.at = "none" /\ handler.at = "lock"
    BY <1>5 DEF HandlerLocks, HandlerOK, Idle
  <2>5. DataOK' /\ LockOK'
    <3>1. delivered' \in BOOLEAN
      BY <1>1, <1>5 DEF HandlerLocks, DataOK
    <3> QED
      BY <1>1, <1>2, <1>5, <2>3, <2>4, <3>1 DEF HandlerLocks, DataOK, LockOK
  <2> QED
    BY <1>2, <2>4, <2>5 DEF TypesOK
<1>6. CASE ConfigModelLocks
  <2>1. PICK m \in RequestRecord :
          handler = Awaits(m, "lock") /\ (active <=> m.kind # "close")
    BY <1>1, <1>6, HandlerTypes DEF ConfigModelLocks
  <2>2. m.kind = "config_model" /\ m.arg \in Models /\ handler.arg = m.arg
    <3>1. handler.kind = m.kind /\ handler.arg = m.arg
      BY <2>1 DEF Awaits
    <3>2. m.kind = "config_model"
      BY <1>6, <3>1 DEF ConfigModelLocks
    <3> QED
      BY <3>1, <3>2 DEF RequestRecord
  <2>3. handler' = [kind |-> "config_model", arg |-> m.arg, at |-> "save",
                    persisted |-> [session EXCEPT !.model = m.arg]]
    <3>1. handler = [kind |-> "config_model", arg |-> m.arg, at |-> "lock", persisted |-> Blank]
      BY <2>1, <2>2 DEF Awaits
    <3>2. PICK saved : saved = [session EXCEPT !.model = m.arg]
      OBVIOUS
    <3>3. handler' = [handler EXCEPT !.at = "save", !.persisted = saved]
      BY <1>6, <2>2, <3>2 DEF ConfigModelLocks
    <3>4. handler' = [kind |-> "config_model", arg |-> m.arg, at |-> "save", persisted |-> saved]
      BY <3>1, <3>3
    <3> QED
      BY <3>2, <3>4
  <2>4. active' /\ session' = session
    BY <1>6, <2>1, <2>2 DEF ConfigModelLocks
  <2>5. HandlerOK'
    BY <2>2, <2>3, <2>4 DEF HandlerOK
  <2>6. handler'.at = "save" /\ lock' = "handler" /\ lock # "prompt"
    BY <1>6, <2>3 DEF ConfigModelLocks
  <2>7. DataOK' /\ LockOK'
    BY <1>1, <1>2, <1>6, <2>4, <2>6 DEF ConfigModelLocks, DataOK, LockOK, agent
  <2> QED
    BY <1>2, <2>5, <2>7 DEF TypesOK
<1>7. CASE ConfigModelSaved \/ ConfigModelFails
  <2>1. PICK model \in Models :
          /\ active
          /\ handler = [kind |-> "config_model", arg |-> model, at |-> "save",
                        persisted |-> [session EXCEPT !.model = model]]
    BY <1>1, <1>7, HandlerTypes DEF ConfigModelSaved, ConfigModelFails
  <2>2. handler.persisted \in SessionRecord /\ handler.at = "save"
    <3>1. PICK saved : saved = [session EXCEPT !.model = model]
      OBVIOUS
    <3>2. saved \in SessionRecord
      BY <1>1, <3>1 DEF DataOK, SessionRecord
    <3>3. handler = [kind |-> "config_model", arg |-> model, at |-> "save", persisted |-> saved]
      BY <2>1, <3>1
    <3> QED
      BY <3>2, <3>3
  <2>3. HandlerOK' /\ handler'.at = "none" /\ lock' = "free"
    BY <1>7 DEF ConfigModelSaved, ConfigModelFails, HandlerOK, Idle
  <2>4. /\ session' \in SessionRecord /\ disk' \in SessionRecord /\ stored' \in BOOLEAN
        /\ UNCHANGED <<flag, delivered, mode>>
    BY <1>1, <1>7, <2>2 DEF ConfigModelSaved, ConfigModelFails, DataOK, agent
  <2>5. DataOK'
    BY <1>1, <1>2, <2>4 DEF DataOK
  <2>6. LockOK'
    BY <1>1, <1>2, <2>1, <2>2, <2>3 DEF LockOK
  <2> QED
    BY <1>2, <2>3, <2>5, <2>6 DEF TypesOK
<1> QED
  BY <1>3, <1>4, <1>5, <1>6, <1>7

\* What a prompt adds to a history is a message.
LEMMA PromptType ==
  ASSUME NEW h \in History
  PROVE  LET prompts == {i \in DOMAIN h : h[i].role = "user"}
         IN  User(Cardinality(prompts) + 1) \in MessageRecord
<1> DEFINE prompts == {i \in DOMAIN h : h[i].role = "user"}
<1>1. DOMAIN h = 1 .. Len(h) /\ Len(h) + 1 \in Nat
  BY DEF History
<1>2. prompts \in SUBSET (0 .. ((Len(h) + 1) - 1))
  BY <1>1
<1> HIDE DEF prompts
<1>3. Cardinality(prompts) \in Nat
  BY <1>1, <1>2, FirstNaturals, FS_Subset, FS_CardinalityType
<1>4. PICK n \in Nat : n = Cardinality(prompts) + 1
  BY <1>3
<1>5. User(n) \in MessageRecord
  BY DEF User, Message, MessageRecord
<1> QED
  BY <1>4, <1>5 DEF prompts

LEMMA UncommittedType ==
  ASSUME RunOK, NEW h \in History
  PROVE  AppendUncommitted(h) \in History
<1>1. Assistant(run.partial, << >>) \in MessageRecord
  BY RunTypes, Empties DEF Assistant, Message, MessageRecord
<1>2. Append(h, Assistant(run.partial, << >>)) \in History
  BY <1>1 DEF History
<1> QED
  BY <1>2 DEF AppendUncommitted

\* Another point of the same run, with another history.
LEMMA MovedOK ==
  ASSUME RunOK, NEW place \in {"stage", "loop", "save"}, NEW h \in History,
         run.at \in {"gateway", "stage"} \/ place = "save",
         run' = [run EXCEPT !.at = place, !.messages = h]
  PROVE  RunOK' /\ run'.at = place /\ run'.messages = h
<1>1. run \in RunRecord /\ place \in Places
  BY DEF RunOK, Places
<1>2. /\ run' \in RunRecord /\ run'.at = place /\ run'.calls = run.calls /\ run'.step = run.step
      /\ run'.outcomes = run.outcomes /\ run'.delayed = run.delayed /\ run'.messages = h
  BY <1>1 DEF RunRecord
<1> QED
  BY <1>2 DEF RunOK, Admission

LEMMA SameMessages ==
  ASSUME RunOK, NEW place
  PROVE  [run EXCEPT !.at = place] = [run EXCEPT !.at = place, !.messages = run.messages]
BY DEF RunOK, RunRecord

\* Dropping an answer shortens the queue.
LEMMA DroppedType ==
  ASSUME inbox \in Seq(ClientMessage), DropAnswers
  PROVE  inbox' \in Seq(ClientMessage)
<1> DEFINE answers == {i \in DOMAIN inbox : inbox[i].kind = "answer"}
<1>1. CASE answers = {}
  BY <1>1 DEF DropAnswers
<1>2. CASE answers # {}
  <2> DEFINE k == CHOOSE i \in answers : TRUE
  <2>1. k \in 1 .. Len(inbox) /\ Len(inbox) \in Nat
    BY <1>2
  <2>2. inbox' = RemoveAt(inbox, k)
    BY <1>2 DEF DropAnswers
  <2> HIDE DEF k
  <2>3. /\ SubSeq(inbox, 1, k - 1) \in Seq(ClientMessage)
        /\ SubSeq(inbox, k + 1, Len(inbox)) \in Seq(ClientMessage)
    BY <2>1, SubSeqProperties
  <2> QED
    BY <2>2, <2>3, ConcatProperties DEF RemoveAt
<1> QED
  BY <1>1, <1>2

\* A prompt that returns.
LEMMA ReleaseTypes ==
  ASSUME TypesOK, AgentAssumption, run.at # "none", Release
  PROVE  RunOK' /\ run'.at = "none" /\ lock' = "free" /\ handler.at # "save"
<1>1. "none" \in {"none", "gateway"}
  OBVIOUS
<1>2. run' = [NoRun EXCEPT !.at = "none"]
  BY DEF Release, NoRun
<1>3. RunOK' /\ run'.at = "none"
  BY <1>1, <1>2, NoRunOK
<1> QED
  BY <1>3 DEF Release, TypesOK, LockOK

\* FxRuntime::prompt outside the agent loop.
LEMMA PromptTypes ==
  ASSUME TypesOK, AgentAssumption,
         StartPrompt \/ GatewayRefused \/ GatewayReady \/ StageSaved \/ StageFails
           \/ TurnEnds \/ TurnSaved \/ TurnNotSaved
  PROVE  TypesOK'
<1>1. RunOK /\ PermOK /\ DataOK /\ LockOK /\ HandlerOK /\ run.at \in Places
  BY RunTypes DEF TypesOK
<1>2. CASE StartPrompt
  <2>1. /\ tasks > 0 /\ tasks' = tasks - 1
        /\ UNCHANGED <<flag, perm, delivered, disk, session, active, mode, inbox, sent, handler, stored>>
        /\ \/ lock = "free" /\ active /\ lock' = "prompt" /\ run' = [NoRun EXCEPT !.at = "gateway"]
           \/ UNCHANGED <<lock, run>>
    BY <1>2 DEF StartPrompt, client
  <2>2. DataOK' /\ PermOK' /\ HandlerOK'
    BY <1>1, <2>1 DEF DataOK, PermOK, HandlerOK
  <2>3. CASE UNCHANGED <<lock, run>>
    <3>1. RunOK' /\ LockOK'
      BY <1>1, <2>1, <2>3, SameRunOK DEF LockOK
    <3> QED
      BY <2>2, <3>1 DEF TypesOK
  <2>4. CASE /\ lock = "free" /\ active /\ lock' = "prompt"
             /\ run' = [NoRun EXCEPT !.at = "gateway"]
    <3>1. RunOK' /\ run'.at = "gateway"
      BY <2>4, NoRunOK
    <3>2. LockOK'
      BY <1>1, <2>1, <2>4, <3>1 DEF LockOK
    <3> QED
      BY <2>2, <3>1, <3>2 DEF TypesOK
  <2> QED
    BY <2>1, <2>3, <2>4
<1>3. CASE GatewayRefused \/ StageFails \/ TurnSaved \/ TurnNotSaved
  <2>1. /\ run.at # "none" /\ Release /\ disk' \in {disk, session} /\ stored' \in {TRUE, FALSE, stored}
        /\ UNCHANGED <<flag, perm, delivered, session, active, mode, inbox, sent, handler, tasks>>
    BY <1>3 DEF GatewayRefused, StageFails, TurnSaved, TurnNotSaved, client
  <2>2. RunOK' /\ run'.at = "none" /\ lock' = "free" /\ handler.at # "save"
    BY <2>1, ReleaseTypes
  <2>3. DataOK' /\ PermOK' /\ HandlerOK'
    BY <1>1, <2>1 DEF DataOK, PermOK, HandlerOK
  <2>4. LockOK'
    BY <1>1, <2>1, <2>2 DEF LockOK
  <2> QED
    BY <2>2, <2>3, <2>4 DEF TypesOK
<1>4. CASE GatewayReady
  <2>1. /\ run.at = "gateway" /\ flag' = FALSE /\ perm' = [perm EXCEPT !.mode = mode]
        /\ run' = [run EXCEPT !.at = "stage"]
        /\ UNCHANGED <<delivered, disk, session, active, lock, mode, inbox, sent, handler, tasks, stored>>
    BY <1>4 DEF GatewayReady, client, slot
  <2>2. RunOK' /\ run'.at = "stage"
    <3>1. run' = [run EXCEPT !.at = "stage", !.messages = run.messages]
      BY <1>1, <2>1, SameMessages
    <3> QED
      BY <1>1, <2>1, <3>1, MovedOK, RunTypes
  <2>3. PermOK'
    <3>1. mode \in Modes
      BY <1>1 DEF DataOK, ClientModes, Modes
    <3>2. PICK m : m = mode
      OBVIOUS
    <3> QED
      BY <1>1, <2>1, <3>1, <3>2 DEF PermOK
  <2>4. DataOK' /\ HandlerOK' /\ LockOK'
    BY <1>1, <2>1, <2>2 DEF DataOK, HandlerOK, LockOK
  <2> QED
    BY <2>2, <2>3, <2>4 DEF TypesOK
<1>5. CASE StageSaved
  <2> DEFINE prompts == {i \in DOMAIN session.history : session.history[i].role = "user"}
             prompt == User(Cardinality(prompts) + 1)
  <2>1. /\ run.at = "stage" /\ session' = [session EXCEPT !.history = Append(@, prompt)]
        /\ disk' = session' /\ stored' = TRUE
        /\ run' = [run EXCEPT !.at = "loop", !.messages = session'.history]
        /\ UNCHANGED <<flag, perm, delivered, active, lock, mode, inbox, sent, handler, tasks>>
    BY <1>5 DEF StageSaved, client
  <2>2. session.history \in History
    BY <1>1, SessionTypes
  <2>3. prompt \in MessageRecord
    BY <2>2, PromptType
  <2> HIDE DEF prompt
  <2>4. PICK h \in History : session' = [session EXCEPT !.history = h]
    <3>1. Append(session.history, prompt) \in History
      BY <2>2, <2>3 DEF History
    <3> QED
      BY <2>1, <3>1
  <2>5. session' \in SessionRecord /\ session'.history = h
    BY <1>1, <2>4 DEF DataOK, SessionRecord
  <2>6. RunOK' /\ run'.at = "loop"
    BY <1>1, <2>1, <2>5, MovedOK
  <2>7. handler.at # "save"
    BY <1>1, <2>1 DEF LockOK
  <2>8. HandlerOK'
    BY <1>1, <2>1, <2>7, HandlerTypes DEF HandlerOK
  <2>9. DataOK' /\ LockOK' /\ PermOK'
    BY <1>1, <2>1, <2>5, <2>6 DEF DataOK, LockOK, PermOK
  <2> QED
    BY <2>6, <2>8, <2>9 DEF TypesOK
<1>6. CASE TurnEnds
  <2>1. /\ run.at = "stop"
        /\ UNCHANGED <<flag, perm, delivered, disk, active, mode, inbox, sent, handler, tasks, stored>>
        /\ \/ /\ \E h \in History : session' = [session EXCEPT !.history = h]
              /\ run' = [run EXCEPT !.at = "save"]
              /\ UNCHANGED lock
           \/ Release /\ UNCHANGED session
    <3>1. /\ AppendUncommitted(session.history) \in History
          /\ AppendUncommitted(run.messages) \in History /\ run.messages \in History
      BY <1>1, SessionTypes, UncommittedType, RunTypes
    <3> QED
      BY <1>6, <3>1 DEF TurnEnds, client
  <2>2. handler.at # "save"
    BY <1>1, <2>1 DEF LockOK
  <2>3. HandlerOK'
    BY <1>1, <2>1, <2>2, HandlerTypes DEF HandlerOK
  <2>4. PermOK'
    BY <1>1, <2>1 DEF PermOK
  <2>5. CASE Release /\ UNCHANGED session
    <3>1. RunOK' /\ run'.at = "none" /\ lock' = "free"
      BY <2>1, <2>5, ReleaseTypes
    <3>2. DataOK' /\ LockOK'
      BY <1>1, <2>1, <2>2, <2>5, <3>1 DEF DataOK, LockOK
    <3> QED
      BY <2>3, <2>4, <3>1, <3>2 DEF TypesOK
  <2>6. CASE /\ \E h \in History : session' = [session EXCEPT !.history = h]
             /\ run' = [run EXCEPT !.at = "save"]
             /\ UNCHANGED lock
    <3>1. session' \in SessionRecord
      BY <1>1, <2>6 DEF DataOK, SessionRecord
    <3>2. RunOK' /\ run'.at = "save"
      <4>1. run' = [run EXCEPT !.at = "save", !.messages = run.messages]
        BY <1>1, <2>6, SameMessages
      <4> QED
        BY <1>1, <4>1, MovedOK, RunTypes
    <3>3. DataOK' /\ LockOK'
      BY <1>1, <2>1, <2>6, <3>1, <3>2 DEF DataOK, LockOK
    <3> QED
      BY <2>3, <2>4, <3>2, <3>3 DEF TypesOK
  <2> QED
    BY <2>1, <2>5, <2>6
<1> QED
  BY <1>2, <1>3, <1>4, <1>5, <1>6

\* A turn inside the agent loop.
LEMMA LoopTypes ==
  ASSUME TypesOK, AgentAssumption, Agent \/ QuestionCloses
  PROVE  /\ TypesOK' /\ AgentAction
         /\ UNCHANGED <<disk, slot, sent, handler, tasks, stored>>
<1>1. AgentAction
  BY DEF Agent, QuestionCloses, ReviewCancelled, AgentAction
<1>2. /\ UNCHANGED <<disk, slot, sent, handler, tasks, stored>>
      /\ inbox' = inbox \/ DropAnswers
  BY DEF Agent, QuestionCloses, client
<1>3. inbox' \in Seq(ClientMessage)
  BY <1>2, DroppedType DEF TypesOK, DataOK
<1>4. RunOK' /\ PermOK' /\ flag' = flag /\ delivered' \in BOOLEAN /\ Running /\ Running'
  BY <1>1, AgentRunOK, AgentMoves DEF TypesOK, PermOK, DataOK
<1>5. run.at # "none" /\ run'.at # "none"
  BY <1>4 DEF Running
<1> QED
  BY <1>1, <1>2, <1>3, <1>4, <1>5 DEF TypesOK, DataOK, LockOK, HandlerOK, slot

\* Every step keeps the types.
LEMMA NextTypes ==
  ASSUME TypesOK, AgentAssumption, RuntimeAssumption, [Next]_vars
  PROVE  TypesOK'
<1>1. CASE UNCHANGED vars
  <2>1. RunOK'
    BY <1>1, SameRunOK DEF TypesOK, vars, agent
  <2> QED
    BY <1>1, <2>1 DEF vars, agent, slot, client, TypesOK, PermOK, DataOK, LockOK, HandlerOK
<1>2. CASE Client
  BY <1>2, ClientTypes
<1>3. CASE Handlers
  BY <1>3, DispatchedTypes, ResumedTypes DEF Handlers
<1>4. CASE Turn
  BY <1>4, PromptTypes, LoopTypes DEF Turn
<1> QED
  BY <1>1, <1>2, <1>3, <1>4 DEF Next

-----------------------------------------------------------------------------
(* What the types give: TypeOK and StopsWhenCancelled.                     *)

LEMMA HistoryOK ==
  ASSUME NEW h \in History
  PROVE  IsHistory(h)
<1>1. \A i \in DOMAIN h : h[i] \in MessageRecord
  BY DEF History
<1>2. \A m \in MessageRecord : /\ m.role \in Roles /\ m.text \in Nat
                               /\ m.role = "tool" => m.result \in Results
  BY DEF MessageRecord, Roles
<1> QED
  BY <1>1, <1>2 DEF IsHistory

\* The session's state is well formed whatever the client sends in whatever
\* order: in particular the lock of the slot is held by the prompt exactly while
\* one runs, and a group that is admitted never reaches past the batch.
THEOREM TypeInvariant == Spec => []TypeOK
<1>1. Init => TypesOK
  BY InitTypes, AgentAssumption, RuntimeAssumption
<1>2. TypesOK /\ [Next]_vars => TypesOK'
  BY NextTypes, AgentAssumption, RuntimeAssumption
<1>3. TypesOK => TypeOK
  <2> SUFFICES ASSUME TypesOK
               PROVE  TypeOK
    OBVIOUS
  <2>1. RunOK /\ PermOK /\ DataOK /\ LockOK /\ HandlerOK
    BY DEF TypesOK
  <2>2. IsHistory(disk.history) /\ IsHistory(session.history) /\ IsHistory(run.messages)
    BY <2>1, SessionTypes, RunTypes, HistoryOK
  <2>3. disk.model \in Models /\ session.model \in Models
    BY <2>1, SessionTypes
  <2>4. /\ run.step <= MaxSteps /\ Len(run.outcomes) <= Len(run.calls)
        /\ run.at \in {"admit", "review", "start", "execute"} =>
             Len(run.outcomes) + run.group <= Len(run.calls)
    BY <2>1 DEF RunOK, Admission
  <2>5. \A i \in DOMAIN run.outcomes : run.outcomes[i] \in Results
    BY <2>1, RunTypes
  <2>6. handler.at \in {"none", "build", "lock", "save"}
    BY <2>1, HandlerTypes
  <2> QED
    BY <2>1, <2>2, <2>3, <2>4, <2>5, <2>6 DEF DataOK, PermOK, LockOK, TypeOK
<1> QED
  BY <1>1, <1>2, <1>3, PTL DEF Spec

\* A step that is not one of the agent loop asks no provider and starts no tool.
LEMMA OtherSteps ==
  ASSUME TypesOK, AgentAssumption, [Next]_vars, ~AgentAction
  PROVE  run'.at \in {"model", "execute"} => run'.at = run.at
<1>1. CASE Client \/ Handlers \/ UNCHANGED vars
  <2>1. UNCHANGED run
    <3>1. ~HandleAnswer
      BY DEF HandleAnswer, AgentAction
    <3> QED
      BY <1>1, <3>1 DEF Client, SendPrompt, SendRequest, SendAnswer, Send, Handlers, HandlePrompt,
           HandleCancel, HandleSetMode, HandleConfig, HandleClose, HandleLoad, LoadBuilt, LoadFails,
           HandlerLocks, ConfigModelLocks, ConfigModelSaved, ConfigModelFails, vars, agent
  <2> QED
    BY <2>1
<1>2. CASE Turn
  <2>1. ~Agent /\ ~QuestionCloses
    BY LoopTypes
  <2>2. RunOK
    BY DEF TypesOK
  <2>3. run \in RunRecord
    BY <2>2 DEF RunOK
  <2>4. StartPrompt => run' = run \/ run'.at = "gateway"
    BY NoRunOK DEF StartPrompt
  <2>5. Release => run'.at = "none"
    BY DEF Release, NoRun
  <2>6. GatewayReady => run'.at = "stage"
    BY <2>3 DEF GatewayReady, RunRecord
  <2>7. StageSaved => run'.at = "loop"
    BY <2>3 DEF StageSaved, RunRecord
  <2>8. TurnEnds => Release \/ run'.at = "save"
    BY <2>3 DEF TurnEnds, RunRecord
  <2>9. GatewayRefused \/ StageFails \/ TurnSaved \/ TurnNotSaved => Release
    BY DEF GatewayRefused, StageFails, TurnSaved, TurnNotSaved
  <2> QED
    BY <1>2, <2>1, <2>4, <2>5, <2>6, <2>7, <2>8, <2>9 DEF Turn
<1> QED
  BY <1>1, <1>2 DEF Next

\* A cancellation is final for the turn: while the flag is up no further request
\* goes to the provider and no admitted tool begins, in any interleaving of the
\* client's messages with the turn.
THEOREM Cancellation == Spec => StopsWhenCancelled
<1>1. Init => TypesOK
  BY InitTypes, AgentAssumption, RuntimeAssumption
<1>2. TypesOK /\ [Next]_vars => TypesOK'
  BY NextTypes, AgentAssumption, RuntimeAssumption
<1>3. TypesOK /\ [Next]_vars =>
        [flag /\ flag' /\ run'.at \in {"model", "execute"} => run.at = run'.at]_vars
  <2> SUFFICES ASSUME TypesOK, [Next]_vars, flag, run'.at \in {"model", "execute"}
               PROVE  run.at = run'.at
    OBVIOUS
  <2>1. CASE AgentAction
    BY <2>1, AgentMoves DEF TypesOK, DataOK
  <2>2. CASE ~AgentAction
    BY <2>2, OtherSteps, AgentAssumption
  <2> QED
    BY <2>1, <2>2
<1> QED
  BY <1>1, <1>2, <1>3, PTL DEF Spec, StopsWhenCancelled
=============================================================================
