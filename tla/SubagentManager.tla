-------------------------- MODULE SubagentManager --------------------------
(***************************************************************************)
(* fx-subagent: the managers of a root session's child agents, their       *)
(* snapshot file, and the executor fx-runtime gives them.  Everything      *)
(* between two awaits is one step: fx runs on a current-thread executor.   *)
(*                                                                         *)
(* A session that is loaded gets a new manager, restored from the file.    *)
(* close_session ends nothing of the old one: its runs go on, with their   *)
(* own children, queues and commands, and save the same file.              *)
(*                                                                         *)
(* A message is a value of Messages, a permission mode its rank (ask 0,    *)
(* auto 1, yolo 2).  Left out of a child: name, model, history, activity,  *)
(* events, outputs and the generation.                                     *)
(***************************************************************************)
EXTENDS Naturals, FiniteSets, Sequences

CONSTANTS
  Names,      \* the identifiers create may draw (Uuid::new_v4)
  Root,       \* the root session
  Messages,   \* the prompts and messages callers may send, each once
  RootRanks,  \* the modes the root session is ever in
  MaxOps,     \* bound: commands
  MaxBeside,  \* bound: commands up to the last that one of several managers takes
  MaxMishaps  \* bound: saves that fail and managers that are restored

\* No parent; no queued message to resume with.
Detached == "detached"
Generic == "reassess"

ASSUME ManagerAssumption ==
  /\ Root \notin Names /\ Detached \notin Names /\ IsFiniteSet(Names)
  /\ Generic \notin Messages /\ RootRanks \subseteq 0 .. 2
  /\ MaxOps \in Nat /\ MaxMishaps \in Nat

\* The managers of the session, in the order they are made.
Managers == 0 .. MaxMishaps

VARIABLES
  alive,      \* the managers that somebody still uses
  children,  \* SubagentManager.children of each: ChildSnapshots
  flag,      \* Child.cancellation
  tasks,     \* the run_child tasks that were spawned and have not returned
  waiter,    \* an inspect.wait on Child.notify
  disk,      \* the snapshot file
  sent,      \* history: messages a command took
  handed,    \* history: how often each manager gave each message to an executor
  shared,    \* history: messages two managers had, restored beside one another
  ops, faults, restores

vars == <<alive, children, flag, tasks, waiter, disk, sent, handed, shared, ops, faults, restores>>
runVars == <<alive, sent, shared, ops, restores>>

\* No child of that name.
Absent == [state |-> "absent", persistent |-> FALSE, rank |-> 0, parent |-> Detached,
           queue |-> << >>]

Present(cs) == {c \in Names : cs[c].state # "absent"}
Settled(k, c) == children[k][c].state \notin {"queued", "running"}

-----------------------------------------------------------------------------
(* Authority: a caller commands itself and its descendants, the root all.  *)

\* The children the parent links lead to from n, n included: what every set that holds n
\* and, with a child, its parent, has to hold.
Lineage(cs, n) ==
  {a \in Names : \A S \in SUBSET Names :
     (n \in S /\ \A s \in S : cs[s].parent \in S \cup {Root, Detached}) => a \in S}

\* Mutant: a step too few.
WalkShort(cs, n, steps) ==
  [i \in 0 .. steps |-> IF i \in {0, steps} \/ n \notin Present(cs) THEN n ELSE cs[n].parent]

\* The loops of is_authorized and relationship_would_cycle: where `steps` links lead.
Walk(cs, n, steps) ==
  LET at[i \in 0 .. steps] ==
        IF i = 0 THEN n
        ELSE IF at[i - 1] \in Present(cs) THEN cs[at[i - 1]].parent ELSE at[i - 1]
  IN  at

IsAuthorized(by, c) ==
  /\ c \in Present(children[by.of])
  /\ by.id = Root \/ by.id \in Lineage(children[by.of], c)

\* Mutant: only the immediate circle is refused.
WouldCycleNow(cs, c, parent) == c = parent

WouldCycle(cs, c, parent) == c \in Lineage(cs, parent)

\* Mutant: the tool of a child passes on the highest mode.
CallersYolo ==
  [of : alive, id : {Root}, rank : RootRanks]
    \cup {[of |-> t.of, id |-> t.child, rank |-> 2] : t \in {u \in tasks : u.at = "run"}}

\* SubagentTool: which manager it commands, who may call it, and the mode it passes on.  A
\* child's run keeps its manager, and the mode its request was made with; the root session
\* may be loaded by several processes.
Callers ==
  [of : alive, id : {Root}, rank : RootRanks]
    \cup {[of |-> t.of, id |-> t.child, rank |-> t.rank] : t \in {u \in tasks : u.at = "run"}}

-----------------------------------------------------------------------------
(* Saving and waking.                                                      *)

\* SubagentStore::save: the whole file or, when the lock, the directory or the write
\* fails, nothing of it.
Save(next) == disk' = next /\ UNCHANGED faults
SaveFails == faults + restores < MaxMishaps /\ faults' = faults + 1 /\ UNCHANGED disk

Woken(k, c) == [waiter EXCEPT ![k][c] = IF @ = "asleep" THEN "woken" ELSE @]

\* One more command, within the bounds.
Bidden ==
  /\ ops < MaxOps /\ (alive # {restores} => ops < MaxBeside)
  /\ ops' = ops + 1

\* The end of a command that changed c: persist, then notify_waiters, then spawn_run.
\* When the save fails, `?` leaves before the last two.
Command(k, next, c, spawned) ==
  /\ Bidden
  /\ children' = [children EXCEPT ![k] = next]
  /\ \/ Save(next) /\ waiter' = Woken(k, c) /\ tasks' = tasks \cup spawned
     \/ SaveFails /\ UNCHANGED <<waiter, tasks>>
  /\ UNCHANGED <<alive, handed, shared, restores>>

\* Mutant: a run saves and wakes nobody.
SaveInRunQuiet(k, next, c) ==
  /\ children' = [children EXCEPT ![k] = next]
  /\ Save(next) \/ SaveFails
  /\ UNCHANGED <<waiter, runVars>>

\* In a run a failed save is ignored.
SaveInRun(k, next, c) ==
  /\ children' = [children EXCEPT ![k] = next]
  /\ waiter' = Woken(k, c)
  /\ Save(next) \/ SaveFails
  /\ UNCHANGED runVars

Spawn(k, c, prompt) ==
  {[of |-> k, id |-> ops, child |-> c, prompt |-> prompt, at |-> "spawned", rank |-> 0]}

-----------------------------------------------------------------------------
(* The commands.                                                           *)

\* The identifier is new: no manager of the session has it.
Create(by, c, persistent, rank, prompt) ==
  LET start == prompt # Generic
      new == [state |-> IF start THEN "queued" ELSE "idle", persistent |-> persistent,
              rank |-> rank, parent |-> by.id, queue |-> << >>]
  IN  /\ \A k \in Managers : c \notin Present(children[k])
      /\ rank <= by.rank
      /\ persistent \/ start
      /\ prompt \notin sent
      /\ Command(by.of, [children[by.of] EXCEPT ![c] = new], c, IF start THEN Spawn(by.of, c, prompt) ELSE {})
      /\ sent' = sent \cup ({prompt} \ {Generic})
      /\ UNCHANGED flag

Send(by, c, m) ==
  LET child == children[by.of][c]
      start == Settled(by.of, c)
      next == IF start THEN [child EXCEPT !.state = "queued"]
              ELSE [child EXCEPT !.queue = Append(@, m)]
  IN  /\ IsAuthorized(by, c)
      /\ child.persistent /\ child.state # "archived"
      /\ m \notin sent
      /\ Command(by.of, [children[by.of] EXCEPT ![c] = next], c, IF start THEN Spawn(by.of, c, m) ELSE {})
      /\ sent' = sent \cup {m}
      /\ UNCHANGED flag

\* A milestone changes nothing kept here: it saves and wakes.
Milestone(by) ==
  /\ by.id # Root /\ IsAuthorized(by, by.id)
  /\ Command(by.of, children[by.of], by.id, {})
  /\ UNCHANGED <<sent, flag>>

Configure(by, c, rank) ==
  /\ IsAuthorized(by, c)
  /\ Settled(by.of, c)
  /\ rank <= by.rank
  /\ Command(by.of, [children[by.of] EXCEPT ![c].rank = rank], c, {})
  /\ UNCHANGED <<sent, flag>>

\* Attach is a move under the root, detach one under nobody.
Relate(by, c, parent) ==
  LET cs == children[by.of]
  IN  /\ by.id = Root /\ c \in Present(cs)
      /\ parent \in Names => parent \in Present(cs) /\ ~WouldCycle(cs, c, parent)
      /\ Command(by.of, [cs EXCEPT ![c].parent = parent], c, {})
      /\ UNCHANGED <<sent, flag>>

Cancel(by, c) ==
  /\ IsAuthorized(by, c)
  /\ ~Settled(by.of, c)
  /\ flag' = [flag EXCEPT ![by.of][c] = TRUE]
  /\ Command(by.of, [children[by.of] EXCEPT ![c].state = "cancelled"], c, {})
  /\ UNCHANGED sent

Close(by, c) ==
  /\ IsAuthorized(by, c)
  /\ flag' = [flag EXCEPT ![by.of][c] = TRUE]
  /\ Command(by.of, [children[by.of] EXCEPT ![c].state = "archived", ![c].queue = << >>], c, {})
  /\ UNCHANGED sent

Reopen(by, c) ==
  LET child == children[by.of][c]
  IN  /\ IsAuthorized(by, c)
      /\ child.state = "archived"
      /\ Command(by.of, [children[by.of] EXCEPT
                           ![c].state = IF child.persistent THEN "idle" ELSE "interrupted"],
                 c, {})
      /\ UNCHANGED <<sent, flag>>

\* What resume does to the queue it finds, and the prompt it runs.
ResumesWith(by, c, rest, prompt) ==
  /\ IsAuthorized(by, c)
  /\ children[by.of][c].state \in {"interrupted", "failed", "cancelled"}
  /\ Command(by.of, [children[by.of] EXCEPT ![c].state = "queued", ![c].queue = rest], c,
             Spawn(by.of, c, prompt))
  /\ UNCHANGED <<sent, flag>>

NextPrompt(queue) == IF queue = << >> THEN Generic ELSE Head(queue)

\* Mutant: the prompt stays queued.
ResumeKeeps(by, c) ==
  LET queue == children[by.of][c].queue IN ResumesWith(by, c, queue, NextPrompt(queue))

\* Mutant: the generic prompt is queued as a message.
ResumeQueues(by, c) ==
  LET queue == children[by.of][c].queue IN ResumesWith(by, c, <<NextPrompt(queue)>>, NextPrompt(queue))

Resume(by, c) ==
  LET queue == children[by.of][c].queue
  IN  ResumesWith(by, c, IF queue = << >> THEN queue ELSE Tail(queue), NextPrompt(queue))

\* inspect.wait: asleep until notified, then it looks again, or its deadline passes.
Wait(by, c) ==
  /\ IsAuthorized(by, c) /\ Bidden
  /\ waiter[by.of][c] = "none" /\ ~Settled(by.of, c)
  /\ waiter' = [waiter EXCEPT ![by.of][c] = "asleep"]
  /\ UNCHANGED <<alive, children, flag, tasks, disk, sent, handed, shared, faults, restores>>

LookAgain(k, c) ==
  /\ waiter[k][c] = "woken"
  /\ waiter' = [waiter EXCEPT ![k][c] = IF Settled(k, c) THEN "none" ELSE "asleep"]
  /\ UNCHANGED <<runVars, children, flag, tasks, disk, handed, faults>>

WaitTimesOut(k, c) ==
  /\ waiter[k][c] # "none"
  /\ waiter' = [waiter EXCEPT ![k][c] = "none"]
  /\ UNCHANGED <<runVars, children, flag, tasks, disk, handed, faults>>

-----------------------------------------------------------------------------
(* run_child.                                                              *)

\* The head of the loop: the flag is reset, the request made and the executor called.
Start(t) ==
  LET k == t.of
      c == t.child
      child == children[k][c]
  IN  /\ t.at = "spawned"
      /\ flag' = [flag EXCEPT ![k][c] = FALSE]
      /\ IF child.state = "archived"
         THEN /\ tasks' = tasks \ {t}
              /\ UNCHANGED <<runVars, children, waiter, disk, handed, faults>>
         ELSE /\ tasks' = (tasks \ {t}) \cup {[t EXCEPT !.at = "run", !.rank = child.rank]}
              /\ handed' = IF t.prompt \in Messages
                           THEN [handed EXCEPT ![k][t.prompt] = @ + 1] ELSE handed
              /\ SaveInRun(k, [children[k] EXCEPT ![c].state = "running"], c)

\* LiveEvents::emit, when the child's agent runs a tool.
Emit(t) ==
  /\ t.at = "run"
  /\ SaveInRun(t.of, children[t.of], t.child)
  /\ UNCHANGED <<flag, tasks, handed>>

\* The child's agent reads the flag and stops.
Observe(t) ==
  /\ t.at = "run" /\ flag[t.of][t.child]
  /\ tasks' = (tasks \ {t}) \cup {[t EXCEPT !.at = "stopped"]}
  /\ UNCHANGED <<runVars, children, flag, waiter, disk, handed, faults>>

\* RuntimeChildExecutor::run: the agent of the child ends its turn, or the model, the
\* gateway, the tools or the loop fail.
Outcomes(t) == IF t.at = "run" THEN {"ok", "failed"} ELSE {"ok"}

\* The state a result leaves, before a queued message is looked for.
Result(t, outcome) ==
  IF outcome = "failed" THEN "failed"
  ELSE IF t.at = "stopped" \/ flag[t.of][t.child] THEN "cancelled"
  ELSE IF children[t.of][t.child].persistent THEN "idle" ELSE "completed"

\* Mutant: a result is recorded whatever became of the child.
SettleLate(t, outcome) ==
  /\ t.at # "spawned" /\ outcome \in Outcomes(t)
  /\ tasks' = tasks \ {t}
  /\ SaveInRun(t.of, [children[t.of] EXCEPT ![t.child].state = Result(t, outcome)], t.child)
  /\ UNCHANGED <<flag, handed>>

\* The executor returns.  A persistent child goes on with its next message.
Settle(t, outcome) ==
  LET c == t.child
      child == children[t.of][c]
      more == child.persistent /\ child.queue # << >>
      next == IF child.state = "archived" THEN child
              ELSE IF more THEN [child EXCEPT !.state = "queued", !.queue = Tail(@)]
              ELSE [child EXCEPT !.state = Result(t, outcome)]
      again == IF child.state # "archived" /\ more
               THEN {[t EXCEPT !.at = "spawned", !.rank = 0, !.prompt = Head(child.queue)]}
               ELSE {}
  IN  /\ t.at # "spawned" /\ outcome \in Outcomes(t)
      /\ tasks' = (tasks \ {t}) \cup again
      /\ SaveInRun(t.of, [children[t.of] EXCEPT ![c] = next], c)
      /\ UNCHANGED <<flag, handed>>

-----------------------------------------------------------------------------
(* SubagentManager::restore, when the session is loaded.                   *)

\* SubagentStore::load gives the children of the last save, whoever made it.
Loaded == disk

\* Mutant: only a running child is taken for interrupted.
RestoredRunning(cs) ==
  [c \in Names |-> IF cs[c].state = "running"
                   THEN [cs[c] EXCEPT !.state = "interrupted"] ELSE cs[c]]

Restored(cs) ==
  [c \in Names |-> IF cs[c].state \in {"queued", "running"}
                   THEN [cs[c] EXCEPT !.state = "interrupted"] ELSE cs[c]]

NoChildren == [c \in Names |-> Absent]
NoFlags == [c \in Names |-> FALSE]
NoWaiters == [c \in Names |-> "none"]
Queued(cs) == UNION {{cs[c].queue[i] : i \in DOMAIN cs[c].queue} : c \in Names}

\* `others` are the managers that live on: none when the host has died, or nothing was left
\* of a session that was closed; in the same process the one whose runs close_session has
\* left running; and those of other processes.  (A restore whose save fails gives none.)
Restore(others) ==
  /\ faults + restores < MaxMishaps /\ restores' = restores + 1
  /\ alive' = others \cup {restores'}
  /\ children' = [k \in Managers |-> IF k = restores' THEN Restored(Loaded)
                                     ELSE IF k \in others THEN children[k] ELSE NoChildren]
  /\ flag' = [k \in Managers |-> IF k \in others THEN flag[k] ELSE NoFlags]
  /\ waiter' = [k \in Managers |-> IF k \in others THEN waiter[k] ELSE NoWaiters]
  /\ tasks' = {t \in tasks : t.of \in others}
  /\ disk' = Restored(Loaded)
  /\ shared' = IF others = {} THEN shared ELSE shared \cup Queued(Loaded)
  /\ UNCHANGED <<sent, handed, ops, faults>>

-----------------------------------------------------------------------------
Init ==
  /\ alive = {0} /\ children = [k \in Managers |-> NoChildren] /\ disk = NoChildren
  /\ flag = [k \in Managers |-> NoFlags] /\ waiter = [k \in Managers |-> NoWaiters]
  /\ tasks = {} /\ sent = {} /\ handed = [k \in Managers |-> [m \in Messages |-> 0]] /\ shared = {}
  /\ ops = 0 /\ faults = 0 /\ restores = 0

TaskStep == \E t \in tasks : Start(t) \/ Observe(t) \/ \E o \in {"ok", "failed"} : Settle(t, o)

Next ==
  \/ /\ ops < MaxOps
     /\ \/ \E by \in Callers, c \in Names :
             \/ \E p \in BOOLEAN, r \in 0 .. 2, m \in Messages \cup {Generic} : Create(by, c, p, r, m)
             \/ \E m \in Messages : Send(by, c, m)
             \/ \E r \in 0 .. 2 : Configure(by, c, r)
             \/ \E p \in Names \cup {Root, Detached} : Relate(by, c, p)
             \/ Cancel(by, c) \/ Close(by, c) \/ Reopen(by, c) \/ Resume(by, c) \/ Wait(by, c)
        \/ \E by \in Callers : Milestone(by)
  \/ \E k \in alive, c \in Names : LookAgain(k, c) \/ WaitTimesOut(k, c)
  \/ \E t \in tasks : Emit(t)
  \/ TaskStep
  \/ \E others \in SUBSET alive : Restore(others)

Spec == Init /\ [][Next]_vars

-----------------------------------------------------------------------------
ChildRecord ==
  [state : {"absent", "idle", "queued", "running", "interrupted", "completed", "failed",
            "cancelled", "archived"},
   persistent : BOOLEAN, rank : 0 .. 2, parent : Names \cup {Root, Detached},
   queue : Seq(Messages)]

\* The types of the managers' state.
TypeOK ==
  /\ alive \subseteq Managers /\ children \in [Managers -> [Names -> ChildRecord]]
  /\ disk \in [Names -> ChildRecord] /\ flag \in [Managers -> [Names -> BOOLEAN]]
  /\ waiter \in [Managers -> [Names -> {"none", "asleep", "woken"}]]
  /\ tasks \subseteq [of : alive, id : Nat, child : Names, prompt : Messages \cup {Generic},
                      at : {"spawned", "run", "stopped"}, rank : 0 .. 2]
  /\ sent \subseteq Messages /\ shared \subseteq Messages /\ handed \in [Managers -> [Messages -> Nat]]
  /\ ops \in 0 .. MaxOps /\ faults \in Nat /\ restores \in Nat /\ faults + restores <= MaxMishaps

NoCircle(cs) ==
  \A S \in SUBSET Names : S # {} => \E s \in S : cs[s].parent \notin S

\* No child, no saved child and no run ever has a mode above every mode the root session
\* was in, however deep the chain of creators and whoever reconfigured it: create and
\* configure compare with the authority of the run that asks, not of the child now.
PermissionCeiling ==
  /\ \A k \in Managers, c \in Names : \E r \in RootRanks \cup {0} : children[k][c].rank <= r
  /\ \A c \in Names : \E r \in RootRanks \cup {0} : disk[c].rank <= r
  /\ \A t \in tasks : \E r \in RootRanks \cup {0} : t.rank <= r

\* Nobody has a mode above the root's, and parent links never close a circle, in the memory
\* of a manager or on disk, whoever saved last, so that the walks of is_authorized and
\* relationship_would_cycle end: every set of children has one whose parent is outside.
Authority == PermissionCeiling /\ NoCircle(disk) /\ \A k \in Managers : NoCircle(children[k])

\* The walks stop after children.len() links.  By then they have left the children, so a
\* move that closes no circle is never refused, and they have met every ancestor.
WalkSuffices ==
  \A k \in alive :
    LET cs == children[k]
        len == Cardinality(Present(cs))
    IN  \A c \in Present(cs) :
          /\ Walk(cs, c, len)[len] \notin Present(cs)
          /\ \A a \in Lineage(cs, c) : \E i \in 0 .. len : Walk(cs, c, len)[i] = a

\* A child that is queued or running has a task of its manager that will settle it, so a
\* waiting parent gets an answer, after a restore, a close and reopen, or a second run next
\* to a cancelled one; and no parent in inspect.wait is asleep next to a child that has
\* settled.  (A save that fails leaves a queued child nothing runs, and wakes nobody.)
ParentAnswered ==
  faults = 0 => \A k \in alive, c \in Names :
    /\ Settled(k, c) \/ \E t \in tasks : t.of = k /\ t.child = c
    /\ waiter[k][c] = "asleep" => ~Settled(k, c)

\* No manager gives a message to an executor twice, whatever fails, not by a settle or a
\* resume, nor with a queue it has read from disk; and no two managers give the same one.
\* (A save that fails leaves a taken message in the file, and one that was queued there when
\* a manager was restored beside one that lives on is with both.)
AtMostOnce ==
  \A k \in Managers, m \in Messages :
    /\ handed[k][m] <= 1
    /\ faults = 0 /\ m \notin shared /\ handed[k][m] # 0 => \A j \in Managers : handed[j][m] # 0 => j = k

\* The late result of a run cannot bring a closed child back: in a manager it leaves
\* "archived" by a reopen only, which leaves the tasks alone.  (In the file it is what the
\* manager that saved last has.)
ClosedStaysClosed ==
  [][\A k \in alive', c \in Names :
       children[k][c].state = "archived" /\ children'[k][c].state # "archived" => tasks' = tasks]_vars
=============================================================================
