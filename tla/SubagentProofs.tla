--------------------------- MODULE SubagentProofs ---------------------------
(***************************************************************************)
(* Proofs about SubagentManager, for any names, messages and modes of the  *)
(* root session, and any managers restored one after another or beside one *)
(* another: authority stays within the root's and free of circles, no      *)
(* manager hands a message over twice and no two the same, parents are     *)
(* answered, and the walks along the parent links are long enough.         *)
(***************************************************************************)
EXTENDS SubagentManager, SequenceTheorems, NaturalLemmas, TLAPS

USE ManagerAssumption

-----------------------------------------------------------------------------
(* The inductive invariant.  A parent has to exist: a child created with a *)
(* name that others have as their parent could close a circle.             *)

Bounded(rank) == \E r \in RootRanks \cup {0} : rank <= r

Anchored(cs) == \A c \in Names : cs[c].parent \in Names => cs[cs[c].parent].state # "absent"

Sound(cs) ==
  /\ cs \in [Names -> ChildRecord]
  /\ NoCircle(cs)
  /\ Anchored(cs)
  /\ \A c \in Names : Bounded(cs[c].rank)

Task == [of : Managers, id : Nat, child : Names, prompt : Messages \cup {Generic},
         at : {"spawned", "run", "stopped"}, rank : 0 .. 2]

TaskOK(t, css) == t \in Task /\ css[t.of][t.child].state # "absent" /\ Bounded(t.rank)
TasksOK(ts, css) == \A t \in ts : TaskOK(t, css)

\* The managers, the histories and the bounds.
CountsOK ==
  /\ alive \subseteq Managers /\ restores \in alive /\ \A k \in alive : k <= restores
  /\ \A t \in tasks : t.of \in alive
  /\ \A k \in Managers : k \notin alive => children[k] = NoChildren
  /\ flag \in [Managers -> [Names -> BOOLEAN]]
  /\ waiter \in [Managers -> [Names -> {"none", "asleep", "woken"}]]
  /\ sent \subseteq Messages /\ shared \subseteq Messages /\ handed \in [Managers -> [Messages -> Nat]]
  /\ ops \in 0 .. MaxOps /\ faults \in Nat /\ restores \in Nat /\ faults + restores <= MaxMishaps

ManagersSound(css) ==
  css \in [Managers -> [Names -> ChildRecord]] /\ \A k \in Managers : Sound(css[k])

IInv == ManagersSound(children) /\ Sound(disk) /\ TasksOK(tasks, children) /\ CountsOK

-----------------------------------------------------------------------------
(* What the commands do to a sound set of children.                        *)

\* A change that leaves the parent, and the rank within the bound.
LEMMA UpdateSound ==
  ASSUME NEW cs, Sound(cs), NEW c \in Names, NEW new \in ChildRecord,
         new.parent = cs[c].parent, new.state # "absent", Bounded(new.rank)
  PROVE  Sound([cs EXCEPT ![c] = new])
<1> DEFINE ds == [cs EXCEPT ![c] = new]
<1>1. ds \in [Names -> ChildRecord]
  BY DEF Sound
<1>2. \A d \in Names : ds[d].parent = cs[d].parent
  BY DEF Sound
<1>3. \A d \in Names : ds[d].state # "absent" \/ ds[d].state = cs[d].state
  BY DEF Sound
<1>4. \A d \in Names : Bounded(ds[d].rank)
  BY DEF Sound
<1> HIDE DEF ds
<1>5. NoCircle(ds)
  BY <1>2 DEF Sound, NoCircle
<1>6. Anchored(ds)
  BY <1>2, <1>3 DEF Sound, Anchored
<1>7. Sound(ds)
  BY <1>1, <1>4, <1>5, <1>6 DEF Sound
<1> QED
  BY <1>7 DEF ds

\* create: a new child under the root or under a child there is.
LEMMA CreateSound ==
  ASSUME NEW cs, Sound(cs), NEW c \in Names, cs[c].state = "absent",
         NEW new \in ChildRecord, new.state # "absent", Bounded(new.rank),
         new.parent \in Names => cs[new.parent].state # "absent"
  PROVE  Sound([cs EXCEPT ![c] = new])
<1> DEFINE ds == [cs EXCEPT ![c] = new]
<1>1. ds \in [Names -> ChildRecord]
  BY DEF Sound
<1>2. /\ \A d \in Names \ {c} : ds[d] = cs[d]
      /\ ds[c] = new
  BY DEF Sound
<1>3. \A d \in Names : Bounded(ds[d].rank)
  BY <1>2 DEF Sound
<1>4. \A d \in Names : cs[d].parent # c
  BY DEF Sound, Anchored
<1>5. new.parent # c
  OBVIOUS
<1> HIDE DEF ds
<1>6. ASSUME NEW S \in SUBSET Names, S # {}
      PROVE  \E s \in S : ds[s].parent \notin S
  <2>1. CASE S \ {c} = {}
    <3>1. S = {c}
      BY <1>6, <2>1
    <3> QED
      BY <3>1, <1>2, <1>5
  <2>2. CASE S \ {c} # {}
    <3>1. S \ {c} \in SUBSET Names
      OBVIOUS
    <3>2. PICK s \in S \ {c} : cs[s].parent \notin S \ {c}
      BY <3>1, <2>2 DEF Sound, NoCircle
    <3>3. cs[s].parent \notin S
      BY <3>2, <1>4
    <3> QED
      BY <3>3, <1>2
  <2> QED
    BY <2>1, <2>2
<1>7. NoCircle(ds)
  BY <1>6 DEF NoCircle
<1>8. \A d \in Names : cs[d].state # "absent" => ds[d].state # "absent"
  BY <1>2
<1>9. \A d \in Names : ds[d].parent \in Names => cs[ds[d].parent].state # "absent"
  BY <1>2 DEF Sound, Anchored
<1>10. Anchored(ds)
  BY <1>8, <1>9 DEF Anchored
<1>11. Sound(ds)
  BY <1>1, <1>3, <1>7, <1>10 DEF Sound
<1> QED
  BY <1>11 DEF ds

\* relationship: a child moved under a parent it is no ancestor of.
LEMMA RelateSound ==
  ASSUME NEW cs, Sound(cs), NEW c \in Names, NEW parent \in Names \cup {Root, Detached},
         cs[c].state # "absent",
         parent \in Names => cs[parent].state # "absent" /\ c \notin Lineage(cs, parent)
  PROVE  Sound([cs EXCEPT ![c].parent = parent])
<1> DEFINE ds == [cs EXCEPT ![c].parent = parent]
<1>1. ds \in [Names -> ChildRecord]
  BY DEF Sound, ChildRecord
<1>2. /\ \A d \in Names \ {c} : ds[d] = cs[d]
      /\ ds[c].parent = parent /\ ds[c].state = cs[c].state /\ ds[c].rank = cs[c].rank
  BY DEF Sound, ChildRecord
<1>3. \A d \in Names : Bounded(ds[d].rank)
  BY <1>2 DEF Sound
<1> HIDE DEF ds
<1>4. Anchored(ds)
  BY <1>2 DEF Sound, Anchored
<1>5. \A s \in Names : cs[s].parent \in Names \cup {Root, Detached}
  BY DEF Sound, ChildRecord
<1>6. ASSUME NEW S \in SUBSET Names, S # {}
      PROVE  \E s \in S : ds[s].parent \notin S
  <2>1. PICK s \in S : cs[s].parent \notin S
    BY <1>6 DEF Sound, NoCircle
  <2>2. CASE parent \notin Names
    BY <2>1, <2>2, <1>2
  <2>3. CASE parent \in Names
    <3>1. PICK T \in SUBSET Names :
            /\ parent \in T /\ c \notin T
            /\ \A t \in T : cs[t].parent \in T \cup {Root, Detached}
      BY <2>3 DEF Lineage
    <3>2. CASE S \cap T = {}
      <4>1. parent \notin S
        BY <3>1, <3>2
      <4> QED
        BY <4>1, <2>1, <1>2
    <3>3. CASE S \cap T # {}
      <4>1. S \cap T \in SUBSET Names
        OBVIOUS
      <4>2. PICK u \in S \cap T : cs[u].parent \notin S \cap T
        BY <4>1, <3>3 DEF Sound, NoCircle
      <4>3. cs[u].parent \notin S
        BY <4>2, <3>1
      <4>4. u # c
        BY <4>2, <3>1
      <4> QED
        BY <4>2, <4>3, <4>4, <1>2
    <3> QED
      BY <3>2, <3>3
  <2> QED
    BY <2>2, <2>3
<1>7. NoCircle(ds)
  BY <1>6 DEF NoCircle
<1>8. Sound(ds)
  BY <1>1, <1>3, <1>4, <1>7 DEF Sound
<1> QED
  BY <1>8 DEF ds

\* restore: only states change, and no child is lost.
LEMMA RestoredSound ==
  ASSUME NEW cs, Sound(cs)
  PROVE  Sound(Restored(cs))
<1> DEFINE ds == Restored(cs)
<1>1. ds \in [Names -> ChildRecord]
  BY DEF Sound, ChildRecord, Restored
<1>2. \A d \in Names : /\ ds[d].parent = cs[d].parent /\ ds[d].rank = cs[d].rank
                       /\ (ds[d].state = "absent") = (cs[d].state = "absent")
  BY DEF Sound, ChildRecord, Restored
<1> HIDE DEF ds
<1>3. NoCircle(ds) /\ Anchored(ds) /\ \A d \in Names : Bounded(ds[d].rank)
  BY <1>2 DEF Sound, NoCircle, Anchored
<1>4. Sound(ds)
  BY <1>1, <1>3 DEF Sound
<1> QED
  BY <1>4 DEF ds
-----------------------------------------------------------------------------
(* What saving and waking keep.                                            *)

Grows(cs, ds) == \A d \in Names : cs[d].state # "absent" => ds[d].state # "absent"

LEMMA BoundedBelow ==
  ASSUME NEW high \in Nat, Bounded(high), NEW low \in Nat, low <= high
  PROVE  Bounded(low)
<1>1. PICK r \in RootRanks \cup {0} : high <= r
  BY DEF Bounded
<1>2. r \in Nat
  OBVIOUS
<1>3. low <= r
  BY <1>1, <1>2
<1> QED
  BY <1>3 DEF Bounded

\* Whoever calls is there, and asks for no more than the root may.
LEMMA CallerOK ==
  ASSUME IInv, NEW by \in Callers
  PROVE  /\ by.of \in alive /\ by.of \in Managers
         /\ by.rank \in 0 .. 2 /\ Bounded(by.rank)
         /\ by.id \in Names \cup {Root}
         /\ by.id \in Names => children[by.of][by.id].state # "absent"
<1>1. CASE by \in [of : alive, id : {Root}, rank : RootRanks]
  <2>1. by.of \in alive /\ by.id = Root /\ by.rank \in RootRanks
    BY <1>1
  <2>2. by.rank \in 0 .. 2
    BY <2>1, ManagerAssumption
  <2>3. by.rank <= by.rank
    BY <2>2
  <2>4. by.of \in Managers
    BY <2>1 DEF IInv, CountsOK
  <2> QED
    BY <2>1, <2>2, <2>3, <2>4 DEF Bounded
<1>2. CASE by \in {[of |-> t.of, id |-> t.child, rank |-> t.rank] : t \in {u \in tasks : u.at = "run"}}
  <2>1. PICK t \in tasks : by = [of |-> t.of, id |-> t.child, rank |-> t.rank]
    BY <1>2
  <2>2. t \in Task /\ children[t.of][t.child].state # "absent" /\ Bounded(t.rank)
    BY DEF IInv, TasksOK, TaskOK
  <2>3. t.of \in alive
    BY DEF IInv, CountsOK
  <2>4. by.of = t.of /\ by.id = t.child /\ by.rank = t.rank
    BY <2>1
  <2> QED
    BY <2>4, <2>2, <2>3 DEF Task
<1> QED
  BY <1>1, <1>2 DEF Callers

\* Tasks that a step of manager k may add.
RunsOf(ts, k, cs) ==
  \A t \in ts : t \in Task /\ t.of = k /\ cs[t.child].state # "absent" /\ Bounded(t.rank)

LEMMA SpawnOK ==
  ASSUME IInv, NEW k \in alive, NEW c \in Names, NEW prompt \in Messages \cup {Generic},
         NEW cs, cs[c].state # "absent"
  PROVE  RunsOf(Spawn(k, c, prompt), k, cs)
<1>1. ops \in Nat /\ 0 \in 0 .. 2 /\ k \in Managers
  BY DEF IInv, CountsOK
<1>2. Bounded(0)
  BY DEF Bounded
<1> QED
  BY <1>1, <1>2 DEF RunsOf, Spawn, Task

LEMMA WokenType ==
  ASSUME IInv, NEW k \in alive, NEW c \in Names
  PROVE  Woken(k, c) \in [Managers -> [Names -> {"none", "asleep", "woken"}]]
BY DEF IInv, CountsOK, Woken

\* A step of one manager, that leaves it sound children.
LEMMA OneManager ==
  ASSUME IInv, NEW k \in alive, NEW cs, Sound(cs), Grows(children[k], cs),
         children' = [children EXCEPT ![k] = cs], disk' \in {disk, cs},
         NEW more, RunsOf(more, k, cs), tasks' \subseteq tasks \cup more
  PROVE  /\ ManagersSound(children') /\ Sound(disk') /\ TasksOK(tasks', children')
         /\ \A t \in tasks' : t.of \in alive
         /\ \A j \in Managers : j \notin alive => children'[j] = NoChildren
<1>1. k \in Managers /\ ManagersSound(children) /\ Sound(disk) /\ TasksOK(tasks, children)
  BY DEF IInv, CountsOK
<1>2. children'[k] = cs /\ \A j \in Managers \ {k} : children'[j] = children[j]
  BY <1>1 DEF ManagersSound
<1>3. children' \in [Managers -> [Names -> ChildRecord]]
  BY <1>1 DEF ManagersSound, Sound
<1>4. ManagersSound(children')
  BY <1>1, <1>2, <1>3 DEF ManagersSound
<1>5. ASSUME NEW t \in tasks'
      PROVE  TaskOK(t, children') /\ t.of \in alive
  <2>1. CASE t \in tasks
    <3>1. t \in Task /\ t.of \in Managers /\ t.child \in Names /\ Bounded(t.rank)
          /\ children[t.of][t.child].state # "absent" /\ t.of \in alive
      BY <1>1, <2>1 DEF TasksOK, TaskOK, Task, IInv, CountsOK
    <3>2. children'[t.of][t.child].state # "absent"
      BY <1>2, <3>1 DEF Grows
    <3> QED
      BY <3>1, <3>2 DEF TaskOK
  <2>2. CASE t \in more
    <3>1. t \in Task /\ t.of = k /\ cs[t.child].state # "absent" /\ Bounded(t.rank)
      BY <2>2 DEF RunsOf
    <3>2. children'[t.of] = cs
      BY <3>1, <1>2
    <3> QED
      BY <3>1, <3>2 DEF TaskOK
  <2> QED
    BY <2>1, <2>2
<1>6. TasksOK(tasks', children')
  BY <1>5 DEF TasksOK
<1>7. Sound(disk')
  BY <1>1
<1>8. \A j \in Managers : j \notin alive => children'[j] = NoChildren
  BY <1>2 DEF IInv, CountsOK
<1> QED
  BY <1>4, <1>5, <1>6, <1>7, <1>8

\* A command, with whatever sound children it leaves and whatever tasks it spawns.
LEMMA CommandOK ==
  ASSUME IInv, NEW k \in alive, NEW cs, Sound(cs), Grows(children[k], cs), NEW c \in Names,
         NEW spawned, RunsOf(spawned, k, cs), Command(k, cs, c, spawned),
         flag' \in [Managers -> [Names -> BOOLEAN]], sent' \subseteq Messages
  PROVE  IInv'
<1>1. /\ children' = [children EXCEPT ![k] = cs]
      /\ UNCHANGED <<alive, handed, shared, restores>> /\ ops < MaxOps /\ ops' = ops + 1
  BY DEF Command, Bidden
<1>2. /\ disk' \in {disk, cs} /\ tasks' \subseteq tasks \cup spawned
      /\ waiter' \in {waiter, Woken(k, c)}
      /\ (faults' = faults \/ (faults + restores < MaxMishaps /\ faults' = faults + 1))
  BY DEF Command, Save, SaveFails
<1>3. /\ ManagersSound(children') /\ Sound(disk') /\ TasksOK(tasks', children')
      /\ \A t \in tasks' : t.of \in alive
      /\ \A j \in Managers : j \notin alive => children'[j] = NoChildren
  BY <1>1, <1>2, OneManager
<1>4. CountsOK'
  <2>1. waiter' \in [Managers -> [Names -> {"none", "asleep", "woken"}]]
    BY <1>2, WokenType DEF IInv, CountsOK
  <2>2. ops' \in 0 .. MaxOps
    BY <1>1 DEF IInv, CountsOK
  <2>3. faults' \in Nat /\ restores' \in Nat /\ faults' + restores' <= MaxMishaps
    BY <1>1, <1>2 DEF IInv, CountsOK
  <2> QED
    BY <2>1, <2>2, <2>3, <1>1, <1>3 DEF IInv, CountsOK
<1> QED
  BY <1>3, <1>4 DEF IInv

\* The same of a step of a run.
LEMMA SaveInRunOK ==
  ASSUME IInv, NEW k \in alive, NEW cs, Sound(cs), Grows(children[k], cs), NEW c \in Names,
         NEW more, RunsOf(more, k, cs), SaveInRun(k, cs, c), tasks' \subseteq tasks \cup more,
         flag' \in [Managers -> [Names -> BOOLEAN]], handed' \in [Managers -> [Messages -> Nat]]
  PROVE  IInv'
<1>1. /\ children' = [children EXCEPT ![k] = cs] /\ waiter' = Woken(k, c)
      /\ UNCHANGED <<alive, sent, shared, ops, restores>>
  BY DEF SaveInRun, runVars
<1>2. /\ disk' \in {disk, cs}
      /\ (faults' = faults \/ (faults + restores < MaxMishaps /\ faults' = faults + 1))
  BY DEF SaveInRun, Save, SaveFails
<1>3. /\ ManagersSound(children') /\ Sound(disk') /\ TasksOK(tasks', children')
      /\ \A t \in tasks' : t.of \in alive
      /\ \A j \in Managers : j \notin alive => children'[j] = NoChildren
  BY <1>1, <1>2, OneManager
<1>4. CountsOK'
  <2>1. faults' \in Nat /\ restores' \in Nat /\ faults' + restores' <= MaxMishaps
    BY <1>1, <1>2 DEF IInv, CountsOK
  <2>2. waiter' \in [Managers -> [Names -> {"none", "asleep", "woken"}]]
    BY <1>1, WokenType
  <2> QED
    BY <2>1, <2>2, <1>1, <1>3 DEF IInv, CountsOK
<1> QED
  BY <1>3, <1>4 DEF IInv
-----------------------------------------------------------------------------
(* The invariant holds at first, and every step keeps it.                  *)

\* Nothing there, and nobody.
LEMMA EmptySound == Sound(NoChildren)
<1>1. Absent \in ChildRecord
  BY EmptySeq DEF Absent, ChildRecord
<1>2. NoChildren \in [Names -> ChildRecord]
  BY <1>1 DEF NoChildren
<1>3. \A c \in Names : NoChildren[c].parent = Detached /\ NoChildren[c].rank = 0
  BY DEF NoChildren, Absent
<1>4. Bounded(0)
  BY DEF Bounded
<1> QED
  BY <1>2, <1>3, <1>4, ManagerAssumption DEF Sound, NoCircle, Anchored

LEMMA InitInv == ASSUME Init PROVE IInv
<1>1. 0 \in Managers
  BY DEF Managers
<1>2. NoChildren \in [Names -> ChildRecord]
  BY EmptySound DEF Sound
<1>3. ManagersSound(children) /\ Sound(disk)
  BY <1>2, EmptySound DEF Init, ManagersSound
<1>4. TasksOK(tasks, children) /\ CountsOK
  BY <1>1, ManagerAssumption DEF Init, TasksOK, CountsOK, NoFlags, NoWaiters
<1> QED
  BY <1>3, <1>4 DEF IInv

LEMMA SoundAt ==
  ASSUME IInv, NEW k \in alive
  PROVE  k \in Managers /\ Sound(children[k])
BY DEF IInv, CountsOK, ManagersSound

\* A child that is commanded, as a record.
LEMMA ChildType ==
  ASSUME IInv, NEW k \in alive, NEW c \in Names
  PROVE  children[k][c] \in ChildRecord /\ Bounded(children[k][c].rank)
BY SoundAt DEF Sound

\* A child gets another state and another queue.
LEMMA RecordSet ==
  ASSUME NEW old \in ChildRecord, NEW state \in {"archived", "queued"}, NEW queue \in Seq(Messages),
         Bounded(old.rank)
  PROVE  LET new == [old EXCEPT !.state = state, !.queue = queue]
         IN  /\ new \in ChildRecord /\ new.parent = old.parent /\ new.state = state
             /\ new.queue = queue /\ new.state # "absent" /\ Bounded(new.rank)
<1> DEFINE new == [old EXCEPT !.state = state, !.queue = queue]
<1>1. /\ new \in ChildRecord /\ new.parent = old.parent /\ new.state = state
      /\ new.queue = queue /\ new.state # "absent" /\ new.rank = old.rank
  BY DEF ChildRecord
<1> HIDE DEF new
<1>2. Bounded(new.rank)
  BY <1>1
<1> QED
  BY <1>1, <1>2 DEF new

LEMMA NothingSpawned == \A k, cs : RunsOf({}, k, cs)
BY DEF RunsOf

LEMMA FlagsTyped ==
  ASSUME IInv, NEW k \in alive, NEW c \in Names, NEW to \in BOOLEAN
  PROVE  [flag EXCEPT ![k][c] = to] \in [Managers -> [Names -> BOOLEAN]]
BY DEF IInv, CountsOK

\* The commands of a caller.
LEMMA CreateInv ==
  ASSUME IInv, NEW by \in Callers, NEW k \in alive, k = by.of, NEW c \in Names, NEW p \in BOOLEAN, NEW r \in 0 .. 2,
         NEW m \in Messages \cup {Generic}, Create(by, c, p, r, m)
  PROVE  IInv'
<1> DEFINE new == [state |-> IF m # Generic THEN "queued" ELSE "idle", persistent |-> p,
                   rank |-> r, parent |-> by.id, queue |-> << >>]
           cs == [children[k] EXCEPT ![c] = new]
           spawned == IF m # Generic THEN Spawn(k, c, m) ELSE {}
<1>1. /\ r <= by.rank
      /\ Command(k, cs, c, spawned)
      /\ sent' = sent \cup ({m} \ {Generic}) /\ flag' = flag
  BY DEF Create
<1>0. k \in Managers /\ c \notin Present(children[k])
  BY SoundAt DEF Create
<1>2. /\ by.rank \in 0 .. 2 /\ Bounded(by.rank) /\ by.id \in Names \cup {Root}
      /\ by.id \in Names => children[k][by.id].state # "absent"
  BY CallerOK
<1>3. Bounded(r)
  BY <1>1, <1>2, BoundedBelow
<1>4. new \in ChildRecord /\ new.state # "absent" /\ new.rank = r /\ new.parent = by.id
  BY <1>2, EmptySeq DEF ChildRecord
<1>5. Sound(children[k]) /\ children[k][c].state = "absent"
  BY <1>0, SoundAt DEF Present
<1> HIDE DEF new
<1>6. Sound(cs)
  BY <1>2, <1>3, <1>4, <1>5, CreateSound
<1>7. cs[c] = new /\ \A d \in Names \ {c} : cs[d] = children[k][d]
  BY <1>5 DEF Sound
<1>8. Grows(children[k], cs) /\ cs[c].state # "absent"
  BY <1>4, <1>7 DEF Grows
<1> HIDE DEF cs
<1>9. RunsOf(spawned, k, cs)
  <2>1. RunsOf(Spawn(k, c, m), k, cs)
    BY <1>8, SpawnOK
  <2> QED
    BY <2>1 DEF RunsOf
<1>10. flag' \in [Managers -> [Names -> BOOLEAN]] /\ sent' \subseteq Messages
  BY <1>1 DEF IInv, CountsOK
<1> HIDE DEF spawned
<1> QED
  BY <1>1, <1>6, <1>8, <1>9, <1>10, CommandOK

\* A command that changes one child and keeps its parent.
LEMMA ChangeInv ==
  ASSUME IInv, NEW k \in alive, NEW c \in Names, NEW new \in ChildRecord,
         new.parent = children[k][c].parent,
         new.state # "absent", Bounded(new.rank), NEW spawned,
         \A cs : cs[c].state # "absent" => RunsOf(spawned, k, cs),
         Command(k, [children[k] EXCEPT ![c] = new], c, spawned),
         flag' \in [Managers -> [Names -> BOOLEAN]], sent' \subseteq Messages
  PROVE  IInv'
<1> DEFINE cs == [children[k] EXCEPT ![c] = new]
<1>1. Sound(children[k])
  BY SoundAt
<1>2. Sound(cs)
  BY <1>1, UpdateSound
<1>3. Grows(children[k], cs) /\ cs[c].state # "absent"
  BY <1>1 DEF Grows, Sound
<1>4. Command(k, cs, c, spawned)
  OBVIOUS
<1> HIDE DEF cs
<1>5. RunsOf(spawned, k, cs)
  BY <1>3
<1> QED
  BY <1>2, <1>3, <1>4, <1>5, CommandOK

LEMMA SendInv ==
  ASSUME IInv, NEW by \in Callers, NEW k \in alive, k = by.of, NEW c \in Names, NEW m \in Messages, Send(by, c, m)
  PROVE  IInv'
<1> DEFINE child == children[k][c]
           new == IF Settled(k, c) THEN [child EXCEPT !.state = "queued"]
                  ELSE [child EXCEPT !.queue = Append(@, m)]
           spawned == IF Settled(k, c) THEN Spawn(k, c, m) ELSE {}
<1>1. /\ c \in Present(children[k]) /\ Command(k, [children[k] EXCEPT ![c] = new], c, spawned)
      /\ sent' = sent \cup {m} /\ flag' = flag
  BY DEF Send, IsAuthorized
<1>2. child \in ChildRecord /\ Bounded(child.rank) /\ child.state # "absent"
  BY <1>1, ChildType DEF Present
<1>3. Append(child.queue, m) \in Seq(Messages)
  BY <1>2, AppendProperties DEF ChildRecord
<1>4. /\ new \in ChildRecord /\ new.parent = child.parent
      /\ new.state # "absent" /\ new.rank = child.rank
  BY <1>2, <1>3 DEF ChildRecord
<1>5. \A cs : cs[c].state # "absent" => RunsOf(spawned, k, cs)
  BY SpawnOK, NothingSpawned
<1>6. flag' \in [Managers -> [Names -> BOOLEAN]] /\ sent' \subseteq Messages
  BY <1>1 DEF IInv, CountsOK
<1>7. Bounded(new.rank)
  BY <1>2, <1>4
<1> HIDE DEF new, spawned
<1> QED
  BY <1>1, <1>4, <1>5, <1>6, <1>7, ChangeInv

LEMMA ConfigureInv ==
  ASSUME IInv, NEW by \in Callers, NEW k \in alive, k = by.of, NEW c \in Names, NEW r \in 0 .. 2, Configure(by, c, r)
  PROVE  IInv'
<1> DEFINE new == [children[k][c] EXCEPT !.rank = r]
<1>1. /\ c \in Present(children[k]) /\ r <= by.rank
      /\ Command(k, [children[k] EXCEPT ![c].rank = r], c, {})
      /\ sent' = sent /\ flag' = flag
  BY DEF Configure, IsAuthorized
<1>2. children[k][c] \in ChildRecord /\ children[k][c].state # "absent"
  BY <1>1, ChildType DEF Present
<1>3. Bounded(r)
  BY <1>1, CallerOK, BoundedBelow
<1>4. /\ new \in ChildRecord /\ new.parent = children[k][c].parent
      /\ new.state # "absent" /\ Bounded(new.rank)
  BY <1>2, <1>3 DEF ChildRecord
<1>5. Command(k, [children[k] EXCEPT ![c] = new], c, {})
  BY <1>1
<1>6. flag' \in [Managers -> [Names -> BOOLEAN]] /\ sent' \subseteq Messages
  BY <1>1 DEF IInv, CountsOK
<1> HIDE DEF new
<1> QED
  BY <1>4, <1>5, <1>6, NothingSpawned, ChangeInv

LEMMA RelateInv ==
  ASSUME IInv, NEW by \in Callers, NEW k \in alive, k = by.of, NEW c \in Names, NEW parent \in Names \cup {Root, Detached},
         Relate(by, c, parent)
  PROVE  IInv'
<1> DEFINE cs == [children[k] EXCEPT ![c].parent = parent]
<1>1. /\ c \in Present(children[k])
      /\ parent \in Names => parent \in Present(children[k]) /\ c \notin Lineage(children[k], parent)
      /\ Command(k, cs, c, {}) /\ sent' = sent /\ flag' = flag
  BY DEF Relate, WouldCycle
<1>2. Sound(children[k])
  BY SoundAt
<1>3. /\ children[k][c].state # "absent"
      /\ parent \in Names => children[k][parent].state # "absent" /\ c \notin Lineage(children[k], parent)
  BY <1>1 DEF Present
<1>4. Sound(cs)
  BY <1>2, <1>3, RelateSound
<1>5. Grows(children[k], cs)
  BY <1>2 DEF Grows, Sound, ChildRecord
<1>6. flag' \in [Managers -> [Names -> BOOLEAN]] /\ sent' \subseteq Messages
  BY <1>1 DEF IInv, CountsOK
<1> HIDE DEF cs
<1> QED
  BY <1>1, <1>4, <1>5, <1>6, NothingSpawned, CommandOK

LEMMA CancelInv ==
  ASSUME IInv, NEW by \in Callers, NEW k \in alive, k = by.of, NEW c \in Names, Cancel(by, c)
  PROVE  IInv'
<1> DEFINE new == [children[k][c] EXCEPT !.state = "cancelled"]
<1>1. /\ Command(k, [children[k] EXCEPT ![c].state = "cancelled"], c, {})
      /\ sent' = sent /\ flag' = [flag EXCEPT ![k][c] = TRUE]
  BY DEF Cancel
<1>2. /\ new \in ChildRecord /\ new.parent = children[k][c].parent
      /\ new.state # "absent" /\ Bounded(new.rank)
  BY ChildType DEF ChildRecord
<1>3. Command(k, [children[k] EXCEPT ![c] = new], c, {})
  BY <1>1
<1>4. flag' \in [Managers -> [Names -> BOOLEAN]] /\ sent' \subseteq Messages
  BY <1>1, FlagsTyped DEF IInv, CountsOK
<1> HIDE DEF new
<1> QED
  BY <1>2, <1>3, <1>4, NothingSpawned, ChangeInv

LEMMA CloseInv ==
  ASSUME IInv, NEW by \in Callers, NEW k \in alive, k = by.of, NEW c \in Names, Close(by, c)
  PROVE  IInv'
<1> DEFINE new == [children[k][c] EXCEPT !.state = "archived", !.queue = << >>]
<1>1. /\ Command(k, [children[k] EXCEPT ![c].state = "archived", ![c].queue = << >>], c, {})
      /\ sent' = sent /\ flag' = [flag EXCEPT ![k][c] = TRUE]
  BY DEF Close
<1>2. /\ new \in ChildRecord /\ new.parent = children[k][c].parent
      /\ new.state # "absent" /\ Bounded(new.rank)
  <2>1. children[k][c] \in ChildRecord /\ Bounded(children[k][c].rank)
    BY ChildType
  <2>2. << >> \in Seq(Messages)
    BY EmptySeq
  <2>3. ASSUME NEW old \in ChildRecord, NEW queue \in Seq(Messages), Bounded(old.rank)
        PROVE  LET changed == [old EXCEPT !.state = "archived", !.queue = queue]
               IN  /\ changed \in ChildRecord /\ changed.parent = old.parent
                   /\ changed.state # "absent" /\ Bounded(changed.rank)
    BY <2>3, RecordSet
  <2> QED
    BY <2>1, <2>2, <2>3
<1>3. [children[k] EXCEPT ![c].state = "archived", ![c].queue = << >>] = [children[k] EXCEPT ![c] = new]
  BY SoundAt DEF Sound, ChildRecord
<1>4. Command(k, [children[k] EXCEPT ![c] = new], c, {})
  BY <1>1, <1>3
<1>5. flag' \in [Managers -> [Names -> BOOLEAN]] /\ sent' \subseteq Messages
  BY <1>1, FlagsTyped DEF IInv, CountsOK
<1> HIDE DEF new
<1> QED
  BY <1>2, <1>4, <1>5, NothingSpawned, ChangeInv

LEMMA ReopenInv ==
  ASSUME IInv, NEW by \in Callers, NEW k \in alive, k = by.of, NEW c \in Names, Reopen(by, c)
  PROVE  IInv'
<1> DEFINE to == IF children[k][c].persistent THEN "idle" ELSE "interrupted"
           new == [children[k][c] EXCEPT !.state = to]
<1>1. /\ Command(k, [children[k] EXCEPT ![c].state = to], c, {})
      /\ sent' = sent /\ flag' = flag
  BY DEF Reopen
<1>2. /\ new \in ChildRecord /\ new.parent = children[k][c].parent
      /\ new.state # "absent" /\ Bounded(new.rank)
  BY ChildType DEF ChildRecord
<1> HIDE DEF to
<1>3. Command(k, [children[k] EXCEPT ![c] = new], c, {})
  BY <1>1
<1>4. flag' \in [Managers -> [Names -> BOOLEAN]] /\ sent' \subseteq Messages
  BY <1>1 DEF IInv, CountsOK
<1> HIDE DEF new
<1> QED
  BY <1>2, <1>3, <1>4, NothingSpawned, ChangeInv
LEMMA ResumeInv ==
  ASSUME IInv, NEW by \in Callers, NEW k \in alive, k = by.of, NEW c \in Names, Resume(by, c)
  PROVE  IInv'
<1> DEFINE queue == children[k][c].queue
           prompt == NextPrompt(queue)
           rest == IF queue = << >> THEN queue ELSE Tail(queue)
           new == [children[k][c] EXCEPT !.state = "queued", !.queue = rest]
<1>1. queue \in Seq(Messages)
  BY ChildType DEF ChildRecord
<1>2. prompt \in Messages \cup {Generic} /\ rest \in Seq(Messages)
  BY <1>1, HeadTailProperties DEF NextPrompt
<1>3. ResumesWith(by, c, rest, prompt)
  BY DEF Resume
<1> HIDE DEF prompt, rest
<1>4. /\ Command(k, [children[k] EXCEPT ![c].state = "queued", ![c].queue = rest], c,
                 Spawn(k, c, prompt))
      /\ sent' = sent /\ flag' = flag
  BY <1>3 DEF ResumesWith
<1>9. [children[k] EXCEPT ![c].state = "queued", ![c].queue = rest] = [children[k] EXCEPT ![c] = new]
  BY SoundAt DEF Sound, ChildRecord
<1>5. Command(k, [children[k] EXCEPT ![c] = new], c, Spawn(k, c, prompt))
  BY <1>4, <1>9
<1>6. /\ new \in ChildRecord /\ new.parent = children[k][c].parent
      /\ new.state # "absent" /\ Bounded(new.rank)
  <2>1. children[k][c] \in ChildRecord /\ Bounded(children[k][c].rank)
    BY ChildType
  <2> QED
    BY <1>2, <2>1, RecordSet
<1>7. \A cs : cs[c].state # "absent" => RunsOf(Spawn(k, c, prompt), k, cs)
  BY <1>2, SpawnOK
<1>8. flag' \in [Managers -> [Names -> BOOLEAN]] /\ sent' \subseteq Messages
  BY <1>4 DEF IInv, CountsOK
<1> HIDE DEF new
<1> QED
  BY <1>5, <1>6, <1>7, <1>8, ChangeInv

LEMMA MilestoneInv ==
  ASSUME IInv, NEW by \in Callers, NEW k \in alive, k = by.of, Milestone(by)
  PROVE  IInv'
<1>1. by.id \in Names /\ Command(k, children[k], by.id, {}) /\ sent' = sent /\ flag' = flag
  BY CallerOK DEF Milestone
<1>2. Sound(children[k]) /\ Grows(children[k], children[k])
  BY SoundAt DEF Grows
<1>3. flag' \in [Managers -> [Names -> BOOLEAN]] /\ sent' \subseteq Messages
  BY <1>1 DEF IInv, CountsOK
<1> QED
  BY <1>1, <1>2, <1>3, NothingSpawned, CommandOK

\* Nothing of the children, the tasks and the managers changes.
LEMMA SameInv ==
  ASSUME IInv, UNCHANGED <<alive, children, tasks, disk, restores>>, CountsOK'
  PROVE  IInv'
<1>1. ManagersSound(children') /\ Sound(disk') /\ TasksOK(tasks', children')
  BY DEF IInv
<1> QED
  BY <1>1 DEF IInv

\* The steps of a wait change no child.
LEMMA WaitInv ==
  ASSUME IInv, NEW k \in alive, NEW c \in Names,
         (\E by \in Callers : k = by.of /\ Wait(by, c)) \/ LookAgain(k, c) \/ WaitTimesOut(k, c)
  PROVE  IInv'
<1>1. /\ UNCHANGED <<alive, children, flag, tasks, disk, sent, handed, shared, faults, restores>>
      /\ ops' = ops \/ (ops < MaxOps /\ ops' = ops + 1)
  BY DEF Wait, LookAgain, WaitTimesOut, Bidden, runVars
<1>2. PICK to \in {"none", "asleep"} : waiter' = [waiter EXCEPT ![k][c] = to]
  BY DEF Wait, LookAgain, WaitTimesOut
<1>3. waiter' \in [Managers -> [Names -> {"none", "asleep", "woken"}]]
  BY <1>2 DEF IInv, CountsOK
<1>4. ops' \in 0 .. MaxOps
  BY <1>1 DEF IInv, CountsOK
<1>5. CountsOK'
  BY <1>1, <1>3, <1>4 DEF IInv, CountsOK
<1> QED
  BY <1>1, <1>5, SameInv

\* The steps of a run.
LEMMA TaskType ==
  ASSUME IInv, NEW t \in tasks
  PROVE  /\ t \in Task /\ t.child \in Names /\ Bounded(t.rank)
         /\ t.of \in alive /\ t.of \in Managers
         /\ children[t.of][t.child] \in ChildRecord /\ children[t.of][t.child].state # "absent"
         /\ Bounded(children[t.of][t.child].rank)
<1>1. t \in Task /\ Bounded(t.rank) /\ children[t.of][t.child].state # "absent" /\ t.of \in alive
  BY DEF IInv, TasksOK, TaskOK, CountsOK
<1>2. t.child \in Names /\ t.of \in Managers
  BY <1>1 DEF Task
<1> QED
  BY <1>1, <1>2, ChildType

\* A run of which at most one task is new, saves a change of its child.
LEMMA RunInv ==
  ASSUME IInv, NEW t \in tasks, NEW k \in alive, k = t.of, NEW new \in ChildRecord,
         new.parent = children[k][t.child].parent, new.state # "absent", Bounded(new.rank),
         SaveInRun(k, [children[k] EXCEPT ![t.child] = new], t.child),
         NEW more, tasks' = (tasks \ {t}) \cup more,
         \A u \in more : u \in Task /\ u.of = k /\ u.child = t.child /\ Bounded(u.rank),
         flag' \in [Managers -> [Names -> BOOLEAN]], handed' \in [Managers -> [Messages -> Nat]]
  PROVE  IInv'
<1> DEFINE cs == [children[k] EXCEPT ![t.child] = new]
<1>1. Sound(children[k]) /\ t.child \in Names
  BY TaskType, SoundAt
<1>2. Sound(cs)
  BY <1>1, UpdateSound
<1>3. Grows(children[k], cs) /\ cs[t.child].state # "absent"
  BY <1>1 DEF Grows, Sound
<1>4. SaveInRun(k, cs, t.child)
  OBVIOUS
<1> HIDE DEF cs
<1>5. RunsOf(more, k, cs)
  BY <1>3 DEF RunsOf
<1>6. tasks' \subseteq tasks \cup more
  OBVIOUS
<1> QED
  BY <1>1, <1>2, <1>3, <1>4, <1>5, <1>6, SaveInRunOK

LEMMA StartInv ==
  ASSUME IInv, NEW t \in tasks, NEW k \in alive, k = t.of, Start(t)
  PROVE  IInv'
<1> DEFINE c == t.child
           new == [children[k][c] EXCEPT !.state = "running"]
           u == [t EXCEPT !.at = "run", !.rank = children[k][c].rank]
           more == {u}
<1>0. flag' = [flag EXCEPT ![k][c] = FALSE]
  BY DEF Start
<1>1. flag' \in [Managers -> [Names -> BOOLEAN]]
  BY <1>0, TaskType, FlagsTyped
<1>2. CASE children[k][c].state = "archived"
  <2>1. /\ tasks' = tasks \ {t}
        /\ UNCHANGED <<alive, children, waiter, disk, sent, handed, shared, ops, faults, restores>>
    BY <1>2 DEF Start, runVars
  <2>2. CountsOK'
    BY <2>1, <1>1 DEF IInv, CountsOK
  <2>3. ManagersSound(children') /\ Sound(disk') /\ TasksOK(tasks', children')
    BY <2>1 DEF IInv, TasksOK
  <2> QED
    BY <2>2, <2>3 DEF IInv
<1>3. CASE children[k][c].state # "archived"
  <2>1. /\ tasks' = (tasks \ {t}) \cup more
        /\ handed' = IF t.prompt \in Messages
                     THEN [handed EXCEPT ![k][t.prompt] = @ + 1] ELSE handed
        /\ SaveInRun(k, [children[k] EXCEPT ![c].state = "running"], c)
    BY <1>3 DEF Start
  <2>2. handed' \in [Managers -> [Messages -> Nat]]
    BY <2>1, SoundAt DEF IInv, CountsOK
  <2>3. children[k][c] \in ChildRecord /\ Bounded(children[k][c].rank) /\ t \in Task
    BY TaskType
  <2>4. /\ new \in ChildRecord /\ new.parent = children[k][c].parent
        /\ new.state # "absent" /\ Bounded(new.rank)
    BY <2>3 DEF ChildRecord
  <2>5. u \in Task /\ u.of = k /\ u.child = c /\ Bounded(u.rank)
    BY <2>3 DEF ChildRecord, Task
  <2>6. SaveInRun(k, [children[k] EXCEPT ![c] = new], c)
    BY <2>1
  <2>7. \A v \in more : v \in Task /\ v.of = k /\ v.child = t.child /\ Bounded(v.rank)
    BY <2>5
  <2> HIDE DEF new, more
  <2> QED
    BY <1>1, <2>1, <2>2, <2>4, <2>6, <2>7, RunInv
<1> QED
  BY <1>2, <1>3

LEMMA EmitInv ==
  ASSUME IInv, NEW t \in tasks, NEW k \in alive, k = t.of, Emit(t)
  PROVE  IInv'
<1>1. SaveInRun(k, children[k], t.child) /\ flag' = flag /\ tasks' = tasks /\ handed' = handed
  BY DEF Emit
<1>2. Sound(children[k]) /\ Grows(children[k], children[k]) /\ t.child \in Names
  BY TaskType, SoundAt DEF Grows
<1>3. flag' \in [Managers -> [Names -> BOOLEAN]] /\ handed' \in [Managers -> [Messages -> Nat]]
  BY <1>1 DEF IInv, CountsOK
<1>4. tasks' \subseteq tasks \cup {}
  BY <1>1
<1> QED
  BY <1>1, <1>2, <1>3, <1>4, NothingSpawned, SaveInRunOK

LEMMA ObserveInv ==
  ASSUME IInv, NEW t \in tasks, Observe(t)
  PROVE  IInv'
<1> DEFINE u == [t EXCEPT !.at = "stopped"]
<1>1. /\ tasks' = (tasks \ {t}) \cup {u}
      /\ UNCHANGED <<alive, children, flag, waiter, disk, sent, handed, shared, ops, faults, restores>>
  BY DEF Observe, runVars
<1>2. u \in Task /\ u.of = t.of /\ u.child = t.child /\ u.rank = t.rank
  BY TaskType DEF Task
<1>3. TaskOK(u, children) /\ u.of \in alive
  BY <1>2, TaskType DEF TaskOK
<1> HIDE DEF u
<1>4. ManagersSound(children') /\ Sound(disk') /\ TasksOK(tasks', children')
  BY <1>1, <1>3 DEF IInv, TasksOK
<1>5. CountsOK'
  BY <1>1, <1>3 DEF IInv, CountsOK
<1> QED
  BY <1>4, <1>5 DEF IInv

LEMMA SettleInv ==
  ASSUME IInv, NEW t \in tasks, NEW k \in alive, k = t.of, NEW outcome, Settle(t, outcome)
  PROVE  IInv'
<1> DEFINE c == t.child
           child == children[k][c]
           more == child.persistent /\ child.queue # << >>
           new == IF child.state = "archived" THEN child
                  ELSE IF more THEN [child EXCEPT !.state = "queued", !.queue = Tail(@)]
                  ELSE [child EXCEPT !.state = Result(t, outcome)]
           next == [t EXCEPT !.at = "spawned", !.rank = 0, !.prompt = Head(child.queue)]
           again == IF child.state # "archived" /\ more THEN {next} ELSE {}
<1>1. /\ tasks' = (tasks \ {t}) \cup again /\ SaveInRun(k, [children[k] EXCEPT ![c] = new], c)
      /\ flag' = flag /\ handed' = handed
  BY DEF Settle
<1>2. t \in Task /\ child \in ChildRecord /\ child.state # "absent" /\ Bounded(child.rank)
  BY TaskType
<1>10. Bounded(0)
  BY DEF Bounded
<1>3. more => Head(child.queue) \in Messages /\ Tail(child.queue) \in Seq(Messages)
  BY <1>2, HeadTailProperties DEF ChildRecord
<1>4. Result(t, outcome) \in {"failed", "cancelled", "idle", "completed"}
  BY DEF Result
<1>5. /\ new \in ChildRecord /\ new.parent = child.parent
      /\ new.state # "absent" /\ new.rank = child.rank
  BY <1>2, <1>3, <1>4 DEF ChildRecord
<1>6. \A u \in again : u \in Task /\ u.of = k /\ u.child = c /\ u.rank = 0
  <2>1. ASSUME NEW prompt \in Messages
        PROVE  LET u == [t EXCEPT !.at = "spawned", !.rank = 0, !.prompt = prompt]
               IN  u \in Task /\ u.of = k /\ u.child = c /\ u.rank = 0
    BY <1>2, 0 \in 0 .. 2 DEF Task
  <2>2. more => next \in Task /\ next.of = k /\ next.child = c /\ next.rank = 0
    BY <2>1, <1>3
  <2> HIDE DEF next
  <2> QED
    BY <2>2
<1>7. flag' \in [Managers -> [Names -> BOOLEAN]] /\ handed' \in [Managers -> [Messages -> Nat]]
  BY <1>1 DEF IInv, CountsOK
<1> HIDE DEF new, again
<1>8. Bounded(new.rank)
  BY <1>2, <1>5
<1>9. \A u \in again : u \in Task /\ u.of = k /\ u.child = c /\ Bounded(u.rank)
  BY <1>6, <1>10
<1> QED
  BY <1>1, <1>5, <1>7, <1>8, <1>9, RunInv

\* A new manager: what is left of the others is as it was.
LEMMA RestoreInv ==
  ASSUME IInv, NEW others \in SUBSET alive, Restore(others)
  PROVE  IInv'
<1> DEFINE n == restores + 1
<1>1. /\ restores' = n /\ alive' = others \cup {n} /\ n \in Managers
      /\ tasks' = {t \in tasks : t.of \in others} /\ disk' = Restored(disk)
      /\ UNCHANGED <<sent, handed, ops, faults>>
  BY DEF Restore, Loaded, IInv, CountsOK, Managers
<1>2. Sound(disk')
  BY <1>1, RestoredSound DEF IInv
<1>3. others \subseteq Managers /\ n \notin others /\ \A k \in others : k <= n
  BY DEF IInv, CountsOK, Managers
<1>4. children' = [k \in Managers |-> IF k = n THEN Restored(disk)
                                      ELSE IF k \in others THEN children[k] ELSE NoChildren]
  BY <1>1 DEF Restore, Loaded
<1>5. ManagersSound(children) /\ TasksOK(tasks, children)
  BY DEF IInv
<1>6. \A k \in Managers : Sound(children'[k])
  BY <1>1, <1>2, <1>4, <1>5, EmptySound DEF ManagersSound
<1>7. children' \in [Managers -> [Names -> ChildRecord]]
  BY <1>6, <1>4 DEF Sound
<1>8. TasksOK(tasks', children')
  <2>1. ASSUME NEW t \in tasks'
        PROVE  TaskOK(t, children')
    <3>1. TaskOK(t, children) /\ t.of \in others
      BY <1>1, <1>5, <2>1 DEF TasksOK
    <3>2. children'[t.of] = children[t.of]
      BY <3>1, <1>3, <1>4
    <3> QED
      BY <3>1, <3>2 DEF TaskOK
  <2> QED
    BY <2>1 DEF TasksOK
<1>9. shared' \subseteq Messages
  <2>1. Queued(disk) \subseteq Messages
    BY ElementOfSeq DEF Queued, IInv, Sound, ChildRecord
  <2> QED
    BY <2>1 DEF IInv, CountsOK, Restore, Loaded
<1>10. /\ flag' \in [Managers -> [Names -> BOOLEAN]]
       /\ waiter' \in [Managers -> [Names -> {"none", "asleep", "woken"}]]
  BY DEF IInv, CountsOK, Restore, NoFlags, NoWaiters
<1>11. restores' \in Nat /\ faults' + restores' <= MaxMishaps /\ faults' \in Nat
  BY DEF IInv, CountsOK, Restore
<1>13. \A k \in Managers : k \notin alive' => children'[k] = NoChildren
  BY <1>1, <1>4
<1>12. CountsOK'
  BY <1>1, <1>3, <1>9, <1>10, <1>11, <1>13 DEF IInv, CountsOK
<1> QED
  BY <1>2, <1>6, <1>7, <1>8, <1>12 DEF IInv, ManagersSound

LEMMA StepInv ==
  ASSUME IInv, [Next]_vars
  PROVE  IInv'
<1>1. CASE Next
  <2>1. ASSUME NEW by \in Callers, NEW c \in Names,
               \E p \in BOOLEAN, r \in 0 .. 2, m \in Messages \cup {Generic} :
                 Create(by, c, p, r, m)
        PROVE  IInv'
    <3>1. PICK k \in alive : k = by.of
      BY CallerOK
    <3> QED
      BY <2>1, <3>1, CreateInv
  <2>2. ASSUME NEW by \in Callers, NEW c \in Names,
               \/ \E m \in Messages : Send(by, c, m)
               \/ \E r \in 0 .. 2 : Configure(by, c, r)
               \/ \E p \in Names \cup {Root, Detached} : Relate(by, c, p)
        PROVE  IInv'
    <3>1. PICK k \in alive : k = by.of
      BY CallerOK
    <3> QED
      BY <2>2, <3>1, SendInv, ConfigureInv, RelateInv
  <2>3. ASSUME NEW by \in Callers, NEW c \in Names,
               Cancel(by, c) \/ Close(by, c) \/ Reopen(by, c) \/ Resume(by, c) \/ Wait(by, c)
        PROVE  IInv'
    <3>1. PICK k \in alive : k = by.of
      BY CallerOK
    <3> QED
      BY <2>3, <3>1, CancelInv, CloseInv, ReopenInv, ResumeInv, WaitInv
  <2>4. ASSUME NEW by \in Callers, Milestone(by)
        PROVE  IInv'
    <3>1. PICK k \in alive : k = by.of
      BY CallerOK
    <3> QED
      BY <2>4, <3>1, MilestoneInv
  <2>5. ASSUME NEW k \in alive, NEW c \in Names, LookAgain(k, c) \/ WaitTimesOut(k, c)
        PROVE  IInv'
    BY <2>5, WaitInv
  <2>6. ASSUME NEW t \in tasks, Emit(t) \/ Start(t) \/ Observe(t) \/ \E o \in {"ok", "failed"} : Settle(t, o)
        PROVE  IInv'
    <3>1. PICK k \in alive : k = t.of
      BY TaskType
    <3> QED
      BY <2>6, <3>1, EmitInv, StartInv, ObserveInv, SettleInv
  <2>7. ASSUME NEW others \in SUBSET alive, Restore(others)
        PROVE  IInv'
    BY <2>7, RestoreInv
  <2> QED
    BY <1>1, <2>1, <2>2, <2>3, <2>4, <2>5, <2>6, <2>7 DEF Next, TaskStep
<1>2. CASE UNCHANGED vars
  <2>1. CountsOK' /\ UNCHANGED <<alive, children, tasks, disk, restores>>
    BY <1>2 DEF vars, IInv, CountsOK
  <2> QED
    BY <2>1, SameInv
<1> QED
  BY <1>1, <1>2

\* Nobody acts above the root session's mode, and no child is its own ancestor, in memory
\* or in the snapshot file, whatever is created, moved, reconfigured, restarted or left
\* unsaved (create, configure, relationship_would_cycle and restore of fx-subagent).
THEOREM AuthorityHolds == Spec => []Authority
<1>1. Init => IInv
  BY InitInv
<1>2. IInv /\ [Next]_vars => IInv'
  BY StepInv
<1>3. IInv => Authority
  <2>1. ASSUME IInv
        PROVE  PermissionCeiling
    <3>1. \A k \in Managers, c \in Names : Bounded(children[k][c].rank)
      BY <2>1 DEF IInv, ManagersSound, Sound
    <3>2. \A c \in Names : Bounded(disk[c].rank)
      BY <2>1 DEF IInv, Sound
    <3>3. \A t \in tasks : Bounded(t.rank)
      BY <2>1 DEF IInv, TasksOK, TaskOK
    <3> QED
      BY <3>1, <3>2, <3>3 DEF PermissionCeiling, Bounded
  <2>2. ASSUME IInv
        PROVE  NoCircle(disk) /\ \A k \in Managers : NoCircle(children[k])
    BY <2>2 DEF IInv, ManagersSound, Sound
  <2> QED
    BY <2>1, <2>2 DEF Authority
<1> QED
  BY <1>1, <1>2, <1>3, PTL DEF Spec
\* The manager's state keeps its types (ChildSnapshot and run_child's tasks).
THEOREM ManagerTyped == Spec => []TypeOK
<1>1. Init => IInv
  BY InitInv
<1>2. IInv /\ [Next]_vars => IInv'
  BY StepInv
<1>3. IInv => TypeOK
  BY DEF IInv, ManagersSound, Sound, TasksOK, TaskOK, Task, CountsOK, TypeOK
<1> QED
  BY <1>1, <1>2, <1>3, PTL DEF Spec
-----------------------------------------------------------------------------
(* A closed child.                                                         *)

LEMMA CommandKeepsClosed ==
  ASSUME IInv, NEW j \in alive, NEW d \in Names, children[j][d].state = "archived",
         NEW by \in Callers, NEW k \in alive, k = by.of, NEW c \in Names,
         \/ \E p \in BOOLEAN, r \in 0 .. 2, m \in Messages \cup {Generic} :
              Create(by, c, p, r, m)
         \/ \E m \in Messages : Send(by, c, m)
         \/ \E r \in 0 .. 2 : Configure(by, c, r)
         \/ \E p \in Names \cup {Root, Detached} : Relate(by, c, p)
         \/ Cancel(by, c) \/ Close(by, c) \/ Reopen(by, c) \/ Resume(by, c) \/ Wait(by, c)
  PROVE  children'[j][d].state = "archived" \/ tasks' = tasks
<1>1. children \in [Managers -> [Names -> ChildRecord]] /\ j \in Managers /\ k \in Managers
  BY SoundAt DEF IInv, ManagersSound
<1>0. ASSUME NEW new, children' = [children EXCEPT ![k] = [children[k] EXCEPT ![c] = new]],
             j # k \/ c # d \/ new.state = "archived"
      PROVE  children'[j][d].state = "archived"
  <2>1. CASE j = k /\ c = d
    BY <1>0, <1>1, <2>1
  <2>2. CASE j # k \/ c # d
    BY <1>0, <1>1, <2>2
  <2> QED
    BY <2>1, <2>2
<1>2. CASE \E p \in BOOLEAN, r \in 0 .. 2, m \in Messages \cup {Generic} :
             Create(by, c, p, r, m)
  <2>1. /\ j # k \/ c # d
        /\ \E new : children' = [children EXCEPT ![k] = [children[k] EXCEPT ![c] = new]]
    BY <1>1, <1>2 DEF Create, Command, Present
  <2> QED
    BY <2>1, <1>0
<1>3. CASE \E m \in Messages : Send(by, c, m)
  <2>1. /\ j # k \/ c # d
        /\ \E new : children' = [children EXCEPT ![k] = [children[k] EXCEPT ![c] = new]]
    BY <1>1, <1>3 DEF Send, Command
  <2> QED
    BY <2>1, <1>0
<1>4. CASE \/ \E r \in 0 .. 2 : Configure(by, c, r)
           \/ \E p \in Names \cup {Root, Detached} : Relate(by, c, p)
  <2>1. PICK new \in {[children[k][c] EXCEPT !.rank = r] : r \in 0 .. 2}
                 \cup {[children[k][c] EXCEPT !.parent = p] : p \in Names \cup {Root, Detached}} :
          children' = [children EXCEPT ![k] = [children[k] EXCEPT ![c] = new]]
    BY <1>4 DEF Configure, Relate, Command
  <2>2. new.state = children[k][c].state
    BY <1>1 DEF ChildRecord
  <2>3. j # k \/ c # d \/ new.state = "archived"
    BY <2>2
  <2> HIDE DEF ChildRecord
  <2> QED
    BY <2>1, <2>3, <1>0
<1>5. CASE Cancel(by, c)
  <2>1. /\ j # k \/ c # d
        /\ \E new : children' = [children EXCEPT ![k] = [children[k] EXCEPT ![c] = new]]
    BY <1>1, <1>5 DEF Cancel, Command, Settled
  <2> QED
    BY <2>1, <1>0
<1>6. CASE Resume(by, c)
  <2>1. /\ j # k \/ c # d
        /\ \E new, rest : children' = [children EXCEPT ![k] = [children[k] EXCEPT
                                         ![c].state = new, ![c].queue = rest]]
    BY <1>1, <1>6 DEF Resume, ResumesWith, Command
  <2> QED
    BY <2>1, <1>1
<1>7. CASE Close(by, c)
  <2>1. children' = [children EXCEPT ![k] = [children[k] EXCEPT
                                         ![c].state = "archived", ![c].queue = << >>]]
    BY <1>7 DEF Close, Command
  <2> QED
    BY <2>1, <1>1 DEF ChildRecord
<1>8. CASE Reopen(by, c) \/ Wait(by, c)
  BY <1>8 DEF Reopen, Command, Wait
<1> QED
  BY <1>2, <1>3, <1>4, <1>5, <1>6, <1>7, <1>8

LEMMA RunKeepsClosed ==
  ASSUME IInv, NEW j \in alive, NEW d \in Names, children[j][d].state = "archived",
         NEW t \in tasks, NEW k \in alive, k = t.of,
         \/ Emit(t) \/ Start(t) \/ Observe(t) \/ \E o \in {"ok", "failed"} : Settle(t, o)
  PROVE  children'[j][d].state = "archived"
<1> DEFINE c == t.child
<1>1. /\ children \in [Managers -> [Names -> ChildRecord]] /\ j \in Managers /\ k \in Managers
      /\ c \in Names
  BY SoundAt, TaskType DEF IInv, ManagersSound
<1> HIDE DEF c
<1>2. CASE Emit(t) \/ Observe(t)
  <2>1. children' = [children EXCEPT ![k] = children[k]] \/ children' = children
    BY <1>2 DEF Emit, Observe, SaveInRun
  <2> QED
    BY <1>1, <2>1
<1>3. CASE Start(t) /\ children[k][c].state = "archived"
  BY <1>3 DEF Start, c
<1>4. CASE Start(t) /\ children[k][c].state # "archived"
  <2>1. children' = [children EXCEPT ![k] = [children[k] EXCEPT ![c].state = "running"]]
    BY <1>4 DEF Start, SaveInRun, c
  <2> QED
    BY <1>1, <1>4, <2>1
<1>5. ASSUME NEW o \in {"ok", "failed"}, Settle(t, o)
      PROVE  children'[j][d].state = "archived"
  <2>1. PICK new : /\ children' = [children EXCEPT ![k] = [children[k] EXCEPT ![c] = new]]
                   /\ children[k][c].state = "archived" => new = children[k][c]
    BY <1>5 DEF Settle, SaveInRun, c
  <2> QED
    BY <1>1, <2>1
<1> QED
  BY <1>2, <1>3, <1>4, <1>5

\* Managers come and go by a restore only.
LEMMA OthersLive ==
  ASSUME IInv, Next, ~ \E others \in SUBSET alive : Restore(others)
  PROVE  alive' = alive
<1>1. ASSUME NEW by \in Callers, NEW c \in Names,
             \/ \E p \in BOOLEAN, r \in 0 .. 2, m \in Messages \cup {Generic} : Create(by, c, p, r, m)
             \/ \E m \in Messages : Send(by, c, m)
             \/ \E r \in 0 .. 2 : Configure(by, c, r)
             \/ \E p \in Names \cup {Root, Detached} : Relate(by, c, p)
      PROVE  alive' = alive
  BY <1>1 DEF Create, Send, Configure, Relate, Command
<1>2. ASSUME NEW by \in Callers, NEW c \in Names,
             Cancel(by, c) \/ Close(by, c) \/ Reopen(by, c) \/ Resume(by, c) \/ Wait(by, c)
      PROVE  alive' = alive
  BY <1>2 DEF Cancel, Close, Reopen, Resume, ResumesWith, Wait, Command
<1>3. ASSUME NEW k \in alive, NEW c \in Names, LookAgain(k, c) \/ WaitTimesOut(k, c)
      PROVE  alive' = alive
  BY <1>3 DEF LookAgain, WaitTimesOut, runVars
<1>4. ASSUME NEW t \in tasks, Emit(t) \/ Start(t) \/ Observe(t) \/ \E o \in {"ok", "failed"} : Settle(t, o)
      PROVE  alive' = alive
  BY <1>4 DEF Emit, Start, Observe, Settle, SaveInRun, runVars
<1>5. ASSUME NEW by \in Callers, Milestone(by)
      PROVE  alive' = alive
  BY <1>5 DEF Milestone, Command
<1> QED
  BY <1>1, <1>2, <1>3, <1>4, <1>5 DEF Next, TaskStep

\* A closed child leaves "archived" by a reopen, which spawns nothing; never by the late
\* result of a run (the check of run_child after its executor), and not in a manager that is
\* restored, for a restore has no "archived" child but those of the file, and keeps them.
THEOREM ClosedChildren == Spec => ClosedStaysClosed
<1>1. Init => IInv
  BY InitInv
<1>2. IInv /\ [Next]_vars => IInv'
  BY StepInv
<1>3. ASSUME IInv, Next, NEW j \in alive', NEW d \in Names,
             children[j][d].state = "archived", children'[j][d].state # "archived"
      PROVE  tasks' = tasks
  <2>1. ASSUME NEW others \in SUBSET alive, Restore(others)
        PROVE  FALSE
    <3>1. /\ alive' = others \cup {restores + 1} /\ restores + 1 \in Managers
          /\ children' = [k \in Managers |-> IF k = restores + 1 THEN Restored(disk)
                                             ELSE IF k \in others THEN children[k] ELSE NoChildren]
          /\ restores + 1 \notin alive
      BY <1>3, <2>1 DEF Restore, Loaded, IInv, CountsOK, Managers
    <3>2. CASE j = restores + 1
      <4>1. children[j] = NoChildren
        BY <1>3, <3>1, <3>2 DEF IInv, CountsOK
      <4> QED
        BY <1>3, <4>1 DEF NoChildren, Absent
    <3>3. CASE j # restores + 1
      <4>1. j \in others /\ j \in Managers
        BY <1>3, <3>1, <3>3 DEF IInv, CountsOK
      <4>2. children'[j] = children[j]
        BY <3>1, <3>3, <4>1
      <4> QED
        BY <1>3, <4>2
    <3> QED
      BY <3>2, <3>3
  <2>2. CASE \E others \in SUBSET alive : Restore(others)
    BY <2>1, <2>2
  <2>3. CASE ~ \E others \in SUBSET alive : Restore(others)
    <3>1. alive' = alive
      BY <1>3, <2>3, OthersLive
    <3>2. ASSUME NEW by \in Callers, NEW c \in Names,
                 \/ \E p \in BOOLEAN, r \in 0 .. 2, m \in Messages \cup {Generic} :
                      Create(by, c, p, r, m)
                 \/ \E m \in Messages : Send(by, c, m)
                 \/ \E r \in 0 .. 2 : Configure(by, c, r)
                 \/ \E p \in Names \cup {Root, Detached} : Relate(by, c, p)
                 \/ Cancel(by, c) \/ Close(by, c) \/ Reopen(by, c) \/ Resume(by, c) \/ Wait(by, c)
          PROVE  tasks' = tasks
      <4>1. PICK k \in alive : k = by.of
        BY <1>3, CallerOK
      <4> QED
        BY <1>3, <3>1, <3>2, <4>1, CommandKeepsClosed
    <3>3. ASSUME NEW by \in Callers, Milestone(by)
          PROVE  tasks' = tasks
      BY <3>3 DEF Milestone, Command
    <3>4. ASSUME NEW k \in alive, NEW c \in Names, LookAgain(k, c) \/ WaitTimesOut(k, c)
          PROVE  tasks' = tasks
      BY <3>4 DEF LookAgain, WaitTimesOut
    <3>5. ASSUME NEW t \in tasks, Emit(t) \/ Start(t) \/ Observe(t) \/ \E o \in {"ok", "failed"} : Settle(t, o)
          PROVE  FALSE
      <4>1. PICK k \in alive : k = t.of
        BY <1>3, TaskType
      <4> QED
        BY <1>3, <3>1, <3>5, <4>1, RunKeepsClosed
    <3> QED
      BY <1>3, <2>3, <3>2, <3>3, <3>4, <3>5 DEF Next, TaskStep
  <2> QED
    BY <2>2, <2>3
<1>4. IInv /\ [Next]_vars =>
        [\A k \in alive', c \in Names :
           children[k][c].state = "archived" /\ children'[k][c].state # "archived"
             => tasks' = tasks]_vars
  BY <1>3
<1> QED
  BY <1>1, <1>2, <1>4, PTL DEF Spec, ClosedStaysClosed
-----------------------------------------------------------------------------
(* Messages.  A message that a manager has taken, or read in the file, is  *)
(* in one place until it is handed to an executor: in a queue, or with a   *)
(* task that has not started.                                              *)

Elements(q) == {q[i] : i \in DOMAIN q}
Distinct(q) == \A i, j \in DOMAIN q : q[i] = q[j] => i = j

QueuesOnce(k) ==
  \A c \in Names :
    /\ Distinct(children[k][c].queue)
    /\ \A m \in Elements(children[k][c].queue) :
         /\ m \in sent /\ handed[k][m] = 0
         /\ \A t \in tasks : t.of = k /\ t.at = "spawned" => t.prompt # m
         /\ \A d \in Names : d # c => m \notin Elements(children[k][d].queue)

TasksOnce(k) ==
  \A t \in tasks : t.of = k /\ t.at = "spawned" /\ t.prompt \in Messages =>
    /\ t.prompt \in sent /\ handed[k][t.prompt] = 0
    /\ \A u \in tasks : u.of = k /\ u.at = "spawned" /\ u.prompt = t.prompt => u = t

HandedOnce(k) == \A m \in Messages : handed[k][m] <= 1 /\ (m \notin sent => handed[k][m] = 0)

Singly(k) == QueuesOnce(k) /\ TasksOnce(k) /\ HandedOnce(k)

\* Where a message is, or has been, with a manager.
Has(k, m) ==
  \/ \E c \in Names : m \in Elements(children[k][c].queue)
  \/ \E t \in tasks : t.of = k /\ t.at = "spawned" /\ t.prompt = m
  \/ handed[k][m] # 0

FileOnce(cs) ==
  \A c \in Names :
    /\ Distinct(cs[c].queue)
    /\ \A m \in Elements(cs[c].queue) :
         m \in sent /\ \A d \in Names : d # c => m \notin Elements(cs[d].queue)

Unused == \A k \in Managers, m \in Messages : k > restores => handed[k][m] = 0

\* While every save succeeds the file has what one of the managers has, and no two managers
\* have a message that they did not both read there.
Exclusive ==
  /\ \E k \in alive : disk = children[k]
  /\ \A j, k \in Managers, m \in Messages : m \notin shared /\ Has(j, m) /\ Has(k, m) => j = k

OnceOK == (\A k \in Managers : Singly(k)) /\ FileOnce(disk) /\ Unused /\ (faults = 0 => Exclusive)

Delivery == ParentAnswered /\ OnceOK

LEMMA QueueEmpty == Elements(<<>>) = {} /\ Distinct(<<>>)
BY DEF Elements, Distinct

LEMMA QueueAppend ==
  ASSUME NEW q \in Seq(Messages), NEW m \in Messages
  PROVE  /\ Elements(Append(q, m)) = Elements(q) \cup {m}
         /\ Distinct(q) /\ m \notin Elements(q) => Distinct(Append(q, m))
<1> DEFINE r == Append(q, m)
<1>1. /\ DOMAIN q = 1 .. Len(q) /\ Len(q) \in Nat
      /\ DOMAIN r = 1 .. (Len(q) + 1) /\ r[Len(q) + 1] = m
      /\ \A i \in 1 .. Len(q) : r[i] = q[i]
  BY AppendProperties
<1> HIDE DEF r
<1>2. \A i \in DOMAIN r : i \in DOMAIN q \/ i = Len(q) + 1
  BY <1>1
<1>3. (\A i \in DOMAIN q : i \in DOMAIN r /\ i # Len(q) + 1) /\ Len(q) + 1 \in DOMAIN r
  BY <1>1
<1>4. Elements(r) = Elements(q) \cup {m}
  BY <1>1, <1>2, <1>3 DEF Elements
<1>5. ASSUME Distinct(q), m \notin Elements(q)
      PROVE  Distinct(r)
  <2>1. \A i \in DOMAIN q : q[i] # m /\ r[i] = q[i]
    BY <1>1, <1>5 DEF Elements
  <2> QED
    BY <1>1, <1>2, <1>5, <2>1 DEF Distinct
<1> QED
  BY <1>4, <1>5 DEF r

LEMMA QueueTail ==
  ASSUME NEW q \in Seq(Messages), q # <<>>
  PROVE  /\ Elements(q) = Elements(Tail(q)) \cup {Head(q)}
         /\ Distinct(q) => Distinct(Tail(q)) /\ Head(q) \notin Elements(Tail(q))
<1> DEFINE r == Tail(q)
<1>1. /\ DOMAIN q = 1 .. Len(q) /\ Len(q) \in Nat \ {0} /\ Head(q) = q[1]
      /\ DOMAIN r = 1 .. (Len(q) - 1) /\ \A i \in 1 .. (Len(q) - 1) : r[i] = q[i + 1]
  BY HeadTailProperties
<1> HIDE DEF r
<1>2. \A i \in DOMAIN q : i = 1 \/ (i - 1 \in DOMAIN r /\ q[i] = r[i - 1])
  BY <1>1
<1>3. (\A i \in DOMAIN r : i + 1 \in DOMAIN q /\ r[i] = q[i + 1] /\ i + 1 # 1) /\ 1 \in DOMAIN q
  BY <1>1
<1>4. Elements(q) = Elements(r) \cup {Head(q)}
  BY <1>1, <1>2, <1>3 DEF Elements
<1>5. ASSUME Distinct(q)
      PROVE  Distinct(r) /\ Head(q) \notin Elements(r)
  <2>1. \A i, j \in DOMAIN r : i + 1 = j + 1 => i = j
    BY <1>1
  <2>2. Distinct(r)
    BY <1>3, <1>5, <2>1 DEF Distinct
  <2>3. Head(q) \notin Elements(r)
    BY <1>1, <1>3, <1>5 DEF Distinct, Elements
  <2> QED
    BY <2>2, <2>3
<1> QED
  BY <1>4, <1>5 DEF r

\* What a command leaves, and the save of a run.
LEMMA Commanded ==
  ASSUME IInv, NEW k \in alive, NEW c \in Names, NEW cs, NEW spawned, Command(k, cs, c, spawned)
  PROVE  /\ children'[k] = cs /\ \A j \in Managers : j # k => children'[j] = children[j]
         /\ UNCHANGED <<alive, handed, shared, restores>> /\ disk' \in {disk, cs}
         /\ tasks' \in {tasks, tasks \cup spawned}
         /\ faults' = 0 => /\ faults = 0 /\ disk' = cs /\ tasks' = tasks \cup spawned
                           /\ waiter' = Woken(k, c)
<1>1. children \in [Managers -> [Names -> ChildRecord]] /\ k \in Managers /\ faults \in Nat
  BY SoundAt DEF IInv, ManagersSound, CountsOK
<1>2. children' = [children EXCEPT ![k] = cs] /\ UNCHANGED <<alive, handed, shared, restores>>
  BY DEF Command
<1>3. \/ disk' = cs /\ faults' = faults /\ waiter' = Woken(k, c) /\ tasks' = tasks \cup spawned
      \/ disk' = disk /\ faults' = faults + 1 /\ tasks' = tasks
  BY DEF Command, Save, SaveFails
<1> QED
  BY <1>1, <1>2, <1>3

LEMMA Saved ==
  ASSUME IInv, NEW k \in alive, NEW c \in Names, NEW cs, SaveInRun(k, cs, c)
  PROVE  /\ children'[k] = cs /\ \A j \in Managers : j # k => children'[j] = children[j]
         /\ UNCHANGED <<alive, sent, shared, restores>> /\ disk' \in {disk, cs}
         /\ waiter' = Woken(k, c)
         /\ faults' = 0 => faults = 0 /\ disk' = cs
<1>1. children \in [Managers -> [Names -> ChildRecord]] /\ k \in Managers /\ faults \in Nat
  BY SoundAt DEF IInv, ManagersSound, CountsOK
<1>2. /\ children' = [children EXCEPT ![k] = cs] /\ waiter' = Woken(k, c)
      /\ UNCHANGED <<alive, sent, shared, restores>>
  BY DEF SaveInRun, runVars
<1>3. (disk' = cs /\ faults' = faults) \/ (disk' = disk /\ faults' = faults + 1)
  BY DEF SaveInRun, Save, SaveFails
<1> QED
  BY <1>1, <1>2, <1>3

\* A step of the child c of one manager that leaves it settled, or with a task, and wakes
\* its waiter.
LEMMA Answers ==
  ASSUME IInv, ParentAnswered, NEW k \in alive, NEW c \in Names, faults = 0, waiter' = Woken(k, c),
         alive' = alive, \A j \in Managers : j # k => children'[j] = children[j],
         \A d \in Names : d # c => children'[k][d] = children[k][d],
         children'[k][c].state \in {"queued", "running"} => \E t \in tasks' : t.of = k /\ t.child = c,
         \A t \in tasks : t.of # k \/ t.child # c => t \in tasks'
  PROVE  ParentAnswered'
<1>1. /\ k \in Managers /\ waiter'[k][c] # "asleep"
      /\ \A j \in Managers, d \in Names : j # k \/ d # c => waiter'[j][d] = waiter[j][d]
  BY SoundAt DEF Woken, IInv, CountsOK
<1> SUFFICES ASSUME NEW j \in alive, NEW d \in Names
             PROVE  /\ Settled(j, d)' \/ \E t \in tasks' : t.of = j /\ t.child = d
                    /\ waiter'[j][d] = "asleep" => ~Settled(j, d)'
  BY DEF ParentAnswered
<1>2. CASE j = k /\ d = c
  BY <1>1, <1>2 DEF Settled
<1>3. CASE j # k \/ d # c
  <2>1. j \in Managers
    BY SoundAt
  <2>2. children'[j][d] = children[j][d] /\ waiter'[j][d] = waiter[j][d]
    BY <1>1, <1>3, <2>1
  <2>3. /\ Settled(j, d) \/ \E t \in tasks : t.of = j /\ t.child = d
        /\ waiter[j][d] = "asleep" => ~Settled(j, d)
    BY DEF ParentAnswered
  <2>4. Settled(j, d)' <=> Settled(j, d)
    BY <2>2 DEF Settled
  <2> QED
    BY <1>3, <2>2, <2>3, <2>4
<1> QED
  BY <1>2, <1>3

-----------------------------------------------------------------------------
(* What a step does to the places of the messages.                         *)

\* No queue gets a message it had not.
Shrinks(k) ==
  \A c \in Names : /\ Distinct(children[k][c].queue) => Distinct(children'[k][c].queue)
                   /\ Elements(children'[k][c].queue) \subseteq Elements(children[k][c].queue)

\* The tasks that have not started are, but for those of X, none with a message but old ones.
SpawnsNo(k, X) ==
  \A u \in tasks' : u.of = k /\ u.at = "spawned" /\ u.prompt \in Messages => u \in tasks \/ u.prompt \in X

\* The messages of a manager are still in one place, and it has no other but a new one.
Kept(k) == Singly(k)' /\ \A m \in Messages : Has(k, m)' => Has(k, m) \/ m \notin sent

LEMMA QueueElements ==
  ASSUME IInv, NEW k \in alive, NEW c \in Names
  PROVE  Elements(children[k][c].queue) \subseteq Messages
BY ChildType, ElementOfSeq DEF Elements, ChildRecord

\* Messages stay where they are, or are lost.
LEMMA OnceLess ==
  ASSUME IInv, NEW k \in alive, Singly(k), Shrinks(k), SpawnsNo(k, {}), sent \subseteq sent',
         handed'[k] = handed[k]
  PROVE  Kept(k)
<1>1. QueuesOnce(k)'
  BY QueueElements DEF Singly, QueuesOnce, Shrinks, SpawnsNo
<1>2. TasksOnce(k)'
  BY DEF Singly, TasksOnce, SpawnsNo
<1>3. HandedOnce(k)'
  BY DEF Singly, HandedOnce
<1>4. \A m \in Messages : Has(k, m)' => Has(k, m)
  BY DEF Has, Shrinks, SpawnsNo
<1> QED
  BY <1>1, <1>2, <1>3, <1>4 DEF Singly, Kept

\* A new message is queued.
LEMMA OnceQueued ==
  ASSUME IInv, NEW k \in alive, Singly(k), NEW c \in Names, NEW m \in Messages \ sent,
         \A d \in Names : d # c => children'[k][d] = children[k][d],
         children'[k][c].queue = Append(children[k][c].queue, m),
         SpawnsNo(k, {}), sent' = sent \cup {m}, handed'[k] = handed[k]
  PROVE  Kept(k)
<1>1. /\ children[k][c].queue \in Seq(Messages)
      /\ \A d \in Names : m \notin Elements(children[k][d].queue)
  BY ChildType DEF Singly, QueuesOnce, ChildRecord
<1>2. /\ Elements(children'[k][c].queue) = Elements(children[k][c].queue) \cup {m}
      /\ Distinct(children'[k][c].queue)
  BY <1>1, QueueAppend DEF Singly, QueuesOnce
<1>3. /\ handed[k][m] = 0
      /\ \A t \in tasks : t.of = k /\ t.at = "spawned" => t.prompt # m
  BY DEF Singly, HandedOnce, TasksOnce
<1>4. \A t \in tasks' : t.of = k /\ t.at = "spawned" => t.prompt # m
  BY <1>3 DEF SpawnsNo
<1>5. QueuesOnce(k)'
  <2> SUFFICES ASSUME NEW d \in Names
               PROVE  /\ Distinct(children'[k][d].queue)
                      /\ \A x \in Elements(children'[k][d].queue) :
                           /\ x \in sent' /\ handed'[k][x] = 0
                           /\ \A t \in tasks' : t.of = k /\ t.at = "spawned" => t.prompt # x
                           /\ \A e \in Names : e # d => x \notin Elements(children'[k][e].queue)
    BY DEF QueuesOnce
  <2>1. \A e \in Names : Elements(children'[k][e].queue) \subseteq Elements(children[k][e].queue) \cup {m}
    BY <1>2
  <2>2. \A e \in Names : e # c => m \notin Elements(children'[k][e].queue)
    BY <1>1
  <2>3. Distinct(children'[k][d].queue)
    BY <1>2 DEF Singly, QueuesOnce
  <2>4. ASSUME NEW x \in Elements(children'[k][d].queue)
        PROVE  /\ x \in sent' /\ handed'[k][x] = 0
               /\ \A t \in tasks' : t.of = k /\ t.at = "spawned" => t.prompt # x
               /\ \A e \in Names : e # d => x \notin Elements(children'[k][e].queue)
    <3>1. CASE x = m
      BY <1>3, <1>4, <2>2, <2>4, <3>1
    <3>2. CASE x # m
      <4>1. x \in Elements(children[k][d].queue) /\ x \in Messages
        BY <2>1, <2>4, <3>2, QueueElements
      <4>2. /\ x \in sent /\ handed[k][x] = 0
            /\ \A t \in tasks : t.of = k /\ t.at = "spawned" => t.prompt # x
            /\ \A e \in Names : e # d => x \notin Elements(children[k][e].queue)
        BY <4>1 DEF Singly, QueuesOnce
      <4> QED
        BY <2>1, <3>2, <4>1, <4>2 DEF SpawnsNo
    <3> QED
      BY <3>1, <3>2
  <2> QED
    BY <2>3, <2>4
<1>6. TasksOnce(k)'
  BY DEF Singly, TasksOnce, SpawnsNo
<1>7. HandedOnce(k)'
  BY DEF Singly, HandedOnce
<1>8. ASSUME NEW x \in Messages, Has(k, x)', x # m
      PROVE  Has(k, x)
  <2>1. CASE \E d \in Names : x \in Elements(children'[k][d].queue)
    BY <1>2, <1>8, <2>1 DEF Has
  <2>2. CASE \E t \in tasks' : t.of = k /\ t.at = "spawned" /\ t.prompt = x
    BY <2>2 DEF Has, SpawnsNo
  <2>3. CASE handed'[k][x] # 0
    BY <2>3 DEF Has
  <2> QED
    BY <1>8, <2>1, <2>2, <2>3 DEF Has
<1> QED
  BY <1>5, <1>6, <1>7, <1>8 DEF Singly, Kept

\* A message that is new, or that has left its queue, is with a task that is spawned.
LEMMA OnceSpawned ==
  ASSUME IInv, NEW k \in alive, Singly(k), NEW m \in Messages, NEW new, Shrinks(k),
         SpawnsNo(k, {m}),
         \A u \in tasks' : u.of = k /\ u.at = "spawned" /\ u.prompt = m => u = new,
         \A c \in Names : m \notin Elements(children'[k][c].queue),
         m \notin sent \/ \E c \in Names : m \in Elements(children[k][c].queue),
         sent' = sent \cup {m}, handed'[k] = handed[k]
  PROVE  Kept(k)
<1>1. handed[k][m] = 0
  BY DEF Singly, HandedOnce, QueuesOnce
<1>2. QueuesOnce(k)'
  <2> SUFFICES ASSUME NEW d \in Names
               PROVE  /\ Distinct(children'[k][d].queue)
                      /\ \A x \in Elements(children'[k][d].queue) :
                           /\ x \in sent' /\ handed'[k][x] = 0
                           /\ \A t \in tasks' : t.of = k /\ t.at = "spawned" => t.prompt # x
                           /\ \A e \in Names : e # d => x \notin Elements(children'[k][e].queue)
    BY DEF QueuesOnce
  <2>1. Distinct(children'[k][d].queue)
    BY DEF Singly, QueuesOnce, Shrinks
  <2>2. ASSUME NEW x \in Elements(children'[k][d].queue)
        PROVE  /\ x \in sent' /\ handed'[k][x] = 0
               /\ \A t \in tasks' : t.of = k /\ t.at = "spawned" => t.prompt # x
               /\ \A e \in Names : e # d => x \notin Elements(children'[k][e].queue)
    <3>1. x \in Elements(children[k][d].queue) /\ x \in Messages /\ x # m
      BY <2>2, QueueElements DEF Shrinks
    <3>2. /\ x \in sent /\ handed[k][x] = 0
          /\ \A t \in tasks : t.of = k /\ t.at = "spawned" => t.prompt # x
          /\ \A e \in Names : e # d => x \notin Elements(children[k][e].queue)
      BY <3>1 DEF Singly, QueuesOnce
    <3> QED
      BY <3>1, <3>2 DEF SpawnsNo, Shrinks
  <2> QED
    BY <2>1, <2>2
<1>3. TasksOnce(k)'
  <2> SUFFICES ASSUME NEW t \in tasks', t.of = k /\ t.at = "spawned", t.prompt \in Messages
               PROVE  /\ t.prompt \in sent' /\ handed'[k][t.prompt] = 0
                      /\ \A u \in tasks' : u.of = k /\ u.at = "spawned" /\ u.prompt = t.prompt => u = t
    BY DEF TasksOnce
  <2>1. CASE t.prompt = m
    BY <1>1, <2>1
  <2>2. CASE t.prompt # m
    <3>1. t \in tasks /\ \A u \in tasks' : u.of = k /\ u.at = "spawned" /\ u.prompt = t.prompt => u \in tasks
      BY <2>2 DEF SpawnsNo
    <3> QED
      BY <3>1 DEF Singly, TasksOnce
  <2> QED
    BY <2>1, <2>2
<1>4. HandedOnce(k)'
  BY DEF Singly, HandedOnce
<1>5. ASSUME NEW x \in Messages, Has(k, x)', x # m
      PROVE  Has(k, x)
  BY <1>5 DEF Has, Shrinks, SpawnsNo
<1>6. m \notin sent \/ Has(k, m)
  BY DEF Has
<1> QED
  BY <1>2, <1>3, <1>4, <1>5, <1>6 DEF Singly, Kept

\* A task starts, and its message is handed over.
LEMMA OnceHanded ==
  ASSUME IInv, NEW k \in alive, Singly(k), NEW t \in tasks, t.of = k, t.at = "spawned", t \notin tasks',
         SpawnsNo(k, {}),
         \A c \in Names : children'[k][c].queue = children[k][c].queue,
         sent' = sent,
         handed'[k] = IF t.prompt \in Messages THEN [handed[k] EXCEPT ![t.prompt] = @ + 1] ELSE handed[k]
  PROVE  Kept(k)
<1>1. CASE t.prompt \notin Messages
  <2>1. Shrinks(k)
    BY DEF Shrinks
  <2> QED
    BY <1>1, <2>1, OnceLess
<1>2. CASE t.prompt \in Messages
  <2>1. /\ handed[k][t.prompt] = 0 /\ t.prompt \in sent
        /\ \A u \in tasks' : u.of = k /\ u.at = "spawned" => u.prompt # t.prompt
    BY <1>2 DEF Singly, TasksOnce, SpawnsNo
  <2>2. /\ handed'[k][t.prompt] = 1 /\ \A m \in Messages : m # t.prompt => handed'[k][m] = handed[k][m]
    <3>1. k \in Managers
      BY SoundAt
    <3>2. handed[k] \in [Messages -> Nat]
      BY <3>1 DEF IInv, CountsOK
    <3> QED
      BY <1>2, <2>1, <3>2
  <2>3. \A c \in Names : t.prompt \notin Elements(children[k][c].queue)
    BY DEF Singly, QueuesOnce
  <2>4. QueuesOnce(k)'
    BY <2>2, <2>3, QueueElements DEF Singly, QueuesOnce, SpawnsNo
  <2>5. TasksOnce(k)'
    BY <2>1, <2>2 DEF Singly, TasksOnce, SpawnsNo
  <2>6. HandedOnce(k)'
    BY <2>1, <2>2 DEF Singly, HandedOnce
  <2>7. \A m \in Messages : Has(k, m)' => Has(k, m)
    BY <2>2 DEF Has, SpawnsNo
  <2> QED
    BY <2>4, <2>5, <2>6, <2>7 DEF Singly, Kept
<1> QED
  BY <1>1, <1>2

\* From one manager to all of them: the others are as they were, or have lost tasks.
LEMMA StepOnce ==
  ASSUME IInv, OnceOK, NEW k \in alive, Kept(k),
         UNCHANGED <<alive, shared, restores>>, sent \subseteq sent', disk' \in {disk, children'[k]},
         \A j \in Managers : j # k => children'[j] = children[j] /\ handed'[j] = handed[j],
         \A t \in tasks' : t.of # k => t \in tasks,
         faults' = 0 => /\ faults = 0
                        /\ disk' = children'[k] \/ (disk' = disk /\ children' = children)
  PROVE  OnceOK'
<1>1. k \in Managers /\ k <= restores /\ restores \in Nat /\ Managers \subseteq Nat
  <2>1. k \in Managers
    BY SoundAt
  <2>2. k <= restores /\ restores \in Nat
    BY DEF IInv, CountsOK
  <2>3. Managers \subseteq Nat
    BY DEF Managers
  <2> QED
    BY <2>1, <2>2, <2>3
<1>2. ASSUME NEW j \in Managers, j # k
      PROVE  Singly(j)' /\ \A m \in Messages : Has(j, m)' => Has(j, m)
  <2>1. Singly(j) /\ children'[j] = children[j] /\ handed'[j] = handed[j]
    BY <1>2 DEF OnceOK
  <2>2. \A t \in tasks' : t.of = j => t \in tasks
    BY <1>2
  <2>3. QueuesOnce(j)' /\ HandedOnce(j)'
    BY <2>1, <2>2 DEF Singly, QueuesOnce, HandedOnce
  <2>4. TasksOnce(j)'
    BY <2>1, <2>2 DEF Singly, TasksOnce
  <2>5. \A m \in Messages : Has(j, m)' => Has(j, m)
    BY <2>1, <2>2 DEF Has
  <2> QED
    BY <2>3, <2>4, <2>5 DEF Singly
<1>3. \A j \in Managers : Singly(j)'
  BY <1>2 DEF Kept
<1>4. FileOnce(disk)'
  <2>1. CASE disk' = disk
    BY <2>1 DEF OnceOK, FileOnce
  <2>2. CASE disk' = children'[k]
    BY <1>1, <1>3, <2>2 DEF Singly, QueuesOnce, FileOnce
  <2> QED
    BY <2>1, <2>2
<1>5. Unused'
  <2> SUFFICES ASSUME NEW j \in Managers, NEW m \in Messages, j > restores
               PROVE  handed'[j][m] = 0
    BY DEF Unused
  <2>1. j # k
    BY <1>1
  <2> QED
    BY <2>1 DEF OnceOK, Unused
<1>6. ASSUME faults' = 0
      PROVE  Exclusive'
  <2>1. Exclusive
    BY <1>6 DEF OnceOK
  <2>2. \E j \in alive' : disk' = children'[j]
    BY <1>6, <2>1 DEF Exclusive
  <2>3. ASSUME NEW j \in Managers, j # k, NEW m \in Messages, m \notin shared, Has(j, m)', Has(k, m)'
        PROVE  FALSE
    <3>1. Has(j, m)
      BY <1>2, <2>3
    <3>2. m \in sent
      BY <3>1 DEF OnceOK, Singly, QueuesOnce, TasksOnce, HandedOnce, Has
    <3>3. Has(k, m)
      BY <2>3, <3>2 DEF Kept
    <3> QED
      BY <1>1, <2>1, <2>3, <3>1, <3>3 DEF Exclusive
  <2>4. ASSUME NEW i \in Managers, NEW j \in Managers, NEW m \in Messages, m \notin shared,
               Has(i, m)', Has(j, m)'
        PROVE  i = j
    <3>1. CASE i = k \/ j = k
      BY <2>3, <2>4, <3>1
    <3>2. CASE i # k /\ j # k
      BY <1>2, <2>1, <2>4, <3>2 DEF Exclusive
    <3> QED
      BY <3>1, <3>2
  <2> QED
    BY <2>2, <2>4 DEF Exclusive
<1> QED
  BY <1>3, <1>4, <1>5, <1>6 DEF OnceOK
-----------------------------------------------------------------------------
(* The commands.                                                           *)

\* What a command has to leave of its child for everybody to be answered.
LEMMA CommandAnswers ==
  ASSUME IInv, ParentAnswered, NEW k \in alive, NEW c \in Names, NEW new, NEW spawned,
         Command(k, [children[k] EXCEPT ![c] = new], c, spawned),
         new.state \in {"queued", "running"} => \E t \in tasks \cup spawned : t.of = k /\ t.child = c
  PROVE  ParentAnswered'
<1> DEFINE cs == [children[k] EXCEPT ![c] = new]
<1>0. cs[c] = new /\ \A d \in Names : d # c => cs[d] = children[k][d]
  BY SoundAt DEF Sound
<1>1. CASE faults' = 0
  <2>1. /\ faults = 0 /\ children'[k] = cs /\ tasks' = tasks \cup spawned /\ alive' = alive
        /\ waiter' = Woken(k, c) /\ \A j \in Managers : j # k => children'[j] = children[j]
    BY <1>1, Commanded
  <2> HIDE DEF cs
  <2>2. children'[k][c] = new /\ \A d \in Names : d # c => children'[k][d] = children[k][d]
    BY <2>1, <1>0
  <2> QED
    BY <2>1, <2>2, Answers
<1>2. CASE faults' # 0
  BY <1>2 DEF ParentAnswered
<1> QED
  BY <1>1, <1>2

\* The commands of one manager, for all of them.
LEMMA CommandLifts ==
  ASSUME IInv, OnceOK, NEW k \in alive, NEW c \in Names, NEW cs, NEW spawned,
         Command(k, cs, c, spawned), \A t \in spawned : t.of = k, Kept(k), sent \subseteq sent'
  PROVE  OnceOK'
<1>1. /\ children'[k] = cs /\ \A j \in Managers : j # k => children'[j] = children[j]
      /\ UNCHANGED <<alive, handed, shared, restores>> /\ disk' \in {disk, cs}
      /\ tasks' \in {tasks, tasks \cup spawned}
      /\ faults' = 0 => faults = 0 /\ disk' = cs
  BY Commanded
<1>2. \A t \in tasks' : t.of # k => t \in tasks
  BY <1>1
<1> QED
  BY <1>1, <1>2, StepOnce

\* A command that leaves the messages where they are, or drops some.
LEMMA CommandOnce ==
  ASSUME IInv, OnceOK, NEW k \in alive, NEW c \in Names, NEW new \in ChildRecord, NEW spawned,
         Command(k, [children[k] EXCEPT ![c] = new], c, spawned),
         \A t \in spawned : t.of = k /\ t.prompt = Generic,
         new.queue = children[k][c].queue \/ new.queue = << >>, sent' = sent
  PROVE  OnceOK'
<1> DEFINE cs == [children[k] EXCEPT ![c] = new]
<1>0. cs[c] = new /\ \A d \in Names : d # c => cs[d] = children[k][d]
  BY SoundAt DEF Sound
<1>1. /\ children'[k] = cs /\ tasks' \in {tasks, tasks \cup spawned} /\ handed' = handed
  BY Commanded
<1>2. Command(k, cs, c, spawned)
  OBVIOUS
<1> HIDE DEF cs
<1>3. Shrinks(k)
  BY <1>0, <1>1, QueueEmpty DEF Shrinks
<1>4. SpawnsNo(k, {})
  BY <1>1, ManagerAssumption DEF SpawnsNo
<1>5. Singly(k)
  BY SoundAt DEF OnceOK
<1>6. Kept(k)
  BY <1>1, <1>3, <1>4, <1>5, OnceLess
<1> QED
  BY <1>2, <1>6, CommandLifts

\* A command that gives the message m to a new task, or, when its save fails, to nobody.
LEMMA CommandSpawns ==
  ASSUME IInv, OnceOK, NEW k \in alive, NEW c \in Names, NEW new \in ChildRecord, NEW m \in Messages,
         Command(k, [children[k] EXCEPT ![c] = new], c, Spawn(k, c, m)),
         \/ m \notin sent /\ (new.queue = children[k][c].queue \/ new.queue = << >>)
         \/ /\ children[k][c].queue # << >> /\ m = Head(children[k][c].queue)
            /\ new.queue = Tail(children[k][c].queue),
         sent' = sent \cup {m}
  PROVE  OnceOK'
<1> DEFINE cs == [children[k] EXCEPT ![c] = new]
           spawned == Spawn(k, c, m)
           q == children[k][c].queue
           t == [of |-> k, id |-> ops, child |-> c, prompt |-> m, at |-> "spawned", rank |-> 0]
<1>1. cs[c] = new /\ \A d \in Names : d # c => cs[d] = children[k][d]
  BY SoundAt DEF Sound
<1>2. /\ children'[k] = cs /\ tasks' \in {tasks, tasks \cup spawned} /\ handed' = handed
  BY Commanded
<1>3. Command(k, cs, c, spawned) /\ spawned = {t} /\ t.of = k /\ t.prompt = m
  BY DEF Spawn
<1> HIDE DEF cs, t, spawned
<1>4. children'[k][c] = new /\ \A d \in Names : d # c => children'[k][d] = children[k][d]
  BY <1>1, <1>2
<1>5. Singly(k) /\ q \in Seq(Messages)
  BY SoundAt, ChildType DEF OnceOK, ChildRecord
<1>6. /\ Elements(new.queue) \subseteq Elements(q) /\ Distinct(new.queue)
      /\ m \notin sent \/ m \in Elements(q)
      /\ m \notin Elements(new.queue)
  <2>1. CASE m \notin sent /\ (new.queue = q \/ new.queue = << >>)
    BY <1>5, <2>1, QueueEmpty DEF Singly, QueuesOnce
  <2>2. CASE q # << >> /\ m = Head(q) /\ new.queue = Tail(q)
    BY <1>5, <2>2, QueueTail DEF Singly, QueuesOnce
  <2> QED
    BY <2>1, <2>2
<1>7. Shrinks(k)
  BY <1>4, <1>6 DEF Shrinks
<1>8. \A d \in Names : m \notin Elements(children'[k][d].queue)
  BY <1>4, <1>5, <1>6 DEF Singly, QueuesOnce
<1>9. \A u \in tasks : u.of = k /\ u.at = "spawned" => u.prompt # m
  BY <1>5, <1>6 DEF Singly, QueuesOnce, TasksOnce
<1>10. SpawnsNo(k, {m}) /\ \A u \in tasks' : u.of = k /\ u.at = "spawned" /\ u.prompt = m => u = t
  BY <1>2, <1>3, <1>9 DEF SpawnsNo
<1>11. Kept(k)
  BY <1>2, <1>5, <1>6, <1>7, <1>8, <1>10, OnceSpawned
<1>12. \A u \in spawned : u.of = k
  BY <1>3
<1> QED
  BY <1>3, <1>11, <1>12, CommandLifts

LEMMA CreateDelivers ==
  ASSUME IInv, Delivery, NEW by \in Callers, NEW k \in alive, k = by.of,
         NEW c \in Names, NEW p \in BOOLEAN, NEW r \in 0 .. 2,
         NEW m \in Messages \cup {Generic}, Create(by, c, p, r, m)
  PROVE  Delivery'
<1> DEFINE new == [state |-> IF m # Generic THEN "queued" ELSE "idle", persistent |-> p,
                   rank |-> r, parent |-> by.id, queue |-> << >>]
           spawned == IF m # Generic THEN Spawn(k, c, m) ELSE {}
<1>1. /\ Command(k, [children[k] EXCEPT ![c] = new], c, spawned)
      /\ m \notin sent /\ sent' = sent \cup ({m} \ {Generic})
  BY DEF Create
<1>2. new \in ChildRecord /\ new.queue = << >> /\ (new.state \in {"queued", "running"} => m # Generic)
  BY CallerOK, EmptySeq DEF ChildRecord
<1> HIDE DEF new
<1>3. /\ m # Generic => \E t \in spawned : t.of = k /\ t.child = c
      /\ m = Generic => \A t \in spawned : t.of = k /\ t.prompt = Generic
  BY DEF Spawn
<1>4. ParentAnswered'
  <2> HIDE DEF spawned
  <2> QED
    BY <1>1, <1>2, <1>3, CommandAnswers DEF Delivery
<1>5. OnceOK'
  <2>1. CASE m = Generic
    <3>1. sent' = sent
      BY <1>1, <2>1
    <3>2. \A t \in spawned : t.of = k /\ t.prompt = Generic
      BY <1>3, <2>1
    <3> HIDE DEF spawned
    <3> QED
      BY <1>1, <1>2, <3>1, <3>2, CommandOnce DEF Delivery
  <2>2. CASE m # Generic
    BY <1>1, <1>2, <2>2, CommandSpawns DEF Delivery
  <2> QED
    BY <2>1, <2>2
<1> QED
  BY <1>4, <1>5 DEF Delivery

LEMMA SendDelivers ==
  ASSUME IInv, Delivery, NEW by \in Callers, NEW k \in alive, k = by.of,
         NEW c \in Names, NEW m \in Messages, Send(by, c, m)
  PROVE  Delivery'
<1> DEFINE child == children[k][c]
           new == IF Settled(k, c) THEN [child EXCEPT !.state = "queued"]
                  ELSE [child EXCEPT !.queue = Append(@, m)]
           spawned == IF Settled(k, c) THEN Spawn(k, c, m) ELSE {}
<1>1. /\ Command(k, [children[k] EXCEPT ![c] = new], c, spawned)
      /\ m \notin sent /\ sent' = sent \cup {m}
  BY DEF Send
<1>2. child \in ChildRecord /\ Append(child.queue, m) \in Seq(Messages)
  BY ChildType, AppendProperties DEF ChildRecord
<1>3. /\ new \in ChildRecord
      /\ Settled(k, c) => new.queue = child.queue
      /\ ~Settled(k, c) => new.queue = Append(child.queue, m)
  BY <1>2 DEF ChildRecord
<1> HIDE DEF new
<1>4. Settled(k, c) => \E t \in spawned : t.of = k /\ t.child = c
  BY DEF Spawn
<1>5. ParentAnswered'
  <2>1. CASE faults' = 0
    <3>1. faults = 0
      BY <1>1, <2>1, Commanded
    <3>2. \E t \in tasks \cup spawned : t.of = k /\ t.child = c
      BY <1>4, <3>1 DEF Delivery, ParentAnswered
    <3> HIDE DEF spawned
    <3> QED
      BY <1>1, <3>2, CommandAnswers DEF Delivery
  <2>2. CASE faults' # 0
    BY <2>2 DEF ParentAnswered
  <2> QED
    BY <2>1, <2>2
<1>6. OnceOK'
  <2>1. CASE Settled(k, c)
    BY <1>1, <1>3, <2>1, CommandSpawns DEF Delivery
  <2>2. CASE ~Settled(k, c)
    <3> DEFINE cs == [children[k] EXCEPT ![c] = new]
    <3>1. cs[c] = new /\ \A d \in Names : d # c => cs[d] = children[k][d]
      BY SoundAt DEF Sound
    <3>2. Command(k, cs, c, {})
      BY <1>1, <2>2
    <3> HIDE DEF cs
    <3>3. children'[k] = cs /\ tasks' = tasks /\ handed' = handed
      BY <3>2, Commanded
    <3>4. /\ children'[k][c].queue = Append(children[k][c].queue, m)
          /\ \A d \in Names : d # c => children'[k][d] = children[k][d]
      BY <1>3, <2>2, <3>1, <3>3
    <3>5. SpawnsNo(k, {}) /\ Singly(k)
      BY <3>3, SoundAt DEF SpawnsNo, Delivery, OnceOK
    <3>6. Kept(k)
      BY <1>1, <3>3, <3>4, <3>5, OnceQueued
    <3> QED
      BY <1>1, <3>2, <3>6, CommandLifts DEF Delivery
  <2> QED
    BY <2>1, <2>2
<1> QED
  BY <1>5, <1>6 DEF Delivery

\* A command that starts nothing, and leaves or empties the queue.
LEMMA PlainDelivers ==
  ASSUME IInv, Delivery, NEW k \in alive, NEW c \in Names, NEW new \in ChildRecord,
         Command(k, [children[k] EXCEPT ![c] = new], c, {}), sent' = sent,
         new.queue = children[k][c].queue \/ new.queue = << >>,
         new.state \in {"queued", "running"} => new.state = children[k][c].state
  PROVE  Delivery'
<1>1. OnceOK'
  <2>1. \A t \in {} : t.of = k /\ t.prompt = Generic
    OBVIOUS
  <2> QED
    BY <2>1, CommandOnce DEF Delivery
<1>2. CASE faults' = 0
  <2>1. faults = 0
    BY <1>2, Commanded
  <2>2. new.state \in {"queued", "running"} => \E t \in tasks : t.of = k /\ t.child = c
    BY <2>1 DEF Delivery, ParentAnswered, Settled
  <2> QED
    BY <1>1, <2>2, CommandAnswers DEF Delivery
<1>3. CASE faults' # 0
  BY <1>1, <1>3 DEF Delivery, ParentAnswered
<1> QED
  BY <1>2, <1>3

LEMMA ConfigureDelivers ==
  ASSUME IInv, Delivery, NEW by \in Callers, NEW k \in alive, k = by.of,
         NEW c \in Names,
         \/ \E r \in 0 .. 2 : Configure(by, c, r)
         \/ \E p \in Names \cup {Root, Detached} : Relate(by, c, p)
  PROVE  Delivery'
<1>1. children[k][c] \in ChildRecord
  BY ChildType
<1>2. CASE \E r \in 0 .. 2 : Configure(by, c, r)
  <2>1. PICK r \in 0 .. 2 : Configure(by, c, r)
    BY <1>2
  <2> DEFINE new == [children[k][c] EXCEPT !.rank = r]
  <2>2. Command(k, [children[k] EXCEPT ![c] = new], c, {}) /\ sent' = sent
    BY <2>1 DEF Configure
  <2>3. new \in ChildRecord /\ new.queue = children[k][c].queue /\ new.state = children[k][c].state
    BY <1>1 DEF ChildRecord
  <2> HIDE DEF new
  <2> QED
    BY <2>2, <2>3, PlainDelivers
<1>3. CASE \E p \in Names \cup {Root, Detached} : Relate(by, c, p)
  <2>1. PICK p \in Names \cup {Root, Detached} : Relate(by, c, p)
    BY <1>3
  <2> DEFINE new == [children[k][c] EXCEPT !.parent = p]
  <2>2. Command(k, [children[k] EXCEPT ![c] = new], c, {}) /\ sent' = sent
    BY <2>1 DEF Relate
  <2>3. new \in ChildRecord /\ new.queue = children[k][c].queue /\ new.state = children[k][c].state
    BY <1>1 DEF ChildRecord
  <2> HIDE DEF new
  <2> QED
    BY <2>2, <2>3, PlainDelivers
<1> QED
  BY <1>2, <1>3

LEMMA CancelDelivers ==
  ASSUME IInv, Delivery, NEW by \in Callers, NEW k \in alive, k = by.of,
         NEW c \in Names, Cancel(by, c) \/ Reopen(by, c)
  PROVE  Delivery'
<1>1. PICK to \in {"cancelled", "idle", "interrupted"} :
        Command(k, [children[k] EXCEPT ![c].state = to], c, {}) /\ sent' = sent
  BY DEF Cancel, Reopen
<1> DEFINE new == [children[k][c] EXCEPT !.state = to]
<1>2. new \in ChildRecord /\ new.queue = children[k][c].queue /\ new.state = to
  BY ChildType DEF ChildRecord
<1>3. Command(k, [children[k] EXCEPT ![c] = new], c, {})
  BY <1>1
<1> HIDE DEF new
<1> QED
  BY <1>1, <1>2, <1>3, PlainDelivers

LEMMA CloseDelivers ==
  ASSUME IInv, Delivery, NEW by \in Callers, NEW k \in alive, k = by.of,
         NEW c \in Names, Close(by, c)
  PROVE  Delivery'
<1> DEFINE new == [children[k][c] EXCEPT !.state = "archived", !.queue = << >>]
<1>1. [children[k] EXCEPT ![c].state = "archived", ![c].queue = << >>] = [children[k] EXCEPT ![c] = new]
  BY SoundAt DEF Sound, ChildRecord
<1>2. Command(k, [children[k] EXCEPT ![c] = new], c, {}) /\ sent' = sent
  BY <1>1 DEF Close
<1>3. new \in ChildRecord /\ new.queue = << >> /\ new.state = "archived"
  BY ChildType, EmptySeq, RecordSet
<1> HIDE DEF new
<1> QED
  BY <1>2, <1>3, PlainDelivers

LEMMA ResumeDelivers ==
  ASSUME IInv, Delivery, NEW by \in Callers, NEW k \in alive, k = by.of,
         NEW c \in Names, Resume(by, c)
  PROVE  Delivery'
<1> DEFINE queue == children[k][c].queue
           prompt == NextPrompt(queue)
           rest == IF queue = << >> THEN queue ELSE Tail(queue)
           new == [children[k][c] EXCEPT !.state = "queued", !.queue = rest]
<1>1. queue \in Seq(Messages)
  BY ChildType DEF ChildRecord
<1>2. rest \in Seq(Messages)
  BY <1>1, HeadTailProperties
<1>3. ResumesWith(by, c, rest, prompt)
  BY DEF Resume
<1>5. /\ queue = << >> => prompt = Generic /\ rest = queue
      /\ queue # << >> => prompt = Head(queue) /\ rest = Tail(queue) /\ prompt \in Messages
  BY <1>1, HeadTailProperties DEF NextPrompt
<1> HIDE DEF prompt, rest
<1>4. Command(k, [children[k] EXCEPT ![c] = new], c, Spawn(k, c, prompt)) /\ sent' = sent
  <2>1. /\ Command(k, [children[k] EXCEPT ![c].state = "queued", ![c].queue = rest], c,
                   Spawn(k, c, prompt))
        /\ sent' = sent
    BY <1>3 DEF ResumesWith
  <2>2. [children[k] EXCEPT ![c].state = "queued", ![c].queue = rest] = [children[k] EXCEPT ![c] = new]
    BY SoundAt DEF Sound, ChildRecord
  <2> QED
    BY <2>1, <2>2
<1>6. \A t \in Spawn(k, c, prompt) : t.of = k /\ t.child = c /\ t.prompt = prompt
  BY DEF Spawn
<1>7. \E t \in Spawn(k, c, prompt) : t.of = k /\ t.child = c
  BY DEF Spawn
<1>8. new \in ChildRecord /\ new.queue = rest
  <2>1. children[k][c] \in ChildRecord
    BY ChildType
  <2> QED
    BY <1>2, <2>1 DEF ChildRecord
<1> HIDE DEF new
<1>9. ParentAnswered'
  BY <1>4, <1>7, CommandAnswers DEF Delivery
<1>10. OnceOK'
  <2>1. CASE queue = << >>
    <3>1. \A t \in Spawn(k, c, prompt) : t.of = k /\ t.prompt = Generic
      BY <1>5, <1>6, <2>1
    <3> QED
      BY <1>4, <1>5, <1>8, <2>1, <3>1, CommandOnce DEF Delivery
  <2>2. CASE queue # << >>
    <3>1. Singly(k)
      BY SoundAt DEF Delivery, OnceOK
    <3>2. prompt \in Elements(queue)
      BY <1>1, <1>5, <2>2, QueueTail
    <3>3. sent' = sent \cup {prompt}
      BY <1>4, <3>1, <3>2 DEF Singly, QueuesOnce
    <3> QED
      BY <1>4, <1>5, <1>8, <2>2, <3>3, CommandSpawns DEF Delivery
  <2> QED
    BY <2>1, <2>2
<1> QED
  BY <1>9, <1>10 DEF Delivery

LEMMA MilestoneDelivers ==
  ASSUME IInv, Delivery, NEW by \in Callers, NEW k \in alive, k = by.of, Milestone(by)
  PROVE  Delivery'
<1>1. by.id \in Names /\ Command(k, children[k], by.id, {}) /\ sent' = sent
  BY CallerOK DEF Milestone
<1>2. children[k] = [children[k] EXCEPT ![by.id] = children[k][by.id]]
  BY <1>1, SoundAt DEF Sound
<1>3. Command(k, [children[k] EXCEPT ![by.id] = children[k][by.id]], by.id, {})
  BY <1>1, <1>2
<1>4. children[k][by.id] \in ChildRecord
  BY <1>1, ChildType
<1> QED
  BY <1>1, <1>3, <1>4, PlainDelivers

\* The places of the messages, and the file, are as they were.
LEMMA SameOnce ==
  ASSUME OnceOK, UNCHANGED <<alive, children, tasks, disk, sent, handed, shared, faults, restores>>
  PROVE  OnceOK'
<1>1. \A k \in Managers : Singly(k)' <=> Singly(k)
  BY DEF Singly, QueuesOnce, TasksOnce, HandedOnce
<1>2. \A k \in Managers, m \in Messages : Has(k, m)' <=> Has(k, m)
  BY DEF Has
<1>3. FileOnce(disk)' /\ Unused'
  BY DEF OnceOK, FileOnce, Unused
<1>4. Exclusive' <=> Exclusive
  BY <1>2 DEF Exclusive
<1> QED
  BY <1>1, <1>3, <1>4 DEF OnceOK

\* The steps of a wait leave everything but the waiter.
LEMMA WaitDelivers ==
  ASSUME IInv, Delivery, NEW k \in alive, NEW c \in Names,
         (\E by \in Callers : k = by.of /\ Wait(by, c)) \/ LookAgain(k, c) \/ WaitTimesOut(k, c)
  PROVE  Delivery'
<1>1. UNCHANGED <<alive, children, tasks, disk, sent, handed, shared, faults, restores>>
  BY DEF Wait, LookAgain, WaitTimesOut, runVars
<1>2. PICK to \in {"none", "asleep"} :
        /\ waiter' = [waiter EXCEPT ![k][c] = to]
        /\ to = "asleep" => ~Settled(k, c)
  BY DEF Wait, LookAgain, WaitTimesOut
<1>3. /\ \A j \in Managers, d \in Names : j # k \/ d # c => waiter'[j][d] = waiter[j][d]
      /\ waiter'[k][c] = to
  BY <1>2, SoundAt DEF IInv, CountsOK
<1>4. \A j \in alive, d \in Names :
        /\ Settled(j, d)' <=> Settled(j, d)
        /\ waiter'[j][d] = "asleep" => waiter[j][d] = "asleep" \/ ~Settled(j, d)
  BY <1>1, <1>2, <1>3, SoundAt DEF Settled
<1>5. ParentAnswered'
  BY <1>1, <1>4 DEF Delivery, ParentAnswered
<1>6. OnceOK'
  BY <1>1, SameOnce DEF Delivery
<1> QED
  BY <1>5, <1>6 DEF Delivery
-----------------------------------------------------------------------------
(* The steps of a run, and a restore.                                      *)

\* A step of a run that saves, leaves its child settled or with a task, and the messages
\* where they have to be.
LEMMA RunDelivers ==
  ASSUME IInv, Delivery, NEW t \in tasks, NEW k \in alive, k = t.of, NEW cs, SaveInRun(k, cs, t.child),
         \A d \in Names : d # t.child => cs[d] = children[k][d],
         cs[t.child].state \in {"queued", "running"} => \E u \in tasks' : u.of = k /\ u.child = t.child,
         \A u \in tasks : u # t => u \in tasks',
         \A u \in tasks' : u.of # k => u \in tasks,
         \A j \in Managers : j # k => handed'[j] = handed[j],
         Kept(k)
  PROVE  Delivery'
<1>1. /\ children'[k] = cs /\ \A j \in Managers : j # k => children'[j] = children[j]
      /\ UNCHANGED <<alive, sent, shared, restores>> /\ disk' \in {disk, cs}
      /\ waiter' = Woken(k, t.child) /\ t.child \in Names
      /\ faults' = 0 => faults = 0 /\ disk' = cs
  BY Saved, TaskType
<1>2. OnceOK'
  BY <1>1, StepOnce DEF Delivery
<1>3. CASE faults' = 0
  <2>1. \A u \in tasks : u.of # k \/ u.child # t.child => u \in tasks'
    OBVIOUS
  <2>2. ParentAnswered'
    BY <1>1, <1>3, <2>1, Answers DEF Delivery
  <2> QED
    BY <1>2, <2>2 DEF Delivery
<1>4. CASE faults' # 0
  BY <1>2, <1>4 DEF Delivery, ParentAnswered
<1> QED
  BY <1>3, <1>4

\* Nothing is saved, and the tasks lose t or have it stopped.
LEMMA LeaveDelivers ==
  ASSUME IInv, Delivery, NEW t \in tasks, NEW k \in alive, k = t.of, NEW left,
         \A u \in left : u.of = k /\ u.child = t.child /\ u.at # "spawned",
         tasks' = (tasks \ {t}) \cup left,
         Settled(k, t.child) \/ left # {},
         UNCHANGED <<alive, children, waiter, disk, sent, handed, shared, faults, restores>>
  PROVE  Delivery'
<1>1. Shrinks(k) /\ SpawnsNo(k, {})
  BY DEF Shrinks, SpawnsNo
<1>2. Singly(k)
  BY SoundAt DEF Delivery, OnceOK
<1>3. Kept(k)
  BY <1>1, <1>2, OnceLess
<1>4. \A u \in tasks' : u.of # k => u \in tasks
  OBVIOUS
<1>5. OnceOK'
  BY <1>3, <1>4, StepOnce DEF Delivery
<1>6. ASSUME faults = 0, NEW j \in alive, NEW d \in Names
      PROVE  /\ Settled(j, d) \/ \E u \in tasks' : u.of = j /\ u.child = d
             /\ waiter[j][d] = "asleep" => ~Settled(j, d)
  <2>1. /\ Settled(j, d) \/ \E u \in tasks : u.of = j /\ u.child = d
        /\ waiter[j][d] = "asleep" => ~Settled(j, d)
    BY <1>6 DEF Delivery, ParentAnswered
  <2>2. CASE j = k /\ d = t.child
    BY <2>1, <2>2
  <2>3. CASE j # k \/ d # t.child
    BY <2>1, <2>3
  <2> QED
    BY <2>2, <2>3
<1>7. ParentAnswered'
  BY <1>6 DEF ParentAnswered, Settled
<1> QED
  BY <1>5, <1>7 DEF Delivery

LEMMA StartDelivers ==
  ASSUME IInv, Delivery, NEW t \in tasks, NEW k \in alive, k = t.of, Start(t)
  PROVE  Delivery'
<1> DEFINE c == t.child
<1>1. t.at = "spawned" /\ t \in Task /\ c \in Names
  BY TaskType DEF Start
<1>2. CASE children[k][c].state = "archived"
  <2>1. /\ tasks' = tasks \ {t}
        /\ UNCHANGED <<alive, children, waiter, disk, sent, handed, shared, faults, restores>>
    BY <1>2 DEF Start, runVars
  <2>2. PICK left : left = {}
    OBVIOUS
  <2>3. /\ tasks' = (tasks \ {t}) \cup left /\ Settled(k, t.child)
        /\ \A u \in left : u.of = k /\ u.child = t.child /\ u.at # "spawned"
    BY <1>2, <2>1, <2>2 DEF Settled
  <2> HIDE DEF c
  <2> QED
    BY <2>1, <2>3, LeaveDelivers
<1>3. CASE children[k][c].state # "archived"
  <2> DEFINE u == [t EXCEPT !.at = "run", !.rank = children[k][c].rank]
             cs == [children[k] EXCEPT ![c].state = "running"]
  <2>1. /\ tasks' = (tasks \ {t}) \cup {u}
        /\ handed' = IF t.prompt \in Messages
                     THEN [handed EXCEPT ![k][t.prompt] = @ + 1] ELSE handed
        /\ SaveInRun(k, cs, c)
    BY <1>3 DEF Start
  <2>2. u.of = k /\ u.at = "run" /\ u.child = c
    BY <1>1 DEF Task
  <2>3. /\ \A d \in Names : d # c => cs[d] = children[k][d]
        /\ \A d \in Names : cs[d].queue = children[k][d].queue
    BY SoundAt DEF Sound, ChildRecord
  <2> HIDE DEF u, cs, c
  <2>4. t \notin tasks' /\ SpawnsNo(k, {})
    BY <1>1, <2>1, <2>2 DEF SpawnsNo
  <2>5. /\ handed'[k] = IF t.prompt \in Messages THEN [handed[k] EXCEPT ![t.prompt] = @ + 1]
                        ELSE handed[k]
        /\ \A j \in Managers : j # k => handed'[j] = handed[j]
    BY <2>1, SoundAt DEF IInv, CountsOK
  <2>6. Singly(k) /\ children'[k] = cs /\ sent' = sent
    BY <1>1, <2>1, SoundAt, Saved DEF Delivery, OnceOK
  <2>7. \A d \in Names : children'[k][d].queue = children[k][d].queue
    BY <2>3, <2>6
  <2>8. Kept(k)
    BY <1>1, <2>4, <2>5, <2>6, <2>7, OnceHanded
  <2>9. /\ \E v \in tasks' : v.of = k /\ v.child = c
        /\ \A v \in tasks : v # t => v \in tasks'
        /\ \A v \in tasks' : v.of # k => v \in tasks
    BY <2>1, <2>2
  <2> QED
    BY <2>1, <2>3, <2>5, <2>8, <2>9, RunDelivers DEF c
<1> QED
  BY <1>2, <1>3

LEMMA EmitDelivers ==
  ASSUME IInv, Delivery, NEW t \in tasks, NEW k \in alive, k = t.of, Emit(t)
  PROVE  Delivery'
<1>1. SaveInRun(k, children[k], t.child) /\ tasks' = tasks /\ handed' = handed
  BY DEF Emit
<1>2. Singly(k) /\ children'[k] = children[k] /\ sent' = sent
  BY <1>1, SoundAt, TaskType, Saved DEF Delivery, OnceOK
<1>3. Shrinks(k) /\ SpawnsNo(k, {})
  BY <1>1, <1>2 DEF Shrinks, SpawnsNo
<1>4. Kept(k)
  BY <1>1, <1>2, <1>3, OnceLess
<1>5. \E u \in tasks' : u.of = k /\ u.child = t.child
  BY <1>1
<1> QED
  BY <1>1, <1>4, <1>5, RunDelivers

LEMMA ObserveDelivers ==
  ASSUME IInv, Delivery, NEW t \in tasks, NEW k \in alive, k = t.of, Observe(t)
  PROVE  Delivery'
<1> DEFINE u == [t EXCEPT !.at = "stopped"]
<1>1. /\ tasks' = (tasks \ {t}) \cup {u}
      /\ UNCHANGED <<alive, children, waiter, disk, sent, handed, shared, faults, restores>>
  BY DEF Observe, runVars
<1>2. u.of = k /\ u.at = "stopped" /\ u.child = t.child
  BY TaskType DEF Task
<1> HIDE DEF u
<1>3. PICK left : left = {u}
  OBVIOUS
<1>4. /\ tasks' = (tasks \ {t}) \cup left /\ left # {}
      /\ \A v \in left : v.of = k /\ v.child = t.child /\ v.at # "spawned"
  BY <1>1, <1>2, <1>3
<1> QED
  BY <1>1, <1>4, LeaveDelivers
LEMMA SettleDelivers ==
  ASSUME IInv, Delivery, NEW t \in tasks, NEW k \in alive, k = t.of, NEW outcome, Settle(t, outcome)
  PROVE  Delivery'
<1> DEFINE c == t.child
           child == children[k][c]
           m == Head(child.queue)
           next == [t EXCEPT !.at = "spawned", !.rank = 0, !.prompt = m]
<1>1. /\ t.at # "spawned" /\ t \in Task /\ c \in Names /\ child \in ChildRecord
      /\ child.queue \in Seq(Messages)
  BY TaskType DEF Settle, ChildRecord
<1>2. PICK new \in ChildRecord, again \in {{}, {next}} :
        /\ tasks' = (tasks \ {t}) \cup again /\ SaveInRun(k, [children[k] EXCEPT ![c] = new], c)
        /\ handed' = handed
        /\ \/ /\ again = {} /\ new.queue = child.queue
              /\ new.state \notin {"queued", "running"}
           \/ /\ again = {next} /\ child.queue # << >> /\ new.queue = Tail(child.queue)
  <2>1. CASE child.state = "archived"
    <3>1. /\ tasks' = (tasks \ {t}) \cup {} /\ SaveInRun(k, [children[k] EXCEPT ![c] = child], c)
          /\ handed' = handed
      BY <2>1 DEF Settle
    <3> QED
      BY <1>1, <2>1, <3>1
  <2>2. CASE child.state # "archived" /\ child.persistent /\ child.queue # << >>
    <3> DEFINE new == [child EXCEPT !.state = "queued", !.queue = Tail(child.queue)]
    <3>1. /\ tasks' = (tasks \ {t}) \cup {next} /\ SaveInRun(k, [children[k] EXCEPT ![c] = new], c)
          /\ handed' = handed
      BY <2>2 DEF Settle
    <3>2. Tail(child.queue) \in Seq(Messages)
      BY <1>1, <2>2, HeadTailProperties
    <3>3. new \in ChildRecord /\ new.queue = Tail(child.queue)
      BY <1>1, <3>2 DEF ChildRecord
    <3> HIDE DEF new, next
    <3> QED
      BY <2>2, <3>1, <3>3
  <2>3. CASE child.state # "archived" /\ ~(child.persistent /\ child.queue # << >>)
    <3> DEFINE new == [child EXCEPT !.state = Result(t, outcome)]
    <3>1. /\ tasks' = (tasks \ {t}) \cup {} /\ SaveInRun(k, [children[k] EXCEPT ![c] = new], c)
          /\ handed' = handed
      BY <2>3 DEF Settle
    <3>2. Result(t, outcome) \in {"failed", "cancelled", "idle", "completed"}
      BY DEF Result
    <3>3. /\ new \in ChildRecord /\ new.queue = child.queue
          /\ new.state \notin {"queued", "running"}
      BY <1>1, <3>2 DEF ChildRecord
    <3> HIDE DEF new, next
    <3> QED
      BY <3>1, <3>3
  <2> QED
    BY <2>1, <2>2, <2>3
<1> DEFINE cs == [children[k] EXCEPT ![c] = new]
<1>3. cs[c] = new /\ \A d \in Names : d # c => cs[d] = children[k][d]
  BY <1>1, SoundAt DEF Sound
<1>4. next.of = k /\ next.child = c /\ next.prompt = m
  BY <1>1 DEF Task
<1>8. SaveInRun(k, cs, c)
  BY <1>2
<1> HIDE DEF cs, next
<1>5. Kept(k)
  <2>1. Singly(k) /\ children'[k] = cs /\ sent' = sent /\ handed'[k] = handed[k]
    BY <1>1, <1>2, <1>8, SoundAt, Saved DEF Delivery, OnceOK
  <2>2. CASE again = {} /\ new.queue = child.queue
    <3>1. Shrinks(k) /\ SpawnsNo(k, {})
      BY <1>2, <1>3, <2>1, <2>2 DEF Shrinks, SpawnsNo
    <3> QED
      BY <2>1, <3>1, OnceLess
  <2>3. CASE again = {next} /\ child.queue # << >> /\ new.queue = Tail(child.queue)
    <3>1. /\ m \in Messages /\ m \in Elements(child.queue)
          /\ Elements(new.queue) \subseteq Elements(child.queue)
          /\ Distinct(new.queue) /\ m \notin Elements(new.queue)
      BY <1>1, <2>1, <2>3, QueueTail, HeadTailProperties DEF Singly, QueuesOnce
    <3>2. Shrinks(k)
      BY <1>3, <2>1, <3>1 DEF Shrinks
    <3>3. \A d \in Names : m \notin Elements(children'[k][d].queue)
      BY <1>1, <1>3, <2>1, <3>1 DEF Singly, QueuesOnce
    <3>4. sent' = sent \cup {m} /\ \A u \in tasks : u.of = k /\ u.at = "spawned" => u.prompt # m
      <4>1. m \in sent /\ \A u \in tasks : u.of = k /\ u.at = "spawned" => u.prompt # m
        <5> HIDE DEF m
        <5> QED
          BY <1>1, <2>1, <3>1 DEF Singly, QueuesOnce
      <4> HIDE DEF m
      <4> QED
        BY <2>1, <4>1
    <3>5. SpawnsNo(k, {m}) /\ \A u \in tasks' : u.of = k /\ u.at = "spawned" /\ u.prompt = m => u = next
      BY <1>2, <1>4, <2>3, <3>4 DEF SpawnsNo
    <3> HIDE DEF m
    <3>6. m \notin sent \/ \E d \in Names : m \in Elements(children[k][d].queue)
      BY <1>1, <3>1
    <3> QED
      BY <2>1, <3>1, <3>2, <3>3, <3>4, <3>5, <3>6, OnceSpawned
  <2> QED
    BY <1>2, <2>2, <2>3
<1>6. cs[c].state \in {"queued", "running"} => \E u \in tasks' : u.of = k /\ u.child = c
  BY <1>2, <1>3, <1>4
<1>7. /\ \A u \in tasks : u # t => u \in tasks'
      /\ \A u \in tasks' : u.of # k => u \in tasks
  BY <1>2, <1>4
<1>9. \A j \in Managers : j # k => handed'[j] = handed[j]
  BY <1>2
<1> QED
  BY <1>3, <1>5, <1>6, <1>7, <1>8, <1>9, RunDelivers

\* A restored manager has the messages of the file, and no task; what lives on is as it was.
LEMMA RestoreDelivers ==
  ASSUME IInv, Delivery, NEW others \in SUBSET alive, Restore(others)
  PROVE  Delivery'
<1>15. restores + 1 \in Managers
  BY DEF Restore, IInv, CountsOK, Managers
<1>16. PICK n \in Managers : n = restores + 1
  BY <1>15
<1>17. PICK ds : ds = Restored(disk)
  OBVIOUS
<1>1. /\ restores' = n /\ alive' = others \cup {n} /\ n \notin others
      /\ tasks' = {t \in tasks : t.of \in others} /\ disk' = ds
      /\ UNCHANGED <<sent, handed, ops, faults>>
  BY <1>16, <1>17 DEF Restore, Loaded, IInv, CountsOK
<1>2. /\ children' = [k \in Managers |-> IF k = n THEN ds
                                         ELSE IF k \in others THEN children[k] ELSE NoChildren]
      /\ waiter' = [k \in Managers |-> IF k \in others THEN waiter[k] ELSE NoWaiters]
      /\ shared' = IF others = {} THEN shared ELSE shared \cup Queued(disk)
  BY <1>1, <1>17 DEF Restore, Loaded
<1>3. \A c \in Names : ds[c].queue = disk[c].queue /\ ds[c].state \notin {"queued", "running"}
  BY <1>17 DEF Restored, IInv, Sound, ChildRecord
<1>4. \A t \in tasks : t.of # n
  BY <1>16 DEF IInv, CountsOK
<1>5. Managers \subseteq Nat /\ restores \in Nat
  BY DEF Managers, IInv, CountsOK
<1>6. /\ children'[n] = ds /\ waiter'[n] = NoWaiters
      /\ \A k \in others : children'[k] = children[k] /\ waiter'[k] = waiter[k]
      /\ \A k \in Managers : k # n /\ k \notin others => children'[k] = NoChildren
  BY <1>1, <1>2 DEF IInv, CountsOK
<1>7. ParentAnswered'
  <2> SUFFICES ASSUME faults = 0, NEW k \in alive', NEW c \in Names
               PROVE  /\ Settled(k, c)' \/ \E t \in tasks' : t.of = k /\ t.child = c
                      /\ waiter'[k][c] = "asleep" => ~Settled(k, c)'
    BY <1>1 DEF ParentAnswered
  <2>1. CASE k = n
    <3>1. Settled(k, c)' /\ waiter'[k][c] = "none"
      BY <1>3, <1>6, <2>1 DEF Settled, NoWaiters
    <3> QED
      BY <3>1
  <2>2. CASE k \in others
    <3>1. /\ Settled(k, c) \/ \E t \in tasks : t.of = k /\ t.child = c
          /\ waiter[k][c] = "asleep" => ~Settled(k, c)
      BY <2>2 DEF Delivery, ParentAnswered
    <3>2. Settled(k, c)' <=> Settled(k, c)
      BY <1>6, <2>2 DEF Settled
    <3> QED
      BY <1>1, <1>6, <2>2, <3>1, <3>2
  <2> QED
    BY <1>1, <2>1, <2>2
<1>8. OnceOK /\ (\A k \in Managers : Singly(k)) /\ FileOnce(disk) /\ Unused
  BY DEF Delivery, OnceOK
<1>9. FileOnce(disk)'
  BY <1>1, <1>3, <1>8 DEF FileOnce
<1>10. Unused'
  BY <1>1, <1>5, <1>8, <1>16 DEF Unused
<1>11. \A m \in Messages : handed'[n][m] = 0
  BY <1>1, <1>5, <1>8, <1>16 DEF Unused
<1>12. ASSUME NEW k \in Managers
       PROVE  Singly(k)'
  <2>1. HandedOnce(k)'
    BY <1>1, <1>8 DEF Singly, HandedOnce
  <2>2. TasksOnce(k)'
    BY <1>1, <1>8 DEF Singly, TasksOnce
  <2>3. CASE k = n
    <3>1. \A c \in Names : \A m \in Elements(ds[c].queue) : m \in Messages
      BY <1>3, ElementOfSeq DEF Elements, IInv, Sound, ChildRecord
    <3>2. QueuesOnce(k)'
      <4>1. \A t \in tasks' : t.of # k
        BY <1>1, <1>4, <2>3
      <4>2. children'[k] = ds /\ disk' = ds /\ \A m \in Messages : handed'[k][m] = 0
        BY <1>1, <1>6, <1>11, <2>3
      <4> QED
        BY <1>9, <3>1, <4>1, <4>2 DEF QueuesOnce, FileOnce
    <3> QED
      BY <2>1, <2>2, <3>2 DEF Singly
  <2>4. CASE k # n /\ k \in others
    <3>1. children'[k] = children[k] /\ QueuesOnce(k)
      BY <1>6, <1>8, <2>4 DEF Singly
    <3>2. QueuesOnce(k)'
      BY <1>1, <3>1 DEF QueuesOnce
    <3> QED
      BY <2>1, <2>2, <3>2 DEF Singly
  <2>5. CASE k # n /\ k \notin others
    <3>1. \A c \in Names : children'[k][c].queue = << >>
      BY <1>6, <2>5 DEF NoChildren, Absent
    <3>2. QueuesOnce(k)'
      BY <3>1, QueueEmpty DEF QueuesOnce
    <3> QED
      BY <2>1, <2>2, <3>2 DEF Singly
  <2> QED
    BY <2>3, <2>4, <2>5
<1>13. ASSUME faults' = 0
       PROVE  Exclusive'
  <2>1. Exclusive
    BY <1>1, <1>8, <1>13 DEF OnceOK
  <2>2. PICK s \in alive : disk = children[s]
    BY <2>1 DEF Exclusive
  <2>3. s \in Managers
    BY SoundAt
  <2>4. \E k \in alive' : disk' = children'[k]
    BY <1>1, <1>6
  <2>5. ASSUME NEW k \in Managers, k # n, NEW m \in Messages, Has(k, m)'
        PROVE  Has(k, m)
    <3>1. CASE k \in others
      BY <1>1, <1>6, <2>5, <3>1 DEF Has
    <3>2. CASE k \notin others
      <4>1. \A c \in Names : Elements(children'[k][c].queue) = {}
        BY <1>6, <2>5, <3>2, QueueEmpty DEF NoChildren, Absent
      <4>2. handed[k][m] # 0
        BY <1>1, <2>5, <3>2, <4>1 DEF Has
      <4> QED
        BY <4>2 DEF Has
    <3> QED
      BY <3>1, <3>2
  <2>6. ASSUME NEW m \in Messages, Has(n, m)'
        PROVE  \E c \in Names : m \in Elements(children[s][c].queue)
    <3>1. PICK c \in Names : m \in Elements(children'[n][c].queue)
      BY <1>1, <1>4, <1>11, <2>6 DEF Has
    <3>2. children'[n][c].queue = children[s][c].queue
      BY <1>3, <1>6, <2>2
    <3> QED
      BY <3>1, <3>2
  <2>7. ASSUME NEW k \in Managers, k # n, NEW m \in Messages, m \notin shared',
               Has(k, m)', Has(n, m)'
        PROVE  FALSE
    <3>1. Has(k, m) /\ Has(s, m)
      BY <2>5, <2>6, <2>7 DEF Has
    <3>2. m \notin shared
      BY <1>2, <2>7
    <3>3. k = s
      BY <2>1, <2>3, <3>1, <3>2 DEF Exclusive
    <3>4. handed[s][m] = 0
      BY <1>8, <2>3, <2>6, <2>7 DEF Singly, QueuesOnce
    <3>5. k \in others
      <4> SUFFICES ASSUME k \notin others
                   PROVE  FALSE
        OBVIOUS
      <4>1. \A c \in Names : Elements(children'[k][c].queue) = {}
        BY <1>6, <2>7, QueueEmpty DEF NoChildren, Absent
      <4> QED
        BY <1>1, <2>7, <3>3, <3>4, <4>1 DEF Has
    <3>6. m \in Queued(disk)
      BY <2>2, <2>6, <2>7 DEF Queued, Elements
    <3> QED
      BY <1>2, <2>7, <3>5, <3>6
  <2>8. ASSUME NEW i \in Managers, NEW j \in Managers, NEW m \in Messages, m \notin shared',
               Has(i, m)', Has(j, m)'
        PROVE  i = j
    <3>1. CASE i = n \/ j = n
      BY <2>7, <2>8, <3>1
    <3>2. CASE i # n /\ j # n
      <4>1. m \notin shared
        BY <1>2, <2>8
      <4> QED
        BY <2>1, <2>5, <2>8, <3>2, <4>1 DEF Exclusive
    <3> QED
      BY <3>1, <3>2
  <2> QED
    BY <2>4, <2>8 DEF Exclusive
<1> QED
  BY <1>7, <1>9, <1>10, <1>12, <1>13 DEF Delivery, OnceOK

LEMMA InitDelivers == ASSUME Init PROVE Delivery
<1>1. alive = {0} /\ 0 \in Managers /\ tasks = {} /\ disk = NoChildren
      /\ \A k \in Managers : children[k] = NoChildren
  BY DEF Init, Managers
<1>2. \A c \in Names : NoChildren[c].queue = << >> /\ NoChildren[c].state = "absent"
  BY DEF NoChildren, Absent
<1>3. \A k \in Managers : /\ \A c \in Names : waiter[k][c] = "none"
                          /\ \A m \in Messages : handed[k][m] = 0
  BY DEF Init, NoWaiters
<1>4. ParentAnswered
  BY <1>1, <1>2, <1>3 DEF ParentAnswered, Settled
<1>5. ASSUME NEW k \in Managers
      PROVE  /\ \A c \in Names : children[k][c].queue = << >>
             /\ Singly(k) /\ \A m \in Messages : ~Has(k, m)
  <2>1. \A c \in Names : children[k][c].queue = << >>
    BY <1>1, <1>2
  <2>2. Singly(k)
    BY <1>1, <1>3, <2>1, QueueEmpty DEF Singly, QueuesOnce, TasksOnce, HandedOnce
  <2>3. \A m \in Messages : ~Has(k, m)
    BY <1>1, <1>3, <2>1, QueueEmpty DEF Has
  <2> QED
    BY <2>1, <2>2, <2>3
<1>6. FileOnce(disk) /\ Unused
  BY <1>1, <1>2, <1>3, QueueEmpty DEF FileOnce, Unused
<1>7. Exclusive
  BY <1>1, <1>5 DEF Exclusive
<1> QED
  BY <1>4, <1>5, <1>6, <1>7 DEF Delivery, OnceOK

LEMMA StepDelivers ==
  ASSUME IInv, Delivery, [Next]_vars
  PROVE  Delivery'
<1>1. CASE Next
  <2>1. ASSUME NEW by \in Callers, NEW c \in Names,
               \E p \in BOOLEAN, r \in 0 .. 2, m \in Messages \cup {Generic} :
                 Create(by, c, p, r, m)
        PROVE  Delivery'
    <3>1. PICK k \in alive : k = by.of
      BY CallerOK
    <3> QED
      BY <2>1, <3>1, CreateDelivers
  <2>2. ASSUME NEW by \in Callers, NEW c \in Names,
               \/ \E m \in Messages : Send(by, c, m)
               \/ \E r \in 0 .. 2 : Configure(by, c, r)
               \/ \E p \in Names \cup {Root, Detached} : Relate(by, c, p)
        PROVE  Delivery'
    <3>1. PICK k \in alive : k = by.of
      BY CallerOK
    <3> QED
      BY <2>2, <3>1, SendDelivers, ConfigureDelivers
  <2>3. ASSUME NEW by \in Callers, NEW c \in Names,
               Cancel(by, c) \/ Close(by, c) \/ Reopen(by, c) \/ Resume(by, c) \/ Wait(by, c)
        PROVE  Delivery'
    <3>1. PICK k \in alive : k = by.of
      BY CallerOK
    <3> QED
      BY <2>3, <3>1, CancelDelivers, CloseDelivers, ResumeDelivers, WaitDelivers
  <2>4. ASSUME NEW by \in Callers, Milestone(by)
        PROVE  Delivery'
    <3>1. PICK k \in alive : k = by.of
      BY CallerOK
    <3> QED
      BY <2>4, <3>1, MilestoneDelivers
  <2>5. ASSUME NEW k \in alive, NEW c \in Names, LookAgain(k, c) \/ WaitTimesOut(k, c)
        PROVE  Delivery'
    BY <2>5, WaitDelivers
  <2>6. ASSUME NEW t \in tasks,
               Emit(t) \/ Start(t) \/ Observe(t) \/ \E o \in {"ok", "failed"} : Settle(t, o)
        PROVE  Delivery'
    <3>1. PICK k \in alive : k = t.of
      BY TaskType
    <3> QED
      BY <2>6, <3>1, EmitDelivers, StartDelivers, ObserveDelivers, SettleDelivers
  <2>7. ASSUME NEW others \in SUBSET alive, Restore(others)
        PROVE  Delivery'
    BY <2>7, RestoreDelivers
  <2> QED
    BY <1>1, <2>1, <2>2, <2>3, <2>4, <2>5, <2>6, <2>7 DEF Next, TaskStep
<1>2. CASE UNCHANGED vars
  <2>1. UNCHANGED <<alive, children, tasks, disk, sent, handed, shared, faults, restores, waiter>>
    BY <1>2 DEF vars
  <2>2. ParentAnswered'
    BY <2>1 DEF Delivery, ParentAnswered, Settled
  <2> QED
    BY <2>1, <2>2, SameOnce DEF Delivery
<1> QED
  BY <1>1, <1>2

\* While no save fails, a child that is queued or running has a task of its manager that will
\* settle it, and no parent sleeps in inspect.wait next to a child that has settled: through
\* cancels, closes, reopens, resumes, second runs, deaths of the host, and restores beside
\* managers that live on (run_child, inspect.wait).
THEOREM ParentsAreAnswered == Spec => []ParentAnswered
<1>1. Init => IInv /\ Delivery
  BY InitInv, InitDelivers
<1>2. IInv /\ Delivery /\ [Next]_vars => (IInv /\ Delivery)'
  BY StepInv, StepDelivers
<1>3. Delivery => ParentAnswered
  BY DEF Delivery
<1> QED
  BY <1>1, <1>2, <1>3, PTL DEF Spec

\* Whatever fails, a manager gives no message to an executor twice: it is in one of its queues
\* once, or with one task that has not started, until it is handed over.  And while no save
\* fails no two managers give the same message, but for one that was queued in the file when
\* one of them was restored beside the other (send, resume, run_child, restore and the
\* close_session of fx-runtime, which leaves the runs of the closed session alone).
THEOREM HandedAtMostOnce == Spec => []AtMostOnce
<1>1. Init => IInv /\ Delivery
  BY InitInv, InitDelivers
<1>2. IInv /\ Delivery /\ [Next]_vars => (IInv /\ Delivery)'
  BY StepInv, StepDelivers
<1>3. Delivery => AtMostOnce
  <2>1. Delivery => \A k \in Managers, m \in Messages : handed[k][m] <= 1
    BY DEF Delivery, OnceOK, Singly, HandedOnce
  <2>2. Delivery /\ faults = 0 => \A j, k \in Managers, m \in Messages :
          m \notin shared /\ handed[j][m] # 0 /\ handed[k][m] # 0 => j = k
    BY DEF Delivery, OnceOK, Exclusive, Has
  <2> QED
    BY <2>1, <2>2 DEF AtMostOnce
<1> QED
  BY <1>1, <1>2, <1>3, PTL DEF Spec
-----------------------------------------------------------------------------
(* The walks along the parent links.                                       *)

Link(cs, a) == IF a \in Present(cs) THEN cs[a].parent ELSE a

IsWalk(f, cs, n, k) ==
  f = [i \in 0 .. k |-> IF i = 0 THEN n
                        ELSE IF f[i - 1] \in Present(cs) THEN cs[f[i - 1]].parent ELSE f[i - 1]]

LEMMA WalkExists ==
  ASSUME NEW cs, NEW n, NEW k \in Nat
  PROVE  \E f : IsWalk(f, cs, n, k)
<1> DEFINE T == {j \in Nat : \E f : IsWalk(f, cs, n, j)}
<1>1. 0 \in T
  <2> DEFINE f == [i \in 0 .. 0 |-> n]
  <2>1. IsWalk(f, cs, n, 0)
    BY DEF IsWalk
  <2> QED
    BY <2>1
<1>2. ASSUME NEW j \in T
      PROVE  j + 1 \in T
  <2>1. PICK f : IsWalk(f, cs, n, j)
    OBVIOUS
  <2>2. j \in Nat
    OBVIOUS
  <2> DEFINE next(a) == IF a \in Present(cs) THEN cs[a].parent ELSE a
             g == [i \in 0 .. (j + 1) |-> IF i <= j THEN f[i] ELSE next(f[i - 1])]
             G == [i \in 0 .. (j + 1) |-> IF i = 0 THEN n ELSE next(g[i - 1])]
  <2>3. \A i \in 0 .. j : f[i] = IF i = 0 THEN n ELSE next(f[i - 1])
    BY <2>1 DEF IsWalk
  <2>4. G = [i \in 0 .. (j + 1) |-> IF i = 0 THEN n
               ELSE IF g[i - 1] \in Present(cs) THEN cs[g[i - 1]].parent ELSE g[i - 1]]
    OBVIOUS
  <2> HIDE DEF next
  <2>5. ASSUME NEW i \in 0 .. (j + 1)
        PROVE  g[i] = G[i]
    <3>1. CASE i = 0
      BY <2>2, <2>3, <3>1
    <3>2. CASE i \in 1 .. j
      <4>1. i - 1 \in 0 .. (j + 1) /\ i \in 0 .. j /\ i <= j /\ i # 0 /\ i - 1 <= j
        BY <2>2, <3>2
      <4> QED
        BY <4>1, <2>3
    <3>3. CASE i = j + 1
      <4>1. i - 1 = j /\ ~(i <= j) /\ i # 0 /\ j <= j /\ j \in 0 .. (j + 1)
        BY <2>2, <3>3
      <4> QED
        BY <4>1
    <3> QED
      BY <2>2, <3>1, <3>2, <3>3
  <2>6. g = G
    BY <2>5
  <2>7. IsWalk(g, cs, n, j + 1)
    BY <2>4, <2>6 DEF IsWalk
  <2> QED
    BY <2>2, <2>7
<1>3. T = Nat
  <2> HIDE DEF T
  <2>1. T \in SUBSET Nat
    BY DEF T
  <2> QED
    BY <1>1, <1>2, <2>1, SetInduction
<1> QED
  BY <1>3

\* The loop goes up link by link.
LEMMA WalkFollows ==
  ASSUME NEW cs, NEW n, NEW k \in Nat
  PROVE  /\ Walk(cs, n, k)[0] = n
         /\ \A i \in Nat : i < k => Walk(cs, n, k)[i + 1] = Link(cs, Walk(cs, n, k)[i])
<1> DEFINE f == CHOOSE g : IsWalk(g, cs, n, k)
<1>1. IsWalk(f, cs, n, k)
  BY WalkExists
<1>2. Walk(cs, n, k) = f
  BY Zenon DEF Walk, IsWalk
<1> HIDE DEF f
<1>3. f[0] = n
  BY <1>1 DEF IsWalk
<1>4. ASSUME NEW i \in Nat, i < k
      PROVE  f[i + 1] = Link(cs, f[i])
  <2>1. i + 1 \in 0 .. k /\ i + 1 # 0 /\ (i + 1) - 1 = i
    BY <1>4
  <2>2. \A j \in 0 .. k : j # 0 => f[j] = Link(cs, f[j - 1])
    BY <1>1 DEF IsWalk, Link
  <2>3. f[i + 1] = Link(cs, f[(i + 1) - 1])
    BY <2>1, <2>2, Zenon
  <2> QED
    BY <2>1, <2>3
<1> QED
  BY <1>2, <1>3, <1>4

LEMMA PresentFinite == ASSUME NEW cs PROVE IsFiniteSet(Present(cs))
<1>1. Present(cs) \in SUBSET Names
  BY DEF Present
<1>2. IsFiniteSet(Names)
  BY ManagerAssumption
<1> QED
  BY <1>1, <1>2, FS_Subset, Zenon

\* A walk that has left the children stays where it is.
LEMMA WalkStays ==
  ASSUME NEW cs, NEW w, NEW k \in Nat, \A i \in Nat : i < k => w[i + 1] = Link(cs, w[i]),
         NEW j \in 0 .. k, w[j] \notin Present(cs)
  PROVE  w[k] \notin Present(cs)
<1> DEFINE T == {d \in Nat : j + d <= k => w[j + d] \notin Present(cs)}
<1>1. 0 \in T
  OBVIOUS
<1>2. ASSUME NEW d \in T
      PROVE  d + 1 \in T
  <2>1. CASE j + (d + 1) <= k
    <3>1. j + d \in Nat /\ j + d < k /\ (j + d) + 1 = j + (d + 1) /\ d \in Nat /\ d + 1 \in Nat
      BY <2>1
    <3>2. w[j + d] \notin Present(cs)
      BY <3>1
    <3>3. w[j + (d + 1)] = w[j + d]
      BY <3>1, <3>2 DEF Link
    <3> QED
      BY <3>1, <3>2, <3>3
  <2>2. CASE ~(j + (d + 1) <= k)
    BY <2>2
  <2> QED
    BY <2>1, <2>2
<1>3. T = Nat
  <2>1. T \in SUBSET Nat
    OBVIOUS
  <2> HIDE DEF T
  <2> QED
    BY <1>1, <1>2, <2>1, SetInduction
<1>4. k - j \in Nat /\ j + (k - j) = k /\ k <= k
  OBVIOUS
<1>5. k - j \in T
  BY <1>3, <1>4
<1>6. w[j + (k - j)] \notin Present(cs)
  BY <1>4, <1>5
<1> QED
  BY <1>4, <1>6

\* After as many links as there are children the walk is outside: else it met one of them
\* twice, and closed a circle.
LEMMA WalkEnds ==
  ASSUME NEW cs, NoCircle(cs), NEW w, NEW k \in Nat, k = Cardinality(Present(cs)),
         \A i \in Nat : i < k => w[i + 1] = Link(cs, w[i])
  PROVE  w[k] \notin Present(cs)
<1>1. SUFFICES ASSUME w[k] \in Present(cs)
               PROVE  FALSE
  OBVIOUS
<1>2. \A i \in 0 .. k : w[i] \in Present(cs)
  BY <1>1, WalkStays
<1>3. IsFiniteSet(Present(cs)) /\ Present(cs) \subseteq Names
  BY PresentFinite DEF Present
<1>4. IsFiniteSet(0 .. k) /\ Cardinality(0 .. k) = k + 1
  <2>1. k + 1 \in Nat /\ (k + 1) - 1 = k
    OBVIOUS
  <2> QED
    BY <2>1, FirstNaturals
<1> DEFINE f == [i \in 0 .. k |-> w[i]]
<1>5. f \in [0 .. k -> Present(cs)]
  BY <1>2
<1>6. PICK i \in 0 .. k, j \in 0 .. k : i # j /\ f[i] = f[j]
  <2>1. k < k + 1
    OBVIOUS
  <2> HIDE DEF f
  <2> QED
    BY <1>3, <1>4, <1>5, <2>1, FS_PigeonHole
<1>7. PICK a \in 0 .. k, b \in 0 .. k : a < b /\ w[a] = w[b]
  <2>1. w[i] = w[j] /\ (i < j \/ j < i)
    BY <1>6
  <2> QED
    BY <2>1
<1> DEFINE S == {w[d] : d \in a .. (b - 1)}
<1>8. S \in SUBSET Names /\ S # {}
  <2>1. a \in a .. (b - 1) /\ \A d \in a .. (b - 1) : d \in 0 .. k
    BY <1>7
  <2> QED
    BY <2>1, <1>2, <1>3
<1>9. ASSUME NEW d \in a .. (b - 1)
      PROVE  cs[w[d]].parent \in S
  <2>1. d \in Nat /\ d < k /\ d \in 0 .. k /\ (d + 1 = b \/ d + 1 \in a .. (b - 1))
    BY <1>7, <1>9
  <2>2. w[d + 1] = cs[w[d]].parent
    BY <1>2, <2>1 DEF Link
  <2>3. CASE d + 1 = b
    <3>1. a \in a .. (b - 1)
      BY <1>7
    <3> QED
      BY <1>7, <2>2, <2>3, <3>1
  <2>4. CASE d + 1 \in a .. (b - 1)
    BY <2>2, <2>4
  <2> QED
    BY <2>1, <2>3, <2>4
<1>10. \A s \in S : cs[s].parent \in S
  BY <1>9
<1> HIDE DEF S
<1> QED
  BY <1>8, <1>10 DEF NoCircle

\* A walk from a child goes from child to child until it leaves them.
LEMMA WalkAmong ==
  ASSUME NEW cs, Sound(cs), NEW w, NEW k \in Nat, w[0] \in Present(cs),
         \A i \in Nat : i < k => w[i + 1] = Link(cs, w[i])
  PROVE  \A i \in 0 .. k : w[i] \in Names => w[i] \in Present(cs)
<1> DEFINE T == {i \in Nat : i <= k => (w[i] \in Names => w[i] \in Present(cs))}
<1>1. 0 \in T
  OBVIOUS
<1>2. ASSUME NEW i \in T
      PROVE  i + 1 \in T
  <2>1. CASE i < k /\ w[i + 1] \in Names
    <3>1. i \in Nat /\ i <= k /\ w[i + 1] = Link(cs, w[i]) /\ i + 1 \in Nat
      BY <2>1
    <3>2. CASE w[i] \in Present(cs)
      <4>1. w[i] \in Names /\ w[i + 1] = cs[w[i]].parent
        BY <3>1, <3>2 DEF Link, Present
      <4>2. w[i + 1] \in Present(cs)
        BY <2>1, <4>1 DEF Sound, Anchored, Present
      <4> QED
        BY <3>1, <4>2
    <3>3. CASE w[i] \notin Present(cs)
      <4>1. w[i + 1] = w[i]
        BY <3>1, <3>3 DEF Link
      <4>2. w[i + 1] \in Present(cs)
        BY <2>1, <3>1, <4>1
      <4> QED
        BY <3>1, <4>2
    <3> QED
      BY <3>2, <3>3
  <2>2. CASE ~(i < k /\ w[i + 1] \in Names)
    <3>1. i \in Nat /\ i + 1 \in Nat /\ (i + 1 <= k => i < k)
      OBVIOUS
    <3> QED
      BY <2>2, <3>1
  <2> QED
    BY <2>1, <2>2
<1>3. T = Nat
  <2>1. T \in SUBSET Nat
    OBVIOUS
  <2> HIDE DEF T
  <2> QED
    BY <1>1, <1>2, <2>1, SetInduction
<1> QED
  BY <1>3

LEMMA WalkMeets ==
  ASSUME NEW cs, Sound(cs), NEW c \in Present(cs), NEW k \in Nat, k = Cardinality(Present(cs))
  PROVE  /\ Walk(cs, c, k)[k] \notin Present(cs)
         /\ \A a \in Lineage(cs, c) : \E i \in 0 .. k : Walk(cs, c, k)[i] = a
<1> DEFINE w == Walk(cs, c, k)
<1>1. w[0] = c /\ \A i \in Nat : i < k => w[i + 1] = Link(cs, w[i])
  BY WalkFollows
<1> HIDE DEF w
<1>2. w[k] \notin Present(cs)
  BY <1>1, WalkEnds DEF Sound
<1>3. \A i \in 0 .. k : w[i] \in Names => w[i] \in Present(cs)
  BY <1>1, WalkAmong
<1> DEFINE S == {w[i] : i \in 0 .. k} \cap Names
<1>4. c \in S /\ S \in SUBSET Names
  <2>1. 0 \in 0 .. k
    OBVIOUS
  <2> QED
    BY <1>1, <2>1 DEF Present
<1>5. ASSUME NEW i \in 0 .. k, w[i] \in Names
      PROVE  cs[w[i]].parent \in S \cup {Root, Detached}
  <2>1. w[i] \in Present(cs) /\ cs[w[i]].parent \in Names \cup {Root, Detached}
    BY <1>3, <1>5 DEF Sound, ChildRecord
  <2>2. i # k
    BY <1>2, <2>1
  <2>3. i \in Nat /\ i < k /\ i + 1 \in 0 .. k
    BY <2>2
  <2>4. w[i + 1] = cs[w[i]].parent
    BY <1>1, <2>1, <2>3 DEF Link
  <2> QED
    BY <2>1, <2>3, <2>4
<1>6. \A s \in S : cs[s].parent \in S \cup {Root, Detached}
  BY <1>5
<1>7. \A a \in Lineage(cs, c) : a \in S
  <2> HIDE DEF S
  <2> QED
    BY <1>4, <1>6, Zenon DEF Lineage
<1> QED
  BY <1>2, <1>7 DEF w

\* The loops of is_authorized and relationship_would_cycle, cut off after children.len()
\* links, have by then left the children and met every ancestor, however the children were
\* created, moved and restored.
THEOREM WalksSuffice == Spec => []WalkSuffices
<1>1. Init => IInv
  BY InitInv
<1>2. IInv /\ [Next]_vars => IInv'
  BY StepInv
<1>3. IInv => WalkSuffices
  <2> SUFFICES ASSUME IInv, NEW k \in alive, NEW c \in Present(children[k])
               PROVE  LET cs == children[k]
                          len == Cardinality(Present(cs))
                      IN  /\ Walk(cs, c, len)[len] \notin Present(cs)
                          /\ \A a \in Lineage(cs, c) : \E i \in 0 .. len : Walk(cs, c, len)[i] = a
    BY DEF WalkSuffices
  <2>1. IsFiniteSet(Present(children[k])) /\ Sound(children[k])
    BY PresentFinite, SoundAt
  <2>2. Cardinality(Present(children[k])) \in Nat
    BY <2>1, FS_CardinalityType
  <2> QED
    BY <2>1, <2>2, WalkMeets
<1> QED
  BY <1>1, <1>2, <1>3, PTL DEF Spec
=============================================================================
