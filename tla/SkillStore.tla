----------------------------- MODULE SkillStore -----------------------------
(***************************************************************************)
(* Skills (fx-tools/src/skills): install_skill, by which the sessions of   *)
(* several processes put the trees of skills into the managed directory of *)
(* the profile, and the catalog of each session, from which skill loads.   *)
(*                                                                         *)
(* A tree is the number of the install that made it and whether it is      *)
(* whole.  The other skill directories are the user's own and are not      *)
(* modelled; a skill is taken for the one of its name.                     *)
(***************************************************************************)
EXTENDS Naturals, Sequences

CONSTANTS
  Installers,      \* sessions, each of a process of its own
  Skills,
  Sources,         \* sequences of the skills a source offers, after the filter
  MaxInstalls,     \* bound: calls of install_skill
  MaxSkillFaults   \* bound: crashes and renames that fail

NoTree == [install |-> 0, whole |-> FALSE]
Resting == [at |-> "idle", todo |-> <<>>, install |-> 0, staged |-> NoTree, backup |-> NoTree]

\* A source has a sequence of skills; what stands for nobody is no session.
ASSUME SkillsAssumption == Sources \subseteq Seq(Skills) /\ "free" \notin Installers

VARIABLES
  managed,         \* the managed directory
  work,            \* the install of each session, with its transaction directory
  skillLock,       \* the holder of each skill's lock, or "free"
  left,            \* backups in transaction directories that nobody removes any more
  catalog,         \* the managed skills in the catalog of each session
  loaded,          \* the tree the last chunk of a skill was read from
  had,             \* history: the skills that were in place once
  installs, skillFaults

skillVars == <<managed, work, skillLock, left, catalog, loaded, had, installs, skillFaults>>

InPlace == {skill \in Skills : managed[skill] # NoTree}

SkillsInit ==
  /\ managed \in [Skills -> {NoTree, [install |-> 0, whole |-> TRUE]}]
  /\ work = [i \in Installers |-> Resting] /\ skillLock = [skill \in Skills |-> "free"]
  /\ left = {} /\ catalog = [i \in Installers |-> InPlace]
  /\ loaded = [i \in Installers |-> NoTree] /\ had = InPlace
  /\ installs = 0 /\ skillFaults = 0

Current(i) == Head(work[i].todo)
SkillFault == skillFaults < MaxSkillFaults /\ skillFaults' = skillFaults + 1
Unlocked(i) == [skill \in Skills |-> IF skillLock[skill] = i THEN "free" ELSE skillLock[skill]]

InstallSkill(i, source) ==
  /\ work[i].at = "idle" /\ installs < MaxInstalls /\ installs' = installs + 1
  /\ work' = [work EXCEPT ![i] = [Resting EXCEPT !.at = "fetching", !.todo = source,
                                                 !.install = installs + 1]]
  /\ UNCHANGED <<managed, skillLock, left, catalog, loaded, had, skillFaults>>

\* The call ends in an error: its transaction is removed and its lock released.  The skills
\* it has put in place stay there, and its catalog is not refreshed.
Abandon(i) == work' = [work EXCEPT ![i] = Resting] /\ skillLock' = Unlocked(i)

\* The repository is cloned, or the local source looked through.
Fetch(i) ==
  /\ work[i].at = "fetching" /\ work' = [work EXCEPT ![i].at = "ready"]
  /\ UNCHANGED <<managed, skillLock, left, catalog, loaded, had, installs, skillFaults>>

\* The clone fails, takes too long or is cancelled; the tree exceeds a limit or cannot be
\* read; the lock is not had in time.
InstallFails(i) ==
  /\ work[i].at \in {"fetching", "copying", "staged"} /\ Abandon(i)
  /\ UNCHANGED <<managed, left, catalog, loaded, had, installs, skillFaults>>

\* copy_skill_tree, into the transaction directory.
CopyBegins(i) ==
  /\ work[i].at = "ready" /\ work[i].todo # <<>>
  /\ work' = [work EXCEPT ![i].at = "copying",
                          ![i].staged = [install |-> work[i].install, whole |-> FALSE]]
  /\ UNCHANGED <<managed, skillLock, left, catalog, loaded, had, installs, skillFaults>>

CopyEnds(i) ==
  /\ work[i].at = "copying"
  /\ work' = [work EXCEPT ![i].at = "staged", ![i].staged.whole = TRUE]
  /\ UNCHANGED <<managed, skillLock, left, catalog, loaded, had, installs, skillFaults>>

LockSkill(i) ==
  /\ work[i].at = "staged" /\ skillLock[Current(i)] = "free"
  /\ skillLock' = [skillLock EXCEPT ![Current(i)] = i]
  /\ work' = [work EXCEPT ![i].at = "locked"]
  /\ UNCHANGED <<managed, left, catalog, loaded, had, installs, skillFaults>>

\* What is in place is renamed to the backup.
MoveAside(i) ==
  /\ work[i].at = "locked"
  /\ work' = [work EXCEPT ![i].at = "aside", ![i].backup = managed[Current(i)]]
  /\ managed' = [managed EXCEPT ![Current(i)] = NoTree]
  /\ UNCHANGED <<skillLock, left, catalog, loaded, had, installs, skillFaults>>

MoveAsideFails(i) ==
  /\ work[i].at = "locked" /\ SkillFault /\ Abandon(i)
  /\ UNCHANGED <<managed, left, catalog, loaded, had, installs>>

\* The staged tree is renamed into place; then the lock is released and the transaction
\* directory removed, the backup with it.
PutInPlace(i) ==
  /\ work[i].at = "aside"
  /\ managed' = [managed EXCEPT ![Current(i)] = work[i].staged]
  /\ had' = had \cup {Current(i)}
  /\ work' = [work EXCEPT ![i].at = "ready", ![i].todo = Tail(@), ![i].staged = NoTree,
                          ![i].backup = NoTree]
  /\ skillLock' = Unlocked(i)
  /\ UNCHANGED <<left, catalog, loaded, installs, skillFaults>>

\* That rename fails, and the backup is renamed back.
RollBack(i) ==
  /\ work[i].at = "aside" /\ SkillFault /\ Abandon(i)
  /\ managed' = [managed EXCEPT ![Current(i)] = work[i].backup]
  /\ UNCHANGED <<left, catalog, loaded, had, installs>>

Backup(i) ==
  IF work[i].backup = NoTree THEN {} ELSE {[skill |-> Current(i), tree |-> work[i].backup]}

\* Mutant: the transaction directory is removed all the same.
RollBackFailsRemoved(i) ==
  /\ work[i].at = "aside" /\ work[i].backup # NoTree
  /\ skillFaults + 1 < MaxSkillFaults /\ skillFaults' = skillFaults + 2
  /\ Abandon(i)
  /\ UNCHANGED <<managed, left, catalog, loaded, had, installs>>

\* Both renames fail: the transaction directory is preserved.
RollBackFails(i) ==
  /\ work[i].at = "aside" /\ work[i].backup # NoTree
  /\ skillFaults + 1 < MaxSkillFaults /\ skillFaults' = skillFaults + 2
  /\ Abandon(i)
  /\ left' = left \cup Backup(i)
  /\ UNCHANGED <<managed, catalog, loaded, had, installs>>

\* SkillCatalog::discover, after the last candidate, and the answer.
Refresh(i) ==
  /\ work[i].at = "ready" /\ work[i].todo = <<>>
  /\ catalog' = [catalog EXCEPT ![i] = InPlace]
  /\ work' = [work EXCEPT ![i] = Resting]
  /\ UNCHANGED <<managed, skillLock, left, loaded, had, installs, skillFaults>>

\* The transaction directory stays; another session is made, which looks for skills.
InstallerCrash(i) ==
  /\ work[i].at # "idle" /\ SkillFault /\ Abandon(i)
  /\ left' = left \cup Backup(i)
  /\ catalog' = [catalog EXCEPT ![i] = InPlace]
  /\ UNCHANGED <<managed, loaded, had, installs>>

\* SkillCatalog::load: a skill of the catalog that is still there under its name.
LoadSkill(i, skill) ==
  /\ work[i].at = "idle" /\ skill \in catalog[i] /\ managed[skill] # NoTree
  /\ loaded' = [loaded EXCEPT ![i] = managed[skill]]
  /\ UNCHANGED <<managed, work, skillLock, left, catalog, had, installs, skillFaults>>

SkillsNext ==
  \E i \in Installers :
    \/ \E source \in Sources : InstallSkill(i, source)
    \/ Fetch(i) \/ InstallFails(i) \/ CopyBegins(i) \/ CopyEnds(i) \/ LockSkill(i)
    \/ MoveAside(i) \/ MoveAsideFails(i) \/ PutInPlace(i) \/ RollBack(i) \/ RollBackFails(i)
    \/ Refresh(i) \/ InstallerCrash(i)
    \/ \E skill \in Skills : LoadSkill(i, skill)

-----------------------------------------------------------------------------
SkillsTypeOK ==
  /\ \A skill \in Skills, i \in Installers :
       (skillLock[skill] = i) = (work[i].at \in {"locked", "aside"} /\ Current(i) = skill)
  /\ \A i \in Installers :
       /\ work[i].at \in {"idle", "fetching", "ready", "copying", "staged", "locked", "aside"}
       /\ catalog[i] \subseteq Skills
  /\ had \subseteq Skills

\* Whatever fails in an install, a skill that was in place once is in place or its tree
\* is in a transaction directory, one that is at work or one that is kept; and what is in
\* place, or was loaded from there, is a whole tree.
SkillsKept ==
  /\ \A skill \in had :
       \/ managed[skill] # NoTree
       \/ \E i \in Installers : [skill |-> skill, tree |-> work[i].backup] \in Backup(i)
       \/ \E l \in left : l.skill = skill
  /\ \A skill \in InPlace : managed[skill].whole
  /\ \A i \in Installers : loaded[i] # NoTree => loaded[i].whole
=============================================================================
