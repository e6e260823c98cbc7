------------------------------ MODULE Memories ------------------------------
(***************************************************************************)
(* The memory tool (fx-store/src/memory.rs): one file of facts in the      *)
(* profile, read and replaced under the lock of memory.lock by the agents  *)
(* of every fx process of the user.                                        *)
(***************************************************************************)
EXTENDS Naturals, Sequences, SequencesExt

CONSTANTS
  Users,           \* the agents that call the tool, of any process
  Facts,
  MaxFacts,
  MaxMemoryCalls   \* bound: calls

\* What stands for nobody is no agent.
ASSUME MemoryAssumption == MaxFacts \in Nat /\ "free" \notin Users

VARIABLES
  memories,        \* the file; an absent file holds no fact
  memoryLock,      \* the holder of memory.lock, or "free"
  memoryCall,
  remembered,      \* history: facts a save has reported, since the last clear
  memoryCalls

memoryVars == <<memories, memoryLock, memoryCall, remembered, memoryCalls>>

Ready == [at |-> "idle", action |-> "none", fact |-> "none", facts |-> <<>>]

MemoryInit ==
  /\ memories = <<>> /\ memoryLock = "free" /\ memoryCall = [u \in Users |-> Ready]
  /\ remembered = {} /\ memoryCalls = 0

\* execute, up to lock_memory.
CallMemory(u, action, fact) ==
  /\ memoryCall[u].at = "idle" /\ memoryCalls < MaxMemoryCalls
  /\ memoryCalls' = memoryCalls + 1
  /\ memoryCall' = [memoryCall EXCEPT ![u] =
                     [at |-> "waiting", action |-> action, fact |-> fact, facts |-> <<>>]]
  /\ UNCHANGED <<memories, memoryLock, remembered>>

\* The call is over; what it held is released.
Leave(u) ==
  /\ memoryCall' = [memoryCall EXCEPT ![u] = Ready]
  /\ memoryLock' = IF memoryLock = u THEN "free" ELSE memoryLock

LockMemory(u) ==
  /\ memoryCall[u].at = "waiting" /\ memoryLock = "free" /\ memoryLock' = u
  /\ memoryCall' = [memoryCall EXCEPT ![u].at = "locked"]
  /\ UNCHANGED <<memories, remembered, memoryCalls>>

\* Mutant: after the deadline the call goes on without the lock.
LockTimeoutIgnored(u) ==
  /\ memoryCall[u].at = "waiting" /\ memoryLock # "free"
  /\ memoryCall' = [memoryCall EXCEPT ![u].at = "locked"]
  /\ UNCHANGED <<memories, memoryLock, remembered, memoryCalls>>

\* LOCK_TIMEOUT passes.
LockMemoryTimeout(u) ==
  /\ memoryCall[u].at = "waiting" /\ memoryLock # "free" /\ Leave(u)
  /\ UNCHANGED <<memories, remembered, memoryCalls>>

\* load_memories, for a list or a save; a list is answered with it.
LoadMemories(u) ==
  /\ memoryCall[u].at = "locked" /\ memoryCall[u].action \in {"list", "save"}
  /\ IF memoryCall[u].action = "list" THEN Leave(u)
     ELSE /\ memoryCall' = [memoryCall EXCEPT ![u].at = "loaded", ![u].facts = memories]
          /\ UNCHANGED memoryLock
  /\ UNCHANGED <<memories, remembered, memoryCalls>>

\* The fact is there already, or it is appended and the file replaced, or there is no room.
SaveMemory(u) ==
  LET fact == memoryCall[u].fact
      known == memoryCall[u].facts
  IN  /\ memoryCall[u].at = "loaded" /\ Leave(u)
      /\ IF ~Contains(known, fact) /\ Len(known) >= MaxFacts
         THEN UNCHANGED <<memories, remembered>>
         ELSE /\ memories' = IF Contains(known, fact) THEN memories ELSE Append(known, fact)
              /\ remembered' = remembered \cup {fact}
      /\ UNCHANGED memoryCalls

ClearMemories(u) ==
  /\ memoryCall[u].at = "locked" /\ memoryCall[u].action = "clear" /\ Leave(u)
  /\ memories' = <<>> /\ remembered' = {}
  /\ UNCHANGED memoryCalls

\* An error of the file system, a cancelled call or a crash: the file is as it was.
MemoryFails(u) ==
  /\ memoryCall[u].at \in {"locked", "loaded"} /\ Leave(u)
  /\ UNCHANGED <<memories, remembered, memoryCalls>>

MemoryNext ==
  \E u \in Users :
    \/ \E fact \in Facts : CallMemory(u, "save", fact)
    \/ \E action \in {"list", "clear"} : CallMemory(u, action, "none")
    \/ LockMemory(u) \/ LockMemoryTimeout(u) \/ LoadMemories(u) \/ SaveMemory(u)
    \/ ClearMemories(u) \/ MemoryFails(u)

-----------------------------------------------------------------------------
MemoryTypeOK ==
  /\ memories \in Seq(Facts) /\ remembered \in SUBSET Facts
  /\ memoryLock \in Users \cup {"free"}
  /\ \A u \in Users : /\ memoryCall[u].at \in {"idle", "waiting", "locked", "loaded"}
                      /\ (memoryLock = u) = (memoryCall[u].at \in {"locked", "loaded"})

\* A fact reported as remembered is in the file until the facts are cleared, whoever else
\* saves at the same time; and the file keeps to its limit and names no fact twice.
MemoryKept ==
  /\ remembered \subseteq ToSet(memories)
  /\ Len(memories) <= MaxFacts /\ IsInjective(memories)
=============================================================================
