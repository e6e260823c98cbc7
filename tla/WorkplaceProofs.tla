--------------------------- MODULE WorkplaceProofs ---------------------------
(***************************************************************************)
(* Proofs about the parts that work beside the runtime, each for any       *)
(* values of its constants.  FileTools: an edit replaces what its preview  *)
(* showed.  NativeTerminal, TmuxTerminal, HostLifecycle: no terminal is    *)
(* left running out of reach, and no host retires from under a session.    *)
(* Memories, SkillStore: what is kept beside the sessions is not lost.     *)
(***************************************************************************)
EXTENDS MCWorkplace, NaturalLemmas, SequenceTheorems, FiniteSetTheorems, TLAPS

-----------------------------------------------------------------------------
(* FileTools: the inductive invariant.                                     *)

FilePhases == {"idle", "begun", "staged", "checked", "committed", "ended"}
ToolNames == {"none", "write", "edit", "read", "copy", "delete", "rename"}
ToolAnswers == {"none", "denied", "unchanged", "rejected", "failed", "done"}
FileContents == Contents \cup {"a", "edited", "absent"}
FileCopies == [content : FileContents, stamp : Nat]

FileCall ==
  [at : FilePhases, tool : ToolNames, target : Targets \cup {"none"}, pre : FileCopies,
   after : FileContents \cup {"none"}, said : ToolAnswers]

FilesTypes ==
  /\ disk \in [Targets -> FileCopies] /\ link \in Targets /\ stamps \in Nat
  /\ call \in [Agents -> FileCall] /\ raced \in [Agents -> BOOLEAN]

\* A call that has begun is about a file.
TargetsOK == \A a \in Agents : call[a].at # "idle" => call[a].target \in Targets

\* Whoever changes a file after a call's last look at it has been recorded.
LooksOK ==
  \A a \in Agents :
    call[a].at = "checked" => disk[call[a].target] = call[a].pre \/ raced[a]

\* What is going to be put in place of a file is a content.
Puts(r) == r.at = "staged" \/ r.tool \in {"write", "edit"}
AfterOK == \A a \in Agents : Puts(call[a]) => call[a].after \in FileContents

FilesInv == FilesTypes /\ TargetsOK /\ AfterOK /\ LooksOK

-----------------------------------------------------------------------------
(* What a step does to the calls, to the files and to the record of races. *)

\* The call of a goes on to the phase at, with what it is about.
Proceeds(a, at) ==
  /\ call' \in [Agents -> FileCall] /\ call'[a].at = at
  /\ call'[a].target = call[a].target /\ call'[a].pre = call[a].pre
  /\ call'[a].tool = call[a].tool /\ call'[a].after = call[a].after
  /\ \A b \in Agents : b # a => call'[b] = call[b]

\* No file that a checked call is about changes unrecorded.
Recorded ==
  /\ disk' \in [Targets -> FileCopies] /\ raced' \in [Agents -> BOOLEAN]
  /\ \A b \in Agents : raced[b] => raced'[b]
  /\ \A b \in Agents : call[b].at = "checked" =>
       raced'[b] \/ disk'[call[b].target] = disk[call[b].target]

LEMMA SaysProceeds ==
  ASSUME FilesInv, NEW a \in Agents, NEW said \in ToolAnswers, Says(a, said)
  PROVE Proceeds(a, "ended")
<1> DEFINE r == [call[a] EXCEPT !.at = "ended", !.said = said]
<1>1. call[a] \in FileCall BY DEF FilesInv, FilesTypes
<1>2. /\ r \in FileCall /\ r.at = "ended" /\ r.target = call[a].target /\ r.pre = call[a].pre
      /\ r.tool = call[a].tool /\ r.after = call[a].after
  BY <1>1 DEF FileCall, FilePhases
<1>3. call' = [call EXCEPT ![a] = r] BY DEF Says, FilesInv, FilesTypes
<1> HIDE DEF r
<1> QED BY <1>2, <1>3 DEF Proceeds, FilesInv, FilesTypes

LEMMA AtProceeds ==
  ASSUME FilesInv, NEW a \in Agents, NEW at \in FilePhases, At(a, at)
  PROVE Proceeds(a, at)
<1> DEFINE r == [call[a] EXCEPT !.at = at]
<1>1. call[a] \in FileCall BY DEF FilesInv, FilesTypes
<1>2. /\ r \in FileCall /\ r.at = at /\ r.target = call[a].target /\ r.pre = call[a].pre
      /\ r.tool = call[a].tool /\ r.after = call[a].after
  BY <1>1 DEF FileCall
<1>3. call' = [call EXCEPT ![a] = r] BY DEF At, FilesInv, FilesTypes
<1> HIDE DEF r
<1> QED BY <1>2, <1>3 DEF Proceeds, FilesInv, FilesTypes

LEMMA PutIsRecorded ==
  ASSUME FilesInv, NEW t \in Targets, NEW content \in FileContents, Put(t, content)
  PROVE Recorded /\ stamps' \in Nat
<1> DEFINE f == IF content = "absent" THEN Absent ELSE [content |-> content, stamp |-> stamps]
<1>1. f \in FileCopies BY DEF FilesInv, FilesTypes, FileCopies, FileContents, Absent
<1>2. disk' = [disk EXCEPT ![t] = f] BY DEF Put
<1> HIDE DEF f
<1>3. disk' \in [Targets -> FileCopies] /\ \A u \in Targets : u # t => disk'[u] = disk[u]
  BY <1>1, <1>2 DEF FilesInv, FilesTypes
<1>4. raced' = [b \in Agents |-> raced[b] \/ (call[b].at = "checked" /\ call[b].target = t)]
  BY DEF Put
<1>5. \A b \in Agents : call[b].at = "checked" => call[b].target \in Targets
  BY DEF FilesInv, TargetsOK
<1>6. raced' \in [Agents -> BOOLEAN] BY <1>4, Zenon DEF FilesInv, FilesTypes
<1>7. \A b \in Agents : raced'[b] <=> raced[b] \/ (call[b].at = "checked" /\ call[b].target = t)
  BY <1>4, Zenon
<1>8. stamps' \in Nat BY DEF Put, FilesInv, FilesTypes
<1> QED BY <1>3, <1>5, <1>6, <1>7, <1>8 DEF Recorded

LEMMA StillIsRecorded ==
  ASSUME FilesInv, UNCHANGED <<disk, raced>>
  PROVE Recorded
BY DEF FilesInv, FilesTypes, Recorded

\* A step that moves one call, but not to its last look, keeps the invariant.
LEMMA ProceedKeeps ==
  ASSUME FilesInv, NEW a \in Agents, NEW at, at \notin {"checked", "idle"}, Proceeds(a, at),
         call[a].at # "idle", at = "staged" => Puts(call[a]),
         Recorded, link' \in Targets, stamps' \in Nat
  PROVE FilesInv'
<1>1. FilesTypes' BY DEF Proceeds, Recorded, FilesTypes
<1>2. TargetsOK' BY DEF Proceeds, TargetsOK, FilesInv
<1>3. ASSUME NEW b \in Agents, call'[b].at = "checked"
      PROVE disk'[call'[b].target] = call'[b].pre \/ raced'[b]
  <2>1. b # a /\ call'[b] = call[b] BY <1>3 DEF Proceeds
  <2>2. disk[call[b].target] = call[b].pre \/ raced[b] BY <1>3, <2>1 DEF FilesInv, LooksOK
  <2> QED BY <1>3, <2>1, <2>2 DEF Recorded
<1>4. AfterOK' BY DEF Proceeds, AfterOK, FilesInv, Puts
<1> QED BY <1>1, <1>2, <1>3, <1>4 DEF FilesInv, LooksOK

\* So does one that moves none.
LEMMA OthersKeep ==
  ASSUME FilesInv, UNCHANGED call, Recorded, link' \in Targets, stamps' \in Nat
  PROVE FilesInv'
<1>1. FilesTypes' BY DEF Recorded, FilesTypes, FilesInv
<1>2. TargetsOK' BY DEF TargetsOK, FilesInv
<1>3. LooksOK' BY DEF FilesInv, LooksOK, Recorded
<1>4. AfterOK' BY DEF FilesInv, AfterOK
<1> QED BY <1>1, <1>2, <1>3, <1>4 DEF FilesInv

-----------------------------------------------------------------------------
(* The steps.                                                              *)

LEMMA FilesBegin == FilesInit => FilesInv
<1> SUFFICES ASSUME FilesInit PROVE FilesInv OBVIOUS
<1>1. Absent \in FileCopies /\ [content |-> "a", stamp |-> 0] \in FileCopies
  BY DEF Absent, FileCopies, FileContents
<1>2. disk \in [Targets -> FileCopies] BY <1>1 DEF FilesInit
<1>3. Idle \in FileCall /\ Idle.at = "idle" /\ ~Puts(Idle)
  BY <1>1 DEF Idle, FileCall, FilePhases, ToolNames, ToolAnswers, Puts
<1>4. call = [b \in Agents |-> Idle] BY DEF FilesInit
<1>5. /\ call \in [Agents -> FileCall]
      /\ \A b \in Agents : call[b].at = "idle" /\ ~Puts(call[b])
  BY <1>3, <1>4
<1> QED BY <1>2, <1>5 DEF FilesInit, FilesInv, FilesTypes, TargetsOK, AfterOK, LooksOK

LEMMA BeginOK ==
  ASSUME FilesInv, NEW a \in Agents, NEW tool \in ToolNames, NEW after \in FileContents \cup {"none"},
         tool \in {"write", "edit"} => after \in FileContents, Begin(a, tool, after)
  PROVE FilesInv'
<1> DEFINE r == [at |-> "begun", tool |-> tool, target |-> link, pre |-> disk[link],
                 after |-> after, said |-> "none"]
<1>1. r \in FileCall /\ r.at = "begun" /\ r.target \in Targets /\ (Puts(r) => r.after \in FileContents)
  BY DEF FilesInv, FilesTypes, FileCall, FilePhases, ToolAnswers, Puts
<1>2. call' = [call EXCEPT ![a] = r] BY DEF Begin
<1> HIDE DEF r
<1>3. /\ call' \in [Agents -> FileCall] /\ call'[a] = r
      /\ \A b \in Agents : b # a => call'[b] = call[b]
  BY <1>1, <1>2 DEF FilesInv, FilesTypes
<1>4. raced' \in [Agents -> BOOLEAN] /\ \A b \in Agents : b # a => raced'[b] = raced[b]
  BY DEF Begin, FilesInv, FilesTypes
<1>5. UNCHANGED <<disk, link, stamps>> BY DEF Begin
<1>6. FilesTypes' BY <1>3, <1>4, <1>5 DEF FilesInv, FilesTypes
<1>7. TargetsOK' BY <1>1, <1>3 DEF FilesInv, TargetsOK
<1>8. LooksOK' BY <1>1, <1>3, <1>4, <1>5 DEF FilesInv, LooksOK
<1>9. AfterOK' BY <1>1, <1>3 DEF FilesInv, AfterOK
<1> QED BY <1>6, <1>7, <1>8, <1>9 DEF FilesInv

\* A look at the file: only a file that is what the preview showed is checked.
LEMMA CheckOK ==
  ASSUME FilesInv, NEW a \in Agents, NEW from \in FilePhases \ {"idle"}, NEW to \in {"staged", "checked"},
         call[a].tool \in {"write", "edit"}, Check(a, from, to)
  PROVE FilesInv'
<1>1. /\ UNCHANGED <<disk, link, raced, stamps>> /\ call[a].at = from
      /\ link' \in Targets /\ stamps' \in Nat
  BY DEF Check, FilesInv, FilesTypes
<1>2. Recorded BY <1>1, StillIsRecorded
<1>3. CASE ~Fresh(a)
  <2>1. Says(a, "rejected") BY <1>3 DEF Check
  <2>2. Proceeds(a, "ended") BY <2>1, SaysProceeds DEF ToolAnswers
  <2> QED BY <1>1, <1>2, <2>2, ProceedKeeps
<1>4. CASE Fresh(a)
  <2>1. At(a, to) BY <1>4 DEF Check
  <2>2. Proceeds(a, to) BY <2>1, AtProceeds DEF FilePhases
  <2>3. FilesTypes' BY <1>1, <2>2 DEF FilesInv, FilesTypes, Proceeds
  <2>4. TargetsOK' BY <1>1, <2>2 DEF FilesInv, TargetsOK, Proceeds
  <2>5. ASSUME NEW b \in Agents, call'[b].at = "checked"
        PROVE disk'[call'[b].target] = call'[b].pre \/ raced'[b]
    <3>1. CASE b = a BY <1>1, <1>4, <2>2, <3>1 DEF Proceeds, Fresh
    <3>2. CASE b # a BY <1>1, <2>2, <2>5, <3>2 DEF Proceeds, FilesInv, LooksOK
    <3> QED BY <3>1, <3>2
  <2>6. AfterOK' BY <2>2 DEF FilesInv, AfterOK, Proceeds, Puts
  <2> QED BY <2>3, <2>4, <2>5, <2>6 DEF FilesInv, LooksOK
<1> QED BY <1>3, <1>4

\* An answer that changes no file.
LEMMA SaysOK ==
  ASSUME FilesInv, NEW a \in Agents, NEW said \in ToolAnswers, Says(a, said), call[a].at # "idle",
         UNCHANGED <<disk, link, raced, stamps>>
  PROVE FilesInv'
<1>1. Proceeds(a, "ended") BY SaysProceeds
<1>2. link' \in Targets /\ stamps' \in Nat BY DEF FilesInv, FilesTypes
<1> QED BY <1>1, <1>2, StillIsRecorded, ProceedKeeps

LEMMA CommitOK ==
  ASSUME FilesInv, NEW a \in Agents, Commit(a)
  PROVE FilesInv'
<1>1. call[a].at = "checked" /\ call[a].target \in Targets /\ call[a].after \in FileContents
  BY DEF Commit, FilesInv, TargetsOK, AfterOK, Puts
<1>2. Recorded /\ stamps' \in Nat BY <1>1, PutIsRecorded DEF Commit
<1>3. Proceeds(a, "committed") BY AtProceeds DEF Commit, FilePhases
<1>4. link' \in Targets BY DEF Commit, FilesInv, FilesTypes
<1> QED BY <1>1, <1>2, <1>3, <1>4, ProceedKeeps

LEMMA CopyOpenOK ==
  ASSUME FilesInv, NEW a \in Agents, NEW to \in Targets, CopyOpen(a, to)
  PROVE FilesInv'
<1>1. /\ UNCHANGED <<disk, link, raced, stamps>> /\ call[a].at = "begun"
      /\ link \in Targets /\ stamps' \in Nat
  BY DEF CopyOpen, FilesInv, FilesTypes
<1>2. CASE disk[link] = Absent \/ link = to
  BY <1>1, <1>2, SaysOK DEF CopyOpen, ToolAnswers
<1>3. CASE disk[link] # Absent /\ link # to
  <2> DEFINE r == [call[a] EXCEPT !.at = "staged", !.target = to, !.after = disk[link].content]
  <2>1. disk[link].content \in FileContents /\ call[a] \in FileCall
    BY <1>1 DEF FilesInv, FilesTypes, FileCopies
  <2>2. r \in FileCall /\ r.at = "staged" /\ r.target = to /\ r.after \in FileContents
    BY <2>1 DEF FileCall, FilePhases
  <2>3. call' = [call EXCEPT ![a] = r] BY <1>3 DEF CopyOpen, FilesInv, FilesTypes
  <2> HIDE DEF r
  <2>4. /\ call' \in [Agents -> FileCall] /\ call'[a] = r
        /\ \A b \in Agents : b # a => call'[b] = call[b]
    BY <2>2, <2>3 DEF FilesInv, FilesTypes
  <2>5. FilesTypes' BY <1>1, <2>4 DEF FilesInv, FilesTypes
  <2>6. TargetsOK' BY <2>2, <2>4 DEF FilesInv, TargetsOK
  <2>7. AfterOK' BY <2>2, <2>4 DEF FilesInv, AfterOK
  <2>8. LooksOK' BY <1>1, <2>2, <2>4 DEF FilesInv, LooksOK
  <2> QED BY <2>5, <2>6, <2>7, <2>8 DEF FilesInv
<1> QED BY <1>2, <1>3

LEMMA CopyCommitOK ==
  ASSUME FilesInv, NEW a \in Agents, CopyCommit(a)
  PROVE FilesInv'
<1>1. call[a].at = "staged" /\ call[a].target \in Targets /\ call[a].after \in FileContents
  BY DEF CopyCommit, FilesInv, TargetsOK, AfterOK, Puts
<1>2. Recorded /\ stamps' \in Nat BY <1>1, PutIsRecorded DEF CopyCommit
<1>3. Proceeds(a, "ended") BY SaysProceeds DEF CopyCommit, ToolAnswers
<1>4. link' \in Targets BY DEF CopyCommit, FilesInv, FilesTypes
<1> QED BY <1>1, <1>2, <1>3, <1>4, ProceedKeeps

LEMMA DeleteOK ==
  ASSUME FilesInv, NEW a \in Agents, Delete(a)
  PROVE FilesInv'
<1>1. call[a].at = "begun" /\ UNCHANGED link /\ link \in Targets BY DEF Delete, FilesInv, FilesTypes
<1>2. CASE disk[link] = Absent BY <1>1, <1>2, SaysOK DEF Delete, ToolAnswers
<1>3. CASE disk[link] # Absent
  <2>1. Put(link, "absent") /\ Says(a, "done") BY <1>3 DEF Delete
  <2>2. Recorded /\ stamps' \in Nat BY <1>1, <2>1, PutIsRecorded DEF FileContents
  <2>3. Proceeds(a, "ended") BY <2>1, SaysProceeds DEF ToolAnswers
  <2> QED BY <1>1, <2>2, <2>3, ProceedKeeps
<1> QED BY <1>2, <1>3

LEMMA RenameOK ==
  ASSUME FilesInv, NEW a \in Agents, NEW to \in Targets, Rename(a, to)
  PROVE FilesInv'
<1>1. /\ call[a].at = "begun" /\ UNCHANGED <<link, stamps>>
      /\ link \in Targets /\ stamps \in Nat
  BY DEF Rename, FilesInv, FilesTypes
<1>2. CASE disk[link] = Absent \/ link = to BY <1>1, <1>2, SaysOK DEF Rename, ToolAnswers
<1>3. CASE disk[link] # Absent /\ link # to
  <2>1. /\ Says(a, "done")
        /\ disk' = [disk EXCEPT ![to] = disk[link], ![link] = Absent]
        /\ raced' = [b \in Agents |->
                       raced[b] \/ (call[b].at = "checked" /\ call[b].target \in {link, to})]
    BY <1>3 DEF Rename
  <2>2. Absent \in FileCopies BY DEF Absent, FileCopies, FileContents
  <2>3. /\ disk' \in [Targets -> FileCopies]
        /\ \A u \in Targets : u \notin {link, to} => disk'[u] = disk[u]
    BY <1>1, <2>1, <2>2 DEF FilesInv, FilesTypes
  <2>4. raced' \in [Agents -> BOOLEAN] BY <2>1, Zenon DEF FilesInv, FilesTypes
  <2>5. \A b \in Agents :
          raced'[b] <=> raced[b] \/ (call[b].at = "checked" /\ call[b].target \in {link, to})
    BY <2>1, Zenon
  <2>6. \A b \in Agents : call[b].at = "checked" => call[b].target \in Targets
    BY DEF FilesInv, TargetsOK
  <2>7. Recorded BY <2>3, <2>4, <2>5, <2>6 DEF Recorded
  <2>8. Proceeds(a, "ended") BY <2>1, SaysProceeds DEF ToolAnswers
  <2> QED BY <1>1, <2>7, <2>8, ProceedKeeps
<1> QED BY <1>2, <1>3

LEMMA OutsideOK ==
  ASSUME FilesInv, NEW t \in Targets,
         \/ \E content \in Contents \cup {"absent"} : UserWrites(t, content)
         \/ UserRelinks(t)
  PROVE FilesInv'
<1>1. ASSUME NEW content \in Contents \cup {"absent"}, UserWrites(t, content) PROVE FilesInv'
  <2>1. Recorded /\ stamps' \in Nat BY <1>1, PutIsRecorded DEF UserWrites, FileContents
  <2>2. UNCHANGED call /\ link' \in Targets BY <1>1 DEF UserWrites, Outside, FilesInv, FilesTypes
  <2> QED BY <2>1, <2>2, OthersKeep
<1>2. CASE UserRelinks(t)
  <2>1. UNCHANGED <<call, disk, raced, stamps>> /\ link' \in Targets
    BY <1>2 DEF UserRelinks, Outside
  <2>2. stamps' \in Nat BY <2>1 DEF FilesInv, FilesTypes
  <2> QED BY <2>1, <2>2, StillIsRecorded, OthersKeep
<1> QED BY <1>1, <1>2

LEMMA FilesStep == FilesInv /\ [FilesNext]_fileVars => FilesInv'
<1> SUFFICES ASSUME FilesInv, [FilesNext]_fileVars PROVE FilesInv' OBVIOUS
<1>1. CASE UNCHANGED fileVars
  BY <1>1 DEF fileVars, FilesInv, FilesTypes, TargetsOK, AfterOK, LooksOK
<1>2. ASSUME NEW a \in Agents, NEW content \in Contents, PrepareWrite(a, content) PROVE FilesInv'
  BY <1>2, BeginOK DEF PrepareWrite, ToolNames, FileContents
<1>3. ASSUME NEW a \in Agents, PrepareEdit(a) PROVE FilesInv'
  BY <1>3, BeginOK DEF PrepareEdit, ToolNames, FileContents, Edited
<1>4. ASSUME NEW a \in Agents, NEW tool \in {"read", "copy", "delete", "rename"}, Permit(a, tool)
      PROVE FilesInv'
  BY <1>4, BeginOK DEF Permit, ToolNames, FileContents
<1>5. ASSUME NEW a \in Agents, Denied(a) \/ ApplyNothing(a) \/ StageFails(a) PROVE FilesInv'
  BY <1>5, SaysOK DEF Denied, ApplyNothing, StageFails, ToolAnswers
<1>6. ASSUME NEW a \in Agents, Stage(a) \/ CheckAgain(a) PROVE FilesInv'
  BY <1>6, CheckOK DEF Stage, CheckAgain, FilePhases
<1>7. ASSUME NEW a \in Agents, Record(a) \/ Read(a) PROVE FilesInv'
  <2>1. \E said \in ToolAnswers : Says(a, said) BY <1>7 DEF Record, Read, ToolAnswers
  <2>2. call[a].at # "idle" /\ UNCHANGED <<disk, link, raced, stamps>>
    BY <1>7 DEF Record, Read
  <2> QED BY <2>1, <2>2, SaysOK
<1> QED
  BY <1>1, <1>2, <1>3, <1>4, <1>5, <1>6, <1>7, CommitOK, CopyCommitOK, DeleteOK, CopyOpenOK,
     RenameOK, OutsideOK DEF FilesNext

-----------------------------------------------------------------------------
(* Of two calls on one file the second has seen what the first left, or it *)
(* is told: what verify_binding and verify_preimage are for.               *)

\* FileMutation::apply puts an edit in place of the content its preview showed, unless
\* the file was changed after the last look at it.
THEOREM EditsReplaceTheirPreview == FilesSpec => ReplacesWhatWasReviewed
<1> DEFINE Replaced ==
      \A a \in Agents :
        call[a].at = "checked" /\ call'[a].at = "committed"
          => disk[call[a].target] = call[a].pre \/ raced[a]
<1>1. FilesInv => [Replaced]_fileVars BY DEF FilesInv, LooksOK
<1> QED BY <1>1, FilesBegin, FilesStep, PTL DEF FilesSpec, ReplacesWhatWasReviewed

-----------------------------------------------------------------------------
(* HostLifecycle.                                                          *)

HostStages ==
  {"none", "starting", "locked", "binding", "serving", "quiet", "idle", "unbound", "unlocked", "gone"}
HostRequests == {"hello", "start", "close"}
Connection ==
  [to : Servers \cup {Nobody}, asks : HostRequests \cup {"none"}, of : Nat,
   at : {"pending", "served", "answered", "ended", "lost"}]
CallerRecord ==
  [at : {"idle", "refused", "ready"} \cup HostRequests, child : Servers \cup {Nobody}, on : Nat,
   to : Servers \cup {Nobody}, session : Nat]

ProcessTypes ==
  /\ stage \in [Servers -> HostStages] /\ hosted \in [Servers -> SUBSET Nat]
  /\ hostLock \in Servers \cup {Nobody} /\ socket \in Servers \cup {Nobody}
ClientTypes ==
  /\ broken \in SUBSET Servers /\ hostFaults \in Nat
  /\ connections \in Seq(Connection) /\ caller \in [Clients -> CallerRecord]

\* The lock is held from the time it is got until it is dropped.
LockOK ==
  \A s \in Servers :
    hostLock = s <=> stage[s] \in {"locked", "binding", "serving", "quiet", "idle", "unbound"}

\* The socket leads to the process that is bound to it, until that drops it, or died.
SocketOK ==
  /\ \A s \in Servers : stage[s] \in {"serving", "quiet", "idle"} => socket = s
  /\ socket # Nobody => stage[socket] \in {"serving", "quiet", "idle", "gone"}

\* Nobody is connected to a process that has not bound the socket, or has ended, and
\* a connection is accepted only while its process serves.
ReachOK ==
  \A c \in DOMAIN connections :
    LET s == connections[c].to IN
    /\ connections[c].at \in {"pending", "served"} => s \in Servers /\ connections[c].asks \in HostRequests
    /\ connections[c].at = "pending" => stage[s] \in {"serving", "quiet", "idle", "unbound", "unlocked"}
    /\ connections[c].at = "served" => stage[s] = "serving"
    /\ connections[c].at = "answered" => s \in Servers /\ stage[s] \in {"serving", "gone"}

\* A process that retires has no session.
RetiredOK == \A s \in Servers : stage[s] \in {"idle", "unbound", "unlocked"} => hosted[s] = {}

ProcessInv == ProcessTypes /\ LockOK /\ SocketOK /\ ReachOK /\ RetiredOK

\* The session that a caller has started, or is about to have.
Owns(k) == IF caller[k].at = "start" THEN caller[k].on ELSE caller[k].session
IsOpen(c) == connections[c].at \in {"pending", "served"}
Waits(k) == caller[k].at = "start" /\ connections[caller[k].on].at \in {"pending", "served", "lost"}

OwnersOK ==
  /\ \A k \in Clients : Owns(k) <= Len(connections)
  /\ \A k, l \in Clients : Owns(k) # 0 /\ Owns(k) = Owns(l) => k = l
  /\ \A c \in DOMAIN connections :
       connections[c].of <= Len(connections)
         /\ (connections[c].of # 0 => \A k \in Clients : Owns(k) # connections[c].of)
StartOK ==
  \A k \in Clients : caller[k].at = "start" =>
    LET c == caller[k].on IN
    /\ c \in DOMAIN connections /\ caller[k].to \in Servers /\ caller[k].session = 0
    /\ IsOpen(c) => connections[c].to = caller[k].to /\ connections[c].asks = "start"
HeldOK ==
  \A k \in Clients :
    Owns(k) # 0 /\ ~Waits(k) =>
      caller[k].to \in Servers /\ (caller[k].to \in broken \/ Owns(k) \in hosted[caller[k].to])
ClientInv == ClientTypes /\ OwnersOK /\ StartOK /\ HeldOK

LEMMA FunctionIsSeq ==
  ASSUME NEW S, NEW n \in Nat, NEW f \in [1 .. n -> S]
  PROVE  f \in Seq(S) /\ Len(f) = n
<1>1. f \in Seq(S)
  BY SeqDef
<1>2. DOMAIN f = 1 .. n /\ DOMAIN f = 1 .. Len(f) /\ Len(f) \in Nat
  BY <1>1, LenProperties
<1>3. \A k \in Nat : 1 .. n = 1 .. k => k = n
  <2> SUFFICES ASSUME NEW k \in Nat, 1 .. n = 1 .. k
               PROVE  k = n
    OBVIOUS
  <2>1. ~(n < k)
    <3>1. n + 1 \in 1 .. k => n + 1 \in 1 .. n
      OBVIOUS
    <3> QED
      BY <3>1
  <2>2. ~(k < n)
    <3>1. k + 1 \in 1 .. n => k + 1 \in 1 .. k
      OBVIOUS
    <3> QED
      BY <3>1
  <2> QED
    BY <2>1, <2>2
<1> QED
  BY <1>1, <1>2, <1>3

LEMMA ServerNumbers == /\ Servers \subseteq Nat /\ Nobody \notin Servers
BY HostsAssumption DEF Servers, Nobody

\* What a step of a process that leaves the connections and the sessions alone keeps.
LEMMA ProcessAlone ==
  ASSUME ProcessInv, NEW s \in Servers, NEW seen \in BOOLEAN,
         \/ TryLock(s) \/ RemoveOldSocket(s) \/ Bind(s) \/ ReadConnections(s)
         \/ ReadSessions(s, seen) \/ DropEndpoint(s) \/ DropLock(s)
  PROVE  ProcessInv'
<1>0. /\ stage \in [Servers -> HostStages] /\ hosted \in [Servers -> SUBSET Nat]
      /\ hostLock \in Servers \cup {Nobody} /\ socket \in Servers \cup {Nobody}
      /\ LockOK /\ SocketOK /\ ReachOK /\ RetiredOK
  BY DEF ProcessInv, ProcessTypes
<1> DEFINE Like == UNCHANGED <<connections, hosted>>
<1>r. ASSUME NEW to \in HostStages, stage' = [stage EXCEPT ![s] = to], Like,
             stage[s] \notin {"serving", "gone"} \/ (to \in {"serving", "quiet"} /\ (to = "quiet" => Active(s) = {})),
             stage[s] \in {"quiet", "idle", "unbound", "unlocked"} =>
           to \in {"serving", "quiet", "idle", "unbound", "unlocked"},
             to \in {"idle", "unbound", "unlocked"} => hosted[s] = {}
      PROVE  ReachOK' /\ RetiredOK' /\ stage'[s] = to /\ stage' \in [Servers -> HostStages]
             /\ \A t \in Servers : t # s => stage'[t] = stage[t]
  <2>1. stage'[s] = to /\ stage' \in [Servers -> HostStages] /\ \A t \in Servers : t # s => stage'[t] = stage[t]
    BY <1>0, <1>r
  <2>2. RetiredOK'
    BY <2>1, <1>r, <1>0 DEF RetiredOK
  <2>3. ReachOK'
    <3> SUFFICES ASSUME NEW c \in DOMAIN connections
                 PROVE  LET t == connections[c].to IN
                        /\ connections[c].at \in {"pending", "served"} => t \in Servers /\ connections[c].asks \in HostRequests
                        /\ connections[c].at = "pending" => stage'[t] \in {"serving", "quiet", "idle", "unbound", "unlocked"}
                        /\ connections[c].at = "served" => stage'[t] = "serving"
                        /\ connections[c].at = "answered" => t \in Servers /\ stage'[t] \in {"serving", "gone"}
      BY <1>r DEF ReachOK
    <3>1. /\ connections[c].at \in {"pending", "served"} =>
               connections[c].to \in Servers /\ connections[c].asks \in HostRequests
          /\ connections[c].at = "pending" =>
               stage[connections[c].to] \in {"serving", "quiet", "idle", "unbound", "unlocked"}
          /\ connections[c].at = "served" => stage[connections[c].to] = "serving"
          /\ connections[c].at = "answered" =>
               connections[c].to \in Servers /\ stage[connections[c].to] \in {"serving", "gone"}
      BY <1>0 DEF ReachOK
    <3>2. connections[c].to = s /\ connections[c].at \in {"served", "answered"} => c \in Active(s)
      BY DEF Active
    <3>3. CASE connections[c].to = s
      <4>1. connections[c].at \in {"served", "answered"} => to \in {"serving", "gone"} /\ to # "gone"
        <5>1. stage[s] \in {"serving", "gone"} /\ c \in Active(s) => to = "serving"
          BY <1>r
        <5> QED
          BY <5>1, <3>1, <3>2, <3>3
      <4>2. connections[c].at = "pending" => to \in {"serving", "quiet", "idle", "unbound", "unlocked"}
        <5>1. connections[c].at = "pending" => stage[s] \in {"serving", "quiet", "idle", "unbound", "unlocked"}
          BY <3>1, <3>3
        <5>2. stage[s] = "serving" => to \in {"serving", "quiet"}
          BY <1>r
        <5>4. stage[s] \in {"quiet", "idle", "unbound", "unlocked"} => to \in {"serving", "quiet", "idle", "unbound", "unlocked"}
          BY <1>r
        <5> QED
          BY <5>1, <5>2, <5>4
      <4> QED
        BY <4>1, <4>2, <3>1, <3>3, <2>1
    <3>4. CASE connections[c].to # s
      BY <3>1, <3>4, <2>1
    <3> QED
      BY <3>3, <3>4
  <2> QED
    BY <2>1, <2>2, <2>3
<1>1. CASE TryLock(s)
  <2>1. CASE hostLock = Nobody
    <3>1. stage' = [stage EXCEPT ![s] = "locked"] /\ hostLock' = s /\ socket' = socket /\ Like /\ stage[s] = "starting"
      BY <1>1, <2>1 DEF TryLock, Goes
    <3>2. ReachOK' /\ RetiredOK' /\ stage'[s] = "locked" /\ stage' \in [Servers -> HostStages]
             /\ \A t \in Servers : t # s => stage'[t] = stage[t]
      BY <3>1, <1>r DEF HostStages
    <3> QED
      BY <3>1, <3>2, <1>0, <2>1, ServerNumbers DEF ProcessInv, ProcessTypes, LockOK, SocketOK
  <2>2. CASE hostLock # Nobody
    <3>1. stage' = [stage EXCEPT ![s] = "gone"] /\ hostLock' = hostLock /\ socket' = socket /\ Like /\ stage[s] = "starting"
      BY <1>1, <2>2 DEF TryLock, Goes
    <3>2. ReachOK' /\ RetiredOK' /\ stage'[s] = "gone" /\ stage' \in [Servers -> HostStages]
             /\ \A t \in Servers : t # s => stage'[t] = stage[t]
      BY <3>1, <1>r DEF HostStages
    <3> QED
      BY <3>1, <3>2, <1>0, ServerNumbers DEF ProcessInv, ProcessTypes, LockOK, SocketOK
  <2> QED
    BY <2>1, <2>2
<1>2. CASE RemoveOldSocket(s)
  <2>1. /\ stage' = [stage EXCEPT ![s] = "binding"] /\ hostLock' = hostLock /\ socket' = Nobody /\ Like
        /\ stage[s] = "locked"
    BY <1>2 DEF RemoveOldSocket, Goes
  <2>2. ReachOK' /\ RetiredOK' /\ stage'[s] = "binding" /\ stage' \in [Servers -> HostStages]
           /\ \A t \in Servers : t # s => stage'[t] = stage[t]
    BY <2>1, <1>r, <1>0 DEF HostStages, RetiredOK
  <2> QED
    BY <2>1, <2>2, <1>0, ServerNumbers DEF ProcessInv, ProcessTypes, LockOK, SocketOK
<1>3. CASE Bind(s)
  <2>1. /\ stage' = [stage EXCEPT ![s] = "serving"] /\ hostLock' = hostLock /\ socket' = s /\ Like
        /\ stage[s] = "binding"
    BY <1>3 DEF Bind, Goes
  <2>2. ReachOK' /\ RetiredOK' /\ stage'[s] = "serving" /\ stage' \in [Servers -> HostStages]
           /\ \A t \in Servers : t # s => stage'[t] = stage[t]
    BY <2>1, <1>r, <1>0 DEF HostStages, RetiredOK
  <2> QED
    BY <2>1, <2>2, <1>0, ServerNumbers DEF ProcessInv, ProcessTypes, LockOK, SocketOK
<1>4. CASE ReadConnections(s)
  <2>1. /\ stage' = [stage EXCEPT ![s] = "quiet"] /\ hostLock' = hostLock /\ socket' = socket /\ Like
        /\ stage[s] = "serving" /\ Active(s) = {}
    BY <1>4 DEF ReadConnections, Goes
  <2>2. ReachOK' /\ RetiredOK' /\ stage'[s] = "quiet" /\ stage' \in [Servers -> HostStages]
           /\ \A t \in Servers : t # s => stage'[t] = stage[t]
    BY <2>1, <1>r, <1>0 DEF HostStages, RetiredOK
  <2> QED
    BY <2>1, <2>2, <1>0, ServerNumbers DEF ProcessInv, ProcessTypes, LockOK, SocketOK
<1>5. CASE ReadSessions(s, seen)
  <2>1. CASE hosted[s] = {} /\ seen
    <3>1. /\ stage' = [stage EXCEPT ![s] = "idle"] /\ hostLock' = hostLock /\ socket' = socket /\ Like
          /\ stage[s] = "quiet"
      BY <1>5, <2>1 DEF ReadSessions, Goes
    <3>2. ReachOK' /\ RetiredOK' /\ stage'[s] = "idle" /\ stage' \in [Servers -> HostStages]
             /\ \A t \in Servers : t # s => stage'[t] = stage[t]
      BY <3>1, <2>1, <1>r DEF HostStages
    <3> QED
      BY <3>1, <3>2, <1>0, ServerNumbers DEF ProcessInv, ProcessTypes, LockOK, SocketOK
  <2>2. CASE ~(hosted[s] = {} /\ seen)
    <3>1. /\ stage' = [stage EXCEPT ![s] = "serving"] /\ hostLock' = hostLock /\ socket' = socket /\ Like
          /\ stage[s] = "quiet"
      BY <1>5, <2>2 DEF ReadSessions, Goes
    <3>2. ReachOK' /\ RetiredOK' /\ stage'[s] = "serving" /\ stage' \in [Servers -> HostStages]
             /\ \A t \in Servers : t # s => stage'[t] = stage[t]
      BY <3>1, <1>r DEF HostStages
    <3> QED
      BY <3>1, <3>2, <1>0, ServerNumbers DEF ProcessInv, ProcessTypes, LockOK, SocketOK
  <2> QED
    BY <2>1, <2>2
<1>6. CASE DropEndpoint(s)
  <2>1. /\ stage' = [stage EXCEPT ![s] = "unbound"] /\ hostLock' = hostLock /\ socket' = Nobody /\ Like
        /\ stage[s] = "idle"
    BY <1>6 DEF DropEndpoint, Goes
  <2>2. ReachOK' /\ RetiredOK' /\ stage'[s] = "unbound" /\ stage' \in [Servers -> HostStages]
           /\ \A t \in Servers : t # s => stage'[t] = stage[t]
    BY <2>1, <1>r, <1>0 DEF HostStages, RetiredOK
  <2> QED
    BY <2>1, <2>2, <1>0, ServerNumbers DEF ProcessInv, ProcessTypes, LockOK, SocketOK
<1>7. CASE DropLock(s)
  <2>1. /\ stage' = [stage EXCEPT ![s] = "unlocked"] /\ hostLock' = Nobody /\ socket' = socket /\ Like
        /\ stage[s] = "unbound"
    BY <1>7 DEF DropLock, Goes
  <2>2. ReachOK' /\ RetiredOK' /\ stage'[s] = "unlocked" /\ stage' \in [Servers -> HostStages]
           /\ \A t \in Servers : t # s => stage'[t] = stage[t]
    BY <2>1, <1>r, <1>0 DEF HostStages, RetiredOK
  <2> QED
    BY <2>1, <2>2, <1>0, ServerNumbers DEF ProcessInv, ProcessTypes, LockOK, SocketOK
<1> QED
  BY <1>1, <1>2, <1>3, <1>4, <1>5, <1>6, <1>7

-----------------------------------------------------------------------------
\* What a step may do to a caller: nothing that matters, or the loss of what it owns.
Loses(k) == caller'[k].at # "start" /\ caller'[k].session = 0
KeepsAt(k) ==
  /\ Owns(k)' = Owns(k) /\ caller'[k].to = caller[k].to
  /\ caller'[k].at = "start" =>
       caller[k].at = "start" /\ caller'[k].on = caller[k].on /\ caller'[k].session = caller[k].session
  /\ caller'[k].at # "start" /\ caller[k].at = "start" => connections[caller[k].on].at \in {"answered", "ended"}

\* What it may do to a connection: only one that started a session is answered.
Moves(c) ==
  /\ connections'[c].of \in {0, connections[c].of}
  /\ connections'[c].at \in {"pending", "served"} =>
       /\ connections[c].at \in {"pending", "served"}
       /\ connections'[c].to = connections[c].to /\ connections'[c].asks = connections[c].asks
  /\ connections'[c].at \in {"answered", "ended"} =>
       \/ connections[c].at \in {"answered", "ended"}
       \/ /\ connections[c].at = "served"
          /\ connections[c].asks = "start" => c \in hosted'[connections[c].to]

ClientStep ==
  /\ ClientTypes' /\ Len(connections') = Len(connections)
  /\ \A k \in Clients : Loses(k) \/ KeepsAt(k)
  /\ \A c \in DOMAIN connections : Moves(c)
  /\ broken \subseteq broken'
  /\ \A k \in Clients, t \in Servers :
       t \in broken' \/ (Owns(k) # 0 /\ Owns(k) \in hosted[t] => Owns(k) \in hosted'[t])

LEMMA ClientFrame ==
  ASSUME ClientInv, ClientStep
  PROVE  ClientInv'
<1>0. /\ ClientTypes' /\ Len(connections') = Len(connections)
      /\ connections \in Seq(Connection) /\ connections' \in Seq(Connection)
      /\ caller \in [Clients -> CallerRecord] /\ caller' \in [Clients -> CallerRecord]
      /\ Len(connections) \in Nat
  BY DEF ClientInv, ClientStep, ClientTypes
<1>1. DOMAIN connections' = DOMAIN connections /\ DOMAIN connections = 1 .. Len(connections)
  BY <1>0
<1>2. \A k \in Clients : Owns(k)' = Owns(k) \/ Owns(k)' = 0
  BY DEF ClientStep, Loses, KeepsAt, Owns
<1>3. \A k \in Clients : Owns(k) \in Nat
  BY <1>0 DEF Owns, CallerRecord
<1>4. OwnersOK'
  <2>1. \A k \in Clients : Owns(k)' <= Len(connections')
    BY <1>0, <1>2, <1>3 DEF ClientInv, OwnersOK
  <2>2. \A k, l \in Clients : Owns(k)' # 0 /\ Owns(k)' = Owns(l)' => k = l
    BY <1>2 DEF ClientInv, OwnersOK
  <2>3. ASSUME NEW c \in DOMAIN connections
        PROVE  /\ connections'[c].of <= Len(connections)
               /\ connections'[c].of # 0 => \A k \in Clients : Owns(k)' # connections'[c].of
    <3>1. connections'[c].of \in {0, connections[c].of}
      BY DEF ClientStep, Moves
    <3>2. /\ connections[c].of <= Len(connections)
          /\ connections[c].of # 0 => \A k \in Clients : Owns(k) # connections[c].of
      BY DEF ClientInv, OwnersOK
    <3> QED
      BY <3>1, <3>2, <1>2, <1>0
  <2> QED
    BY <2>1, <2>2, <2>3, <1>0, <1>1 DEF OwnersOK
<1>5. StartOK'
  <2> SUFFICES ASSUME NEW k \in Clients, caller'[k].at = "start"
               PROVE  /\ caller'[k].on \in DOMAIN connections'
                      /\ caller'[k].to \in Servers /\ caller'[k].session = 0
                      /\ connections'[caller'[k].on].at \in {"pending", "served"} =>
                           /\ connections'[caller'[k].on].to = caller'[k].to
                           /\ connections'[caller'[k].on].asks = "start"
    BY DEF StartOK, IsOpen
  <2>1. /\ caller[k].at = "start" /\ caller'[k].on = caller[k].on /\ caller'[k].session = caller[k].session
        /\ caller'[k].to = caller[k].to
    BY DEF ClientStep, Loses, KeepsAt
  <2>2. /\ caller[k].on \in DOMAIN connections /\ caller[k].to \in Servers /\ caller[k].session = 0
        /\ IsOpen(caller[k].on) => connections[caller[k].on].to = caller[k].to /\ connections[caller[k].on].asks = "start"
    BY <2>1 DEF ClientInv, StartOK
  <2>3. Moves(caller[k].on)
    BY <2>2 DEF ClientStep
  <2> QED
    BY <2>1, <2>2, <2>3, <1>1 DEF Moves, IsOpen
<1>6. HeldOK'
  <2> SUFFICES ASSUME NEW k \in Clients, Owns(k)' # 0, ~Waits(k)'
               PROVE  caller'[k].to \in Servers /\ (caller'[k].to \in broken' \/ Owns(k)' \in hosted'[caller'[k].to])
    BY DEF HeldOK
  <2>1. KeepsAt(k) /\ Owns(k)' = Owns(k) /\ caller'[k].to = caller[k].to
    BY DEF ClientStep, Loses, KeepsAt, Owns
  <2>2. CASE ~Waits(k)
    <3>1. caller[k].to \in Servers /\ (caller[k].to \in broken \/ Owns(k) \in hosted[caller[k].to])
      BY <2>1, <2>2 DEF ClientInv, HeldOK
    <3> QED
      BY <2>1, <3>1 DEF ClientStep
  <2>3. CASE Waits(k)
    <3>1. caller[k].at = "start" /\ connections[caller[k].on].at \in {"pending", "served", "lost"}
      BY <2>3 DEF Waits
    <3>2. caller'[k].at = "start" /\ caller'[k].on = caller[k].on
      BY <2>1, <3>1 DEF KeepsAt
    <3>3. caller[k].on \in DOMAIN connections /\ caller[k].to \in Servers
      BY <3>1 DEF ClientInv, StartOK
    <3>4. connections'[caller[k].on].at \in {"answered", "ended"}
      <4>1. connections'[caller[k].on] \in Connection
        BY <1>0, <1>1, <3>3
      <4> QED
        BY <4>1, <3>2 DEF Waits, Connection
    <3>5. /\ connections[caller[k].on].at = "served"
          /\ connections[caller[k].on].asks = "start" => caller[k].on \in hosted'[connections[caller[k].on].to]
      BY <3>1, <3>3, <3>4 DEF ClientStep, Moves
    <3>6. connections[caller[k].on].to = caller[k].to /\ connections[caller[k].on].asks = "start"
      BY <3>1, <3>5 DEF ClientInv, StartOK, IsOpen
    <3> QED
      BY <2>1, <3>1, <3>3, <3>5, <3>6 DEF Owns
  <2> QED
    BY <2>2, <2>3
<1> QED
  BY <1>0, <1>4, <1>5, <1>6 DEF ClientInv

LEMMA ClientFacts ==
  ASSUME ProcessInv, ClientInv
  PROVE  /\ stage \in [Servers -> HostStages] /\ hosted \in [Servers -> SUBSET Nat]
         /\ hostLock \in Servers \cup {Nobody} /\ socket \in Servers \cup {Nobody}
         /\ LockOK /\ SocketOK /\ ReachOK /\ RetiredOK
         /\ broken \in SUBSET Servers /\ hostFaults \in Nat
         /\ connections \in Seq(Connection) /\ caller \in [Clients -> CallerRecord]
         /\ Len(connections) \in Nat /\ DOMAIN connections = 1 .. Len(connections)
         /\ OwnersOK /\ StartOK /\ HeldOK
         /\ \A k \in Clients : Owns(k) \in Nat
         /\ \A c \in DOMAIN connections : connections[c] \in Connection
<1>1. /\ stage \in [Servers -> HostStages] /\ hosted \in [Servers -> SUBSET Nat]
      /\ hostLock \in Servers \cup {Nobody} /\ socket \in Servers \cup {Nobody}
      /\ LockOK /\ SocketOK /\ ReachOK /\ RetiredOK
  BY DEF ProcessInv, ProcessTypes
<1>2. /\ broken \in SUBSET Servers /\ hostFaults \in Nat
      /\ connections \in Seq(Connection) /\ caller \in [Clients -> CallerRecord]
      /\ OwnersOK /\ StartOK /\ HeldOK
  BY DEF ClientInv, ClientTypes
<1>3. Len(connections) \in Nat /\ DOMAIN connections = 1 .. Len(connections)
  BY <1>2
<1>4. \A c \in DOMAIN connections : connections[c] \in Connection
  BY <1>2, <1>3
<1>5. \A k \in Clients : Owns(k) \in Nat
  BY <1>2 DEF Owns, CallerRecord
<1> QED
  BY <1>1, <1>2, <1>3, <1>4, <1>5

\* The end of a process, whatever ends it.
LEMMA StopKeeps ==
  ASSUME ProcessInv, ClientInv, NEW s \in Servers, Stop(s),
         socket' = socket \/ (stage[s] = "serving" /\ socket' = Nobody)
  PROVE  /\ ProcessInv' /\ connections' \in Seq(Connection) /\ Len(connections') = Len(connections)
         /\ \A c \in DOMAIN connections : Moves(c)
         /\ \A t \in Servers : t # s => hosted'[t] = hosted[t]
<1>0. /\ stage' = [stage EXCEPT ![s] = "gone"]
      /\ hostLock' = IF hostLock = s THEN Nobody ELSE hostLock
      /\ hosted' = [hosted EXCEPT ![s] = {}]
  BY DEF Stop, Goes
<1>1. /\ stage'[s] = "gone" /\ stage' \in [Servers -> HostStages] /\ \A t \in Servers : t # s => stage'[t] = stage[t]
      /\ hosted' \in [Servers -> SUBSET Nat] /\ hosted'[s] = {} /\ \A t \in Servers : t # s => hosted'[t] = hosted[t]
  BY <1>0, ClientFacts DEF HostStages
<1> DEFINE New(c) == IF connections[c].to = s /\ connections[c].at \in {"pending", "served"}
                     THEN Over("lost") ELSE connections[c]
<1>2. \A c \in DOMAIN connections : New(c) \in Connection
  BY ClientFacts DEF Over, Connection
<1>3. connections' = [c \in DOMAIN connections |-> New(c)]
  BY DEF Stop
<1>4. connections' \in Seq(Connection) /\ Len(connections') = Len(connections)
  <2> HIDE DEF New
  <2>1. connections' \in [1 .. Len(connections) -> Connection] /\ Len(connections) \in Nat
    BY <1>2, <1>3, ClientFacts
  <2> QED
    BY <2>1, FunctionIsSeq
<1>5. ASSUME NEW c \in DOMAIN connections
      PROVE  \/ connections'[c] = connections[c] /\ ~(connections[c].to = s /\ connections[c].at \in {"pending", "served"})
             \/ connections'[c].at = "lost" /\ connections'[c].of = 0
  BY <1>3 DEF Over
<1>6. ASSUME NEW c \in DOMAIN connections
      PROVE  Moves(c)
  BY <1>5 DEF Moves
<1>7. ReachOK'
  <2>1. DOMAIN connections' = DOMAIN connections
    BY <1>3
  <2> SUFFICES ASSUME NEW c \in DOMAIN connections
               PROVE  /\ connections'[c].at \in {"pending", "served"} =>
                           connections'[c].to \in Servers /\ connections'[c].asks \in HostRequests
                      /\ connections'[c].at = "pending" =>
                           stage'[connections'[c].to] \in {"serving", "quiet", "idle", "unbound", "unlocked"}
                      /\ connections'[c].at = "served" => stage'[connections'[c].to] = "serving"
                      /\ connections'[c].at = "answered" =>
                           connections'[c].to \in Servers /\ stage'[connections'[c].to] \in {"serving", "gone"}
    BY <2>1 DEF ReachOK
  <2>2. /\ connections[c].at \in {"pending", "served"} =>
             connections[c].to \in Servers /\ connections[c].asks \in HostRequests
        /\ connections[c].at = "pending" =>
             stage[connections[c].to] \in {"serving", "quiet", "idle", "unbound", "unlocked"}
        /\ connections[c].at = "served" => stage[connections[c].to] = "serving"
        /\ connections[c].at = "answered" =>
             connections[c].to \in Servers /\ stage[connections[c].to] \in {"serving", "gone"}
    BY ClientFacts DEF ReachOK
  <2>3. CASE connections'[c] = connections[c] /\ connections[c].to # s
    BY <2>2, <2>3, <1>1
  <2>4. CASE connections'[c] = connections[c] /\ connections[c].to = s /\ connections[c].at \notin {"pending", "served"}
    BY <2>2, <2>4, <1>1
  <2>5. CASE connections'[c].at = "lost"
    BY <2>5
  <2> QED
    BY <2>3, <2>4, <2>5, <1>5
<1>8. RetiredOK'
  BY <1>1, ClientFacts DEF RetiredOK
<1>9. LockOK'
  <2>1. s # Nobody
    BY ServerNumbers
  <2> QED
    BY <2>1, <1>0, <1>1, ClientFacts, ServerNumbers DEF LockOK
<1>10. SocketOK'
  <2>1. CASE socket' = socket
    BY <2>1, <1>1, ClientFacts DEF SocketOK
  <2>2. CASE stage[s] = "serving" /\ socket' = Nobody
    <3>1. \A t \in Servers : t # s => stage[t] \notin {"serving", "quiet", "idle"}
      BY <2>2, ClientFacts DEF LockOK
    <3> QED
      BY <3>1, <2>2, <1>1 DEF SocketOK
  <2> QED
    BY <2>1, <2>2
<1>11. ProcessTypes'
  BY <1>0, <1>1, ClientFacts DEF ProcessTypes, Nobody
<1> QED
  BY <1>1, <1>4, <1>6, <1>7, <1>8, <1>9, <1>10, <1>11 DEF ProcessInv

\* What happens to one connection leaves the others.
LEMMA OneConnection ==
  ASSUME ProcessInv, ClientInv, NEW c \in DOMAIN connections, NEW d \in Connection,
         connections' = [connections EXCEPT ![c] = d]
  PROVE  /\ connections' \in Seq(Connection) /\ Len(connections') = Len(connections)
         /\ DOMAIN connections' = DOMAIN connections /\ connections'[c] = d
         /\ \A e \in DOMAIN connections : e # c => connections'[e] = connections[e]
  BY ClientFacts

LEMMA Answering ==
  ASSUME ProcessInv, ClientInv, NEW c \in DOMAIN connections, NEW s \in Servers,
         \/ Accept(s, c) \/ Handle(c) \/ EndThread(c)
  PROVE  /\ connections' \in Seq(Connection) /\ Len(connections') = Len(connections)
         /\ DOMAIN connections' = DOMAIN connections
         /\ \A e \in DOMAIN connections : e # c => connections'[e] = connections[e]
         /\ \/ /\ connections'[c].to = connections[c].to /\ connections'[c].asks = connections[c].asks
               /\ connections'[c].of = connections[c].of
               /\ \/ Accept(s, c) /\ connections'[c].at = "served"
                  \/ Handle(c) /\ connections'[c].at = "answered"
            \/ EndThread(c) /\ connections'[c].at = "ended" /\ connections'[c].of = 0
<1>0. connections[c] \in Connection
  BY ClientFacts
<1>1. ASSUME NEW at \in {"served", "answered"}, connections' = [connections EXCEPT ![c].at = at]
      PROVE  /\ connections' \in Seq(Connection) /\ Len(connections') = Len(connections)
             /\ DOMAIN connections' = DOMAIN connections /\ connections'[c].at = at
             /\ \A e \in DOMAIN connections : e # c => connections'[e] = connections[e]
             /\ connections'[c].to = connections[c].to /\ connections'[c].asks = connections[c].asks
             /\ connections'[c].of = connections[c].of
  <2> DEFINE d == [connections[c] EXCEPT !.at = at]
  <2>1. d \in Connection /\ d.at = at /\ d.to = connections[c].to /\ d.asks = connections[c].asks /\ d.of = connections[c].of
    BY <1>0 DEF Connection
  <2>2. connections' = [connections EXCEPT ![c] = d]
    BY <1>1
  <2> HIDE DEF d
  <2> QED
    BY <2>1, <2>2, OneConnection
<1>2. CASE Accept(s, c)
  <2>1. connections' = [connections EXCEPT ![c].at = "served"]
    BY <1>2 DEF Accept
  <2> QED
    BY <2>1, <1>1, <1>2
<1>3. CASE Handle(c)
  <2>1. connections' = [connections EXCEPT ![c].at = "answered"]
    BY <1>3 DEF Handle
  <2> QED
    BY <2>1, <1>1, <1>3
<1>4. CASE EndThread(c)
  <2> DEFINE d == Over("ended")
  <2>1. d \in Connection /\ d.at = "ended" /\ d.of = 0
    BY DEF Over, Connection
  <2>2. connections' = [connections EXCEPT ![c] = d]
    BY <1>4 DEF EndThread
  <2> HIDE DEF d
  <2> QED
    BY <2>1, <2>2, <1>4, OneConnection
<1> QED
  BY <1>2, <1>3, <1>4

\* What Handle does to the sessions.
LEMMA Handling ==
  ASSUME ProcessInv, ClientInv, NEW c \in DOMAIN connections, Handle(c)
  PROVE  /\ hosted' \in [Servers -> SUBSET Nat] /\ stage[connections[c].to] = "serving"
         /\ \A t \in Servers : t # connections[c].to => hosted'[t] = hosted[t]
         /\ \A t \in Servers : \A x \in hosted[t] : x # connections[c].of => x \in hosted'[t]
         /\ connections[c].asks = "start" => c \in hosted'[connections[c].to]
<1> DEFINE s == connections[c].to
           r == connections[c].asks
           new == CASE r = "hello" -> hosted[s] [] r = "start" -> hosted[s] \cup {c}
                    [] r = "close" -> hosted[s] \ {connections[c].of}
<1>1. s \in Servers /\ r \in HostRequests /\ stage[s] = "serving" /\ c \in Nat
  BY ClientFacts DEF Handle, ReachOK
<1>2. hosted' = [hosted EXCEPT ![s] = new]
  BY DEF Handle
<1>3. hosted[s] \in SUBSET Nat
  BY <1>1, ClientFacts
<1>4. /\ new \in SUBSET Nat /\ \A x \in hosted[s] : x # connections[c].of => x \in new
      /\ r = "start" => c \in new
  BY <1>1, <1>3 DEF HostRequests
<1> HIDE DEF new
<1>5. hosted' \in [Servers -> SUBSET Nat] /\ hosted'[s] = new /\ \A t \in Servers : t # s => hosted'[t] = hosted[t]
  BY <1>1, <1>2, <1>4, ClientFacts
<1> HIDE DEF s, r
<1>6. \A t \in Servers : \A x \in hosted[t] : x # connections[c].of => x \in hosted'[t]
  BY <1>4, <1>5
<1> QED
  BY <1>1, <1>4, <1>5, <1>6 DEF s, r

LEMMA AnsweringKeeps ==
  ASSUME ProcessInv, ClientInv, NEW c \in DOMAIN connections, NEW s \in Servers,
         \/ Accept(s, c) \/ Handle(c) \/ EndThread(c)
  PROVE  ProcessInv' /\ ClientInv'
<1>0. /\ stage' = stage /\ hostLock' = hostLock /\ socket' = socket /\ caller' = caller /\ broken' = broken
      /\ hostFaults' = hostFaults
  BY DEF Accept, Handle, EndThread
<1>1. /\ hosted' \in [Servers -> SUBSET Nat]
      /\ \A t \in Servers : hosted'[t] = hosted[t] \/ stage[t] = "serving"
      /\ \A t \in Servers : \A x \in hosted[t] : x # connections[c].of => x \in hosted'[t]
  <2>1. CASE Handle(c)
    BY <2>1, Handling
  <2>2. CASE Accept(s, c) \/ EndThread(c)
    <3>1. hosted' = hosted
      BY <2>2 DEF Accept, EndThread
    <3> QED
      BY <3>1, ClientFacts
  <2> QED
    BY <2>1, <2>2
<1>2. ReachOK'
  <2> SUFFICES ASSUME NEW e \in DOMAIN connections
               PROVE  /\ connections'[e].at \in {"pending", "served"} =>
                           connections'[e].to \in Servers /\ connections'[e].asks \in HostRequests
                      /\ connections'[e].at = "pending" =>
                           stage[connections'[e].to] \in {"serving", "quiet", "idle", "unbound", "unlocked"}
                      /\ connections'[e].at = "served" => stage[connections'[e].to] = "serving"
                      /\ connections'[e].at = "answered" =>
                           connections'[e].to \in Servers /\ stage[connections'[e].to] \in {"serving", "gone"}
    BY Answering, <1>0 DEF ReachOK
  <2>1. /\ connections[e].at \in {"pending", "served"} =>
             connections[e].to \in Servers /\ connections[e].asks \in HostRequests
        /\ connections[e].at = "pending" =>
             stage[connections[e].to] \in {"serving", "quiet", "idle", "unbound", "unlocked"}
        /\ connections[e].at = "served" => stage[connections[e].to] = "serving"
        /\ connections[e].at = "answered" =>
             connections[e].to \in Servers /\ stage[connections[e].to] \in {"serving", "gone"}
    BY ClientFacts DEF ReachOK
  <2>2. CASE e # c
    BY <2>1, <2>2, Answering
  <2>3. CASE e = c
    <3>1. CASE Accept(s, c) /\ connections'[c].at = "served" /\ connections'[c].to = connections[c].to
               /\ connections'[c].asks = connections[c].asks
      BY <3>1, <2>1, <2>3 DEF Accept
    <3>2. CASE Handle(c) /\ connections'[c].at = "answered" /\ connections'[c].to = connections[c].to
      BY <3>2, <2>1, <2>3 DEF Handle
    <3>3. CASE connections'[c].at = "ended"
      BY <3>3, <2>3
    <3> QED
      BY <3>1, <3>2, <3>3, Answering
  <2> QED
    BY <2>2, <2>3
<1>3. ProcessInv'
  <2>1. RetiredOK'
    BY <1>0, <1>1, ClientFacts DEF RetiredOK
  <2> QED
    BY <1>0, <1>1, <1>2, <2>1, ClientFacts DEF ProcessInv, ProcessTypes, LockOK, SocketOK
<1>4. ClientStep
  <2>1. ClientTypes' /\ Len(connections') = Len(connections) /\ broken \subseteq broken'
    BY <1>0, Answering, ClientFacts DEF ClientTypes
  <2>2. \A k \in Clients : KeepsAt(k)
    BY <1>0 DEF KeepsAt, Owns
  <2>3. ASSUME NEW e \in DOMAIN connections
        PROVE  Moves(e)
    <3>1. CASE e # c
      BY <3>1, Answering DEF Moves
    <3>2. CASE e = c
      <4>1. CASE Accept(s, c) /\ connections'[c].at = "served" /\ connections'[c].to = connections[c].to
                 /\ connections'[c].asks = connections[c].asks /\ connections'[c].of = connections[c].of
        BY <4>1, <3>2 DEF Accept, Moves
      <4>2. CASE Handle(c) /\ connections'[c].at = "answered" /\ connections'[c].of = connections[c].of
        BY <4>2, <3>2, Handling DEF Handle, Moves
      <4>3. CASE EndThread(c) /\ connections'[c].at = "ended" /\ connections'[c].of = 0
        BY <4>3, <3>2 DEF EndThread, Moves
      <4> QED
        BY <4>1, <4>2, <4>3, Answering
    <3> QED
      BY <3>1, <3>2
  <2>4. ASSUME NEW k \in Clients, NEW t \in Servers, Owns(k) # 0, Owns(k) \in hosted[t]
        PROVE  t \in broken' \/ Owns(k) \in hosted'[t]
    <3>1. Owns(k) # connections[c].of
      BY <2>4, ClientFacts DEF OwnersOK
    <3> QED
      BY <1>1, <2>4, <3>1
  <2> QED
    BY <2>1, <2>2, <2>3, <2>4 DEF ClientStep
<1> QED
  BY <1>3, <1>4, ClientFrame

\* A process that ends fails or is idle; it takes its sessions with it.
LEMMA StopStep ==
  ASSUME ProcessInv, ClientInv, NEW s \in Servers, Stop(s),
         broken' = broken \cup {s} \/ (stage[s] = "unlocked" /\ broken' = broken),
         caller' \in [Clients -> CallerRecord], hostFaults' \in Nat,
         \A k \in Clients : Loses(k) \/ KeepsAt(k),
         socket' = socket \/ (stage[s] = "serving" /\ socket' = Nobody)
  PROVE  ProcessInv' /\ ClientInv'
<1>1. /\ ProcessInv' /\ connections' \in Seq(Connection) /\ Len(connections') = Len(connections)
      /\ \A c \in DOMAIN connections : Moves(c)
      /\ \A t \in Servers : t # s => hosted'[t] = hosted[t]
  BY StopKeeps
<1>2. broken \subseteq broken' /\ broken' \in SUBSET Servers
  BY ClientFacts
<1>3. ASSUME NEW k \in Clients, NEW t \in Servers, Owns(k) \in hosted[t]
      PROVE  t \in broken' \/ Owns(k) \in hosted'[t]
  <2>1. stage[s] = "unlocked" => hosted[s] = {}
    BY ClientFacts DEF RetiredOK
  <2> QED
    BY <1>1, <1>3, <2>1
<1>4. ClientStep
  BY <1>1, <1>2, <1>3 DEF ClientStep, ClientTypes
<1> QED
  BY <1>1, <1>4, ClientFrame

LEMMA EndingKeeps ==
  ASSUME ProcessInv, ClientInv, NEW s \in Servers, Exit(s) \/ RunFails(s) \/ ServerDies(s)
  PROVE  ProcessInv' /\ ClientInv'
<1>1. Stop(s) /\ caller' = caller
  <2>1. CASE Exit(s)
    BY <2>1 DEF Exit
  <2>2. CASE RunFails(s)
    BY <2>2 DEF RunFails
  <2>3. CASE ServerDies(s)
    BY <2>3 DEF ServerDies
  <2> QED
    BY <2>1, <2>2, <2>3
<1>2. broken' = broken \cup {s} \/ (stage[s] = "unlocked" /\ broken' = broken)
  <2>1. CASE Exit(s)
    BY <2>1 DEF Exit
  <2>2. CASE RunFails(s)
    BY <2>2 DEF RunFails
  <2>3. CASE ServerDies(s)
    BY <2>3 DEF ServerDies
  <2> QED
    BY <2>1, <2>2, <2>3
<1>3. hostFaults' \in Nat
  <2>1. Exit(s) => hostFaults' = hostFaults
    BY DEF Exit
  <2>2. RunFails(s) \/ ServerDies(s) => HostFault
    BY DEF RunFails, ServerDies
  <2> QED
    BY <2>1, <2>2, ClientFacts DEF HostFault
<1>4. socket' = socket \/ (stage[s] = "serving" /\ socket' = Nobody)
  <2>1. CASE Exit(s)
    BY <2>1 DEF Exit
  <2>2. CASE RunFails(s)
    BY <2>2 DEF RunFails
  <2>3. CASE ServerDies(s)
    BY <2>3 DEF ServerDies
  <2> QED
    BY <2>1, <2>2, <2>3
<1>5. \A k \in Clients : KeepsAt(k)
  <2>1. \A k \in Clients : Owns(k)' = Owns(k)
    BY <1>1 DEF Owns
  <2> QED
    BY <1>1, <2>1 DEF KeepsAt
<1>6. caller' \in [Clients -> CallerRecord]
  BY <1>1, ClientFacts
<1> QED
  BY <1>1, <1>2, <1>3, <1>4, <1>5, <1>6, StopStep

-----------------------------------------------------------------------------
(* What a step does to its caller.                                         *)

LEMMA OneCaller ==
  ASSUME ProcessInv, ClientInv, NEW k \in Clients, NEW r \in CallerRecord, caller' = [caller EXCEPT ![k] = r]
  PROVE  /\ caller' \in [Clients -> CallerRecord] /\ caller'[k] = r
         /\ \A l \in Clients : l # k => caller'[l] = caller[l] /\ KeepsAt(l)
<1>1. /\ caller' \in [Clients -> CallerRecord] /\ caller'[k] = r
      /\ \A l \in Clients : l # k => caller'[l] = caller[l]
  BY ClientFacts
<1>2. \A l \in Clients : l # k => Owns(l)' = Owns(l)
  BY <1>1 DEF Owns
<1> QED
  BY <1>1, <1>2 DEF KeepsAt

\* A call that is over gives back the session it is told, if it is the one it had.
LEMMA BackMoves ==
  ASSUME ProcessInv, ClientInv, NEW k \in Clients, NEW given \in Nat, Back(k, given),
         given \in {0, Owns(k)},
         given # 0 /\ caller[k].at = "start" => connections[caller[k].on].at \in {"answered", "ended"}
  PROVE  /\ caller' \in [Clients -> CallerRecord]
         /\ \A l \in Clients : Loses(l) \/ KeepsAt(l)
<1> DEFINE to == IF given = 0 THEN Nobody ELSE caller[k].to
           r == [NoCaller EXCEPT !.session = given, !.to = to]
<1>1. caller[k] \in CallerRecord
  BY ClientFacts
<1>2. to \in Servers \cup {Nobody} /\ (given # 0 => to = caller[k].to)
  BY <1>1 DEF CallerRecord
<1> HIDE DEF to
<1>3. r \in CallerRecord /\ r.at = "idle" /\ r.session = given /\ r.to = to
  BY <1>2 DEF NoCaller, CallerRecord, Nobody, HostRequests
<1>4. caller' = [caller EXCEPT ![k] = r]
  BY DEF Back, to
<1> HIDE DEF r
<1>5. /\ caller' \in [Clients -> CallerRecord] /\ caller'[k] = r
      /\ \A l \in Clients : l # k => caller'[l] = caller[l] /\ KeepsAt(l)
  BY <1>3, <1>4, OneCaller
<1>6. Loses(k) \/ KeepsAt(k)
  <2>1. CASE given = 0
    BY <2>1, <1>3, <1>5 DEF Loses
  <2>2. CASE given # 0
    <3>1. Owns(k)' = given
      BY <1>3, <1>5 DEF Owns
    <3> QED
      BY <3>1, <2>2, <1>2, <1>3, <1>5 DEF KeepsAt
  <2> QED
    BY <2>1, <2>2
<1> QED
  BY <1>5, <1>6

\* A call that has not begun its operation goes on.
LEMMA CallerGoesMoves ==
  ASSUME ProcessInv, ClientInv, NEW k \in Clients, NEW at \in {"refused", "ready"}, CallerGoes(k, at),
         caller[k].at # "start"
  PROVE  /\ caller' \in [Clients -> CallerRecord]
         /\ \A l \in Clients : Loses(l) \/ KeepsAt(l)
<1> DEFINE r == [caller[k] EXCEPT !.at = at]
<1>1. caller[k] \in CallerRecord
  BY ClientFacts
<1>2. r \in CallerRecord /\ r.at = at /\ r.session = caller[k].session /\ r.to = caller[k].to
  BY <1>1 DEF CallerRecord
<1>3. caller' = [caller EXCEPT ![k] = r]
  BY DEF CallerGoes
<1> HIDE DEF r
<1>4. /\ caller' \in [Clients -> CallerRecord] /\ caller'[k] = r
      /\ \A l \in Clients : l # k => caller'[l] = caller[l] /\ KeepsAt(l)
  BY <1>2, <1>3, OneCaller
<1>5. KeepsAt(k)
  <2>1. Owns(k)' = Owns(k)
    BY <1>2, <1>4 DEF Owns
  <2> QED
    BY <2>1, <1>2, <1>4 DEF KeepsAt
<1> QED
  BY <1>4, <1>5

\* A step that is only about its caller.
LEMMA CallerStep ==
  ASSUME ProcessInv, ClientInv, UNCHANGED <<stage, hostLock, socket, connections, hosted, broken>>,
         caller' \in [Clients -> CallerRecord], hostFaults' \in Nat,
         \A k \in Clients : Loses(k) \/ KeepsAt(k)
  PROVE  ProcessInv' /\ ClientInv'
<1>1. ProcessInv'
  BY DEF ProcessInv, ProcessTypes, LockOK, SocketOK, ReachOK, RetiredOK
<1>2. \A c \in DOMAIN connections : Moves(c)
  BY DEF Moves
<1>3. ClientStep
  BY <1>2, ClientFacts DEF ClientStep, ClientTypes
<1> QED
  BY <1>1, <1>3, ClientFrame

LEMMA WaitingKeeps ==
  ASSUME ProcessInv, ClientInv, NEW k \in Clients,
         HelloEnds(k) \/ StartupFailed(k) \/ RequestEnds(k) \/ AnswerTooLate(k)
  PROVE  ProcessInv' /\ ClientInv'
<1>1. /\ UNCHANGED <<stage, hostLock, socket, connections, hosted, broken>> /\ hostFaults' \in Nat
  BY ClientFacts DEF HelloEnds, StartupFailed, RequestEnds, AnswerTooLate, HostFault
<1>2. caller[k] \in CallerRecord /\ caller[k].session \in Nat /\ caller[k].on \in Nat /\ 0 \in Nat
  BY ClientFacts DEF CallerRecord
<1>3. CASE HelloEnds(k)
  <2>1. PICK at \in {"refused", "ready"} : CallerGoes(k, at)
    BY <1>3 DEF HelloEnds
  <2>2. caller[k].at # "start"
    BY <1>3 DEF HelloEnds
  <2> QED
    BY <2>1, <2>2, <1>1, CallerGoesMoves, CallerStep
<1>4. CASE StartupFailed(k)
  <2>1. Back(k, caller[k].session) /\ caller[k].at = "refused" /\ Owns(k) = caller[k].session
    BY <1>4 DEF StartupFailed, Owns
  <2> QED
    BY <2>1, <1>1, <1>2, BackMoves, CallerStep
<1>5. CASE RequestEnds(k)
  <2> DEFINE given == IF connections[caller[k].on].at # "lost" /\ caller[k].at = "start" THEN caller[k].on ELSE 0
  <2>1. Back(k, given) /\ given \in Nat
    BY <1>2, <1>5 DEF RequestEnds
  <2>2. given \in {0, Owns(k)}
    BY DEF Owns
  <2>3. given # 0 => connections[caller[k].on].at \in {"answered", "ended"}
    BY <1>5 DEF RequestEnds
  <2> HIDE DEF given
  <2> QED
    BY <2>1, <2>2, <2>3, <1>1, BackMoves, CallerStep
<1>6. CASE AnswerTooLate(k)
  <2>1. CASE caller[k].at = "hello"
    <3>1. CallerGoes(k, "refused") /\ caller[k].at # "start"
      BY <1>6, <2>1 DEF AnswerTooLate
    <3> QED
      BY <3>1, <1>1, CallerGoesMoves, CallerStep
  <2>2. CASE caller[k].at = "start"
    <3>1. Back(k, 0)
      BY <1>6, <2>2, ClientFacts DEF AnswerTooLate, StartOK
    <3> QED
      BY <3>1, <1>1, <1>2, BackMoves, CallerStep
  <2>3. CASE caller[k].at = "close"
    <3>1. Back(k, caller[k].session) /\ Owns(k) = caller[k].session
      BY <1>6, <2>3 DEF AnswerTooLate, Owns
    <3> QED
      BY <3>1, <2>3, <1>1, <1>2, BackMoves, CallerStep
  <2> QED
    BY <1>6, <2>1, <2>2, <2>3 DEF AnswerTooLate
<1> QED
  BY <1>3, <1>4, <1>5, <1>6

LEMMA TimeoutKeeps ==
  ASSUME ProcessInv, ClientInv, NEW k \in Clients, StartupTimeout(k)
  PROVE  ProcessInv' /\ ClientInv'
<1> DEFINE s == caller[k].child
<1>1. caller[k] \in CallerRecord /\ caller[k].session \in Nat /\ s \in Servers /\ hostFaults' \in Nat
  BY ClientFacts DEF CallerRecord, StartupTimeout, HostFault
<1>2. Back(k, caller[k].session) /\ Owns(k) = caller[k].session /\ caller[k].at # "start" /\ socket' = socket
  BY DEF StartupTimeout, Owns
<1>3. /\ caller' \in [Clients -> CallerRecord]
      /\ \A l \in Clients : Loses(l) \/ KeepsAt(l)
  BY <1>1, <1>2, BackMoves
<1>4. CASE Alive(s)
  <2>1. Stop(s) /\ broken' = broken \cup {s}
    BY <1>4 DEF StartupTimeout
  <2>2. /\ broken' = broken \cup {s} \/ (stage[s] = "unlocked" /\ broken' = broken)
        /\ socket' = socket \/ (stage[s] = "serving" /\ socket' = Nobody)
    BY <2>1, <1>2
  <2> HIDE DEF s
  <2> QED
    BY <2>1, <2>2, <1>1, <1>3, StopStep
<1>5. CASE ~Alive(s)
  <2>1. UNCHANGED <<stage, hostLock, connections, hosted, broken>>
    BY <1>5 DEF StartupTimeout
  <2> QED
    BY <2>1, <1>1, <1>2, <1>3, CallerStep
<1> QED
  BY <1>4, <1>5

LEMMA SpawnKeeps ==
  ASSUME ProcessInv, ClientInv, NEW k \in Clients, SpawnHost(k)
  PROVE  ProcessInv' /\ ClientInv'
<1>1. PICK s \in Servers :
        /\ stage[s] = "none" /\ stage' = [stage EXCEPT ![s] = "starting"]
        /\ caller' = [caller EXCEPT ![k].child = s]
        /\ UNCHANGED <<hostLock, socket, connections, hosted, broken, hostFaults>>
        /\ caller[k].at = "refused"
  BY DEF SpawnHost, Goes
<1> DEFINE r == [caller[k] EXCEPT !.child = s]
<1>2. r \in CallerRecord /\ r.at = caller[k].at /\ r.session = caller[k].session /\ r.to = caller[k].to
  BY ClientFacts DEF CallerRecord
<1>3. caller' = [caller EXCEPT ![k] = r]
  BY <1>1
<1> HIDE DEF r
<1>4. /\ caller' \in [Clients -> CallerRecord] /\ caller'[k] = r
      /\ \A l \in Clients : l # k => caller'[l] = caller[l] /\ KeepsAt(l)
  BY <1>2, <1>3, OneCaller
<1>5. KeepsAt(k)
  <2>1. Owns(k)' = Owns(k)
    BY <1>1, <1>2, <1>4 DEF Owns
  <2> QED
    BY <2>1, <1>1, <1>2, <1>4 DEF KeepsAt
<1>6. \A c \in DOMAIN connections : Moves(c)
  BY <1>1 DEF Moves
<1>7. ClientStep
  BY <1>1, <1>4, <1>5, <1>6, ClientFacts DEF ClientStep, ClientTypes
<1>8. stage'[s] = "starting" /\ stage' \in [Servers -> HostStages] /\ \A t \in Servers : t # s => stage'[t] = stage[t]
  BY <1>1, ClientFacts DEF HostStages
<1>9. ReachOK'
  <2> SUFFICES ASSUME NEW c \in DOMAIN connections
               PROVE  /\ connections[c].at \in {"pending", "served"} =>
                           connections[c].to \in Servers /\ connections[c].asks \in HostRequests
                      /\ connections[c].at = "pending" =>
                           stage'[connections[c].to] \in {"serving", "quiet", "idle", "unbound", "unlocked"}
                      /\ connections[c].at = "served" => stage'[connections[c].to] = "serving"
                      /\ connections[c].at = "answered" =>
                           connections[c].to \in Servers /\ stage'[connections[c].to] \in {"serving", "gone"}
    BY <1>1 DEF ReachOK
  <2>1. /\ connections[c].at \in {"pending", "served"} =>
             connections[c].to \in Servers /\ connections[c].asks \in HostRequests
        /\ connections[c].at = "pending" =>
             stage[connections[c].to] \in {"serving", "quiet", "idle", "unbound", "unlocked"}
        /\ connections[c].at = "served" => stage[connections[c].to] = "serving"
        /\ connections[c].at = "answered" =>
             connections[c].to \in Servers /\ stage[connections[c].to] \in {"serving", "gone"}
    BY ClientFacts DEF ReachOK
  <2>2. CASE connections[c].to = s
    BY <2>1, <2>2, <1>1
  <2>3. CASE connections[c].to # s
    BY <2>1, <2>3, <1>8
  <2> QED
    BY <2>2, <2>3
<1>10. LockOK' /\ SocketOK' /\ RetiredOK'
  BY <1>1, <1>8, ClientFacts, ServerNumbers DEF LockOK, SocketOK, RetiredOK
<1> QED
  BY <1>1, <1>7, <1>8, <1>9, <1>10, ClientFacts, ClientFrame DEF ProcessInv, ProcessTypes

\* A new connection, to the process that has the socket.
LEMMA OpenKeeps ==
  ASSUME ProcessInv, ClientInv, NEW k \in Clients, NEW asks \in HostRequests, NEW of \in Nat,
         Open(k, asks, of), Listening, of \in {0, Owns(k)}, caller[k].at # "start",
         asks = "start" => Owns(k) = 0 /\ of = 0, asks = "close" => of # 0,
         UNCHANGED <<stage, hostLock, socket, hosted, broken, hostFaults>>
  PROVE  ProcessInv' /\ ClientInv'
<1> DEFINE d == [to |-> socket, asks |-> asks, of |-> of, at |-> "pending"]
           n == Len(connections) + 1
           given == IF of = 0 THEN caller[k].session ELSE 0
           to == IF asks = "hello" THEN caller[k].to ELSE socket
           r == [caller[k] EXCEPT !.at = asks, !.on = n, !.session = given, !.to = to]
<1>1. socket \in Servers /\ stage[socket] \in {"serving", "quiet", "idle"}
  <2>1. socket \in Servers
    BY ClientFacts DEF Listening
  <2> QED
    BY <2>1, ClientFacts DEF Listening, Alive, SocketOK
<1>2. d \in Connection /\ d.to = socket /\ d.asks = asks /\ d.of = of /\ d.at = "pending"
  BY <1>1 DEF Connection
<1>3. caller[k] \in CallerRecord /\ caller[k].session \in Nat /\ caller[k].to \in Servers \cup {Nobody}
  BY ClientFacts DEF CallerRecord
<1>4. n \in Nat /\ given \in Nat /\ to \in Servers \cup {Nobody}
  BY <1>1, <1>3, ClientFacts
<1>5. /\ connections' = Append(connections, d)
      /\ caller' = [caller EXCEPT ![k].at = asks, ![k].on = n, ![k].session = given, ![k].to = to]
  BY DEF Open
<1>6. given # 0 => given = caller[k].session /\ of = 0
  OBVIOUS
<1>7. asks # "hello" => to = socket
  OBVIOUS
<1>n. asks = "hello" => to = caller[k].to
  OBVIOUS
<1>m. of = 0 => given = caller[k].session
  OBVIOUS
<1> HIDE DEF given, to, d
<1>8. r \in CallerRecord /\ r.at = asks /\ r.on = n /\ r.session = given /\ r.to = to
  BY <1>3, <1>4 DEF CallerRecord
<1>9. caller' = [caller EXCEPT ![k] = r]
  BY <1>5, <1>3, ClientFacts
<1> HIDE DEF r
<1>10. /\ caller' \in [Clients -> CallerRecord] /\ caller'[k] = r
       /\ \A l \in Clients : l # k => caller'[l] = caller[l]
  BY <1>8, <1>9, OneCaller
<1>11. /\ connections' \in Seq(Connection) /\ Len(connections') = n /\ connections'[n] = d
       /\ DOMAIN connections' = 1 .. n
       /\ \A c \in DOMAIN connections : connections'[c] = connections[c]
       /\ DOMAIN connections = 1 .. Len(connections)
  BY <1>2, <1>5, ClientFacts
<1>12. \A c \in 1 .. n : c = n \/ c \in DOMAIN connections
  BY <1>11, ClientFacts
<1> HIDE DEF n
<1>13. ReachOK'
  <2> SUFFICES ASSUME NEW c \in 1 .. n
               PROVE  /\ connections'[c].at \in {"pending", "served"} =>
                           connections'[c].to \in Servers /\ connections'[c].asks \in HostRequests
                      /\ connections'[c].at = "pending" =>
                           stage[connections'[c].to] \in {"serving", "quiet", "idle", "unbound", "unlocked"}
                      /\ connections'[c].at = "served" => stage[connections'[c].to] = "serving"
                      /\ connections'[c].at = "answered" =>
                           connections'[c].to \in Servers /\ stage[connections'[c].to] \in {"serving", "gone"}
    BY <1>11 DEF ReachOK
  <2>1. CASE c = n
    BY <2>1, <1>1, <1>2, <1>11
  <2>2. CASE c \in DOMAIN connections
    BY <2>2, <1>11, ClientFacts DEF ReachOK
  <2> QED
    BY <2>1, <2>2, <1>12
<1>14. ProcessInv'
  BY <1>13, ClientFacts DEF ProcessInv, ProcessTypes, LockOK, SocketOK, RetiredOK
<1>15. \A l \in Clients : l # k => Owns(l)' = Owns(l)
  BY <1>10 DEF Owns
<1>16. /\ Owns(k) = caller[k].session
       /\ asks = "start" => Owns(k)' = n
       /\ asks # "start" => Owns(k)' = given
  BY <1>8, <1>10 DEF Owns
<1>17. \A l \in Clients : Owns(l) \in Nat /\ Owns(l) < n
  BY ClientFacts DEF OwnersOK, n
<1>18. OwnersOK'
  <2>1. \A l \in Clients : Owns(l)' <= n
    BY <1>4, <1>6, <1>15, <1>16, <1>17
  <2>2. \A l \in Clients : l # k /\ Owns(l)' # 0 => Owns(l)' # Owns(k)'
    <3> SUFFICES ASSUME NEW l \in Clients, l # k, Owns(l)' # 0
                 PROVE  Owns(l)' # Owns(k)'
      OBVIOUS
    <3>1. Owns(l)' = Owns(l) /\ Owns(l) # Owns(k)
      BY <1>15, ClientFacts DEF OwnersOK
    <3> QED
      BY <3>1, <1>4, <1>6, <1>16, <1>17
  <2>3. \A l, m \in Clients : Owns(l)' # 0 /\ Owns(l)' = Owns(m)' => l = m
    BY <2>2, <1>15, ClientFacts DEF OwnersOK
  <2>4. ASSUME NEW c \in 1 .. n
        PROVE  /\ connections'[c].of <= n
               /\ connections'[c].of # 0 => \A l \in Clients : Owns(l)' # connections'[c].of
    <3>1. CASE c = n
      <4>1. connections'[c].of = of
        BY <3>1, <1>2, <1>11
      <4>2. of <= n
        BY <1>17, <1>4
      <4>3. of # 0 => of = Owns(k) /\ Owns(k)' = 0 /\ asks # "start"
        <5>1. of # 0 => given = 0
          BY DEF given
        <5> QED
          BY <5>1, <1>16
      <4>4. of # 0 => \A l \in Clients : l # k => Owns(l)' # of
        BY <4>3, <1>15, ClientFacts DEF OwnersOK
      <4> QED
        BY <4>1, <4>2, <4>3, <4>4
    <3>2. CASE c \in DOMAIN connections
      <4> DEFINE x == connections[c].of
      <4>1. x \in Nat /\ x <= Len(connections) /\ (x # 0 => \A l \in Clients : Owns(l) # x)
        BY <3>2, ClientFacts DEF OwnersOK, Connection
      <4>2. connections'[c].of = x
        BY <3>2, <1>11
      <4>3. x < n
        BY <4>1, ClientFacts DEF n
      <4> HIDE DEF x
      <4>4. x # 0 => \A l \in Clients : Owns(l)' # x
        BY <4>1, <4>3, <1>4, <1>6, <1>15, <1>16
      <4> QED
        BY <4>2, <4>3, <4>4, <4>1, <1>4
    <3> QED
      BY <3>1, <3>2, <1>12
  <2> QED
    BY <2>1, <2>3, <2>4, <1>11 DEF OwnersOK
<1>19. StartOK'
  <2> SUFFICES ASSUME NEW l \in Clients, caller'[l].at = "start"
               PROVE  /\ caller'[l].on \in 1 .. n
                      /\ caller'[l].to \in Servers /\ caller'[l].session = 0
                      /\ connections'[caller'[l].on].at \in {"pending", "served"} =>
                           /\ connections'[caller'[l].on].to = caller'[l].to
                           /\ connections'[caller'[l].on].asks = "start"
    BY <1>11 DEF StartOK, IsOpen
  <2>1. CASE l = k
    <3>1. asks = "start" /\ given = 0
      BY <2>1, <1>6, <1>8, <1>10, <1>16
    <3>2. n \in 1 .. n
      BY ClientFacts DEF n
    <3> QED
      BY <3>1, <3>2, <2>1, <1>1, <1>2, <1>7, <1>8, <1>10, <1>11
  <2>2. CASE l # k
    <3>1. caller'[l] = caller[l]
      BY <2>2, <1>10
    <3>2. /\ caller[l].on \in DOMAIN connections /\ caller[l].to \in Servers /\ caller[l].session = 0
          /\ connections[caller[l].on].at \in {"pending", "served"} =>
               connections[caller[l].on].to = caller[l].to /\ connections[caller[l].on].asks = "start"
      BY <3>1, ClientFacts DEF StartOK, IsOpen
    <3>3. caller[l].on \in 1 .. n
      BY <3>2, <1>11, ClientFacts DEF n
    <3> QED
      BY <3>1, <3>2, <3>3, <1>11
  <2> QED
    BY <2>1, <2>2
<1>20. HeldOK'
  <2> SUFFICES ASSUME NEW l \in Clients, Owns(l)' # 0, ~Waits(l)'
               PROVE  caller'[l].to \in Servers /\ (caller'[l].to \in broken \/ Owns(l)' \in hosted[caller'[l].to])
    BY DEF HeldOK
  <2>1. CASE l = k
    <3>1. asks # "start"
      BY <2>1, <1>2, <1>8, <1>10, <1>11 DEF Waits
    <3>2. Owns(k)' = Owns(k) /\ of = 0
      BY <3>1, <2>1, <1>6, <1>16
    <3>3. caller[k].to \in Servers /\ (caller[k].to \in broken \/ Owns(k) \in hosted[caller[k].to])
      BY <3>2, <2>1, ClientFacts DEF HeldOK, Waits
    <3>4. CASE asks = "hello"
      BY <3>2, <3>3, <3>4, <2>1, <1>8, <1>10, <1>n
    <3>5. CASE asks # "hello"
      BY <3>1, <3>2, <3>5 DEF HostRequests
    <3> QED
      BY <3>4, <3>5
  <2>2. CASE l # k
    <3>1. caller'[l] = caller[l] /\ Owns(l)' = Owns(l)
      BY <2>2, <1>10, <1>15
    <3>2. caller[l].at = "start" => caller[l].on \in DOMAIN connections
      BY ClientFacts DEF StartOK
    <3>3. ~Waits(l)
      BY <3>1, <3>2, <1>11 DEF Waits
    <3> QED
      BY <3>1, <3>3, ClientFacts DEF HeldOK
  <2> QED
    BY <2>1, <2>2
<1>21. ClientTypes'
  BY <1>10, <1>11, ClientFacts DEF ClientTypes
<1> QED
  BY <1>14, <1>18, <1>19, <1>20, <1>21 DEF ClientInv

LEMMA ConnectKeeps ==
  ASSUME ProcessInv, ClientInv, NEW k \in Clients, Connect(k)
  PROVE  ProcessInv' /\ ClientInv'
<1>1. caller[k].at # "start" /\ UNCHANGED <<stage, hostLock, socket, hosted, broken, hostFaults>>
  BY DEF Connect
<1>2. CASE Listening
  <2>1. Open(k, "hello", 0)
    BY <1>2 DEF Connect
  <2> QED
    BY <2>1, <1>1, <1>2, OpenKeeps DEF HostRequests
<1>3. CASE ~Listening
  <2>1. CallerGoes(k, "refused") /\ UNCHANGED connections
    BY <1>3 DEF Connect
  <2> QED
    BY <2>1, <1>1, ClientFacts, CallerGoesMoves, CallerStep
<1> QED
  BY <1>2, <1>3

LEMMA RequestKeeps ==
  ASSUME ProcessInv, ClientInv, NEW k \in Clients, Request(k)
  PROVE  ProcessInv' /\ ClientInv'
<1>1. caller[k].at = "ready" /\ UNCHANGED <<stage, hostLock, socket, hosted, broken, hostFaults>>
  BY DEF Request
<1>2. Owns(k) = caller[k].session /\ caller[k].session \in Nat
  BY <1>1, ClientFacts DEF Owns
<1>3. CASE ~Listening
  <2>1. Back(k, caller[k].session) /\ UNCHANGED connections
    BY <1>3 DEF Request
  <2> QED
    BY <2>1, <1>1, <1>2, ClientFacts, BackMoves, CallerStep
<1>4. CASE Listening /\ caller[k].session = 0
  <2>1. Open(k, "start", 0)
    BY <1>4 DEF Request
  <2> QED
    BY <2>1, <1>1, <1>2, <1>4, OpenKeeps DEF HostRequests
<1>5. CASE Listening /\ caller[k].session # 0
  <2>1. Open(k, "close", caller[k].session)
    BY <1>5 DEF Request
  <2> QED
    BY <2>1, <1>1, <1>2, <1>5, OpenKeeps DEF HostRequests
<1> QED
  BY <1>3, <1>4, <1>5

-----------------------------------------------------------------------------
HostsInv == ProcessInv /\ ClientInv
HostsSpec == HostsInit /\ [][HostsNext]_hostVars

LEMMA HostsBegin ==
  ASSUME HostsInit
  PROVE  HostsInv
<1>1. /\ stage \in [Servers -> HostStages] /\ hosted \in [Servers -> SUBSET Nat]
      /\ \A s \in Servers : stage[s] = "none"
      /\ hostLock = 0 /\ socket = 0 /\ connections = <<>> /\ broken = {} /\ hostFaults = 0
  BY DEF HostsInit, HostStages, Nobody
<1>2. NoCaller \in CallerRecord
  BY DEF NoCaller, CallerRecord, Nobody
<1>3. caller \in [Clients -> CallerRecord] /\ \A k \in Clients : caller[k] = NoCaller
  BY <1>2 DEF HostsInit
<1>4. \A k \in Clients : caller[k].at = "idle" /\ Owns(k) = 0
  <2>1. NoCaller.at = "idle" /\ NoCaller.session = 0
    BY DEF NoCaller
  <2> QED
    BY <2>1, <1>3 DEF Owns
<1>5. connections \in Seq(Connection) /\ Len(connections) = 0 /\ DOMAIN connections = {}
  BY <1>1
<1>6. ProcessInv
  BY <1>1, <1>5, ServerNumbers DEF ProcessInv, ProcessTypes, LockOK, SocketOK, ReachOK, RetiredOK, Nobody
<1>7. OwnersOK /\ StartOK /\ HeldOK
  BY <1>4, <1>5 DEF OwnersOK, StartOK, HeldOK
<1> QED
  BY <1>1, <1>3, <1>5, <1>6, <1>7 DEF HostsInv, ClientInv, ClientTypes

\* By the step: of a process alone, at its end, of a connection, of a caller.
LEMMA HostsStep ==
  ASSUME HostsInv, [HostsNext]_hostVars
  PROVE  HostsInv'
<1> USE DEF HostsInv
<1>1. CASE UNCHANGED hostVars
  BY <1>1 DEF hostVars, ProcessInv, ProcessTypes, LockOK, SocketOK, ReachOK, RetiredOK,
              ClientInv, ClientTypes, OwnersOK, StartOK, HeldOK, Owns, Waits, IsOpen
<1>2. ASSUME NEW s \in Servers,
             \/ TryLock(s) \/ RemoveOldSocket(s) \/ Bind(s) \/ ReadConnections(s)
             \/ (\E seen \in BOOLEAN : ReadSessions(s, seen)) \/ DropEndpoint(s) \/ DropLock(s)
      PROVE  HostsInv'
  <2>1. PICK seen \in BOOLEAN :
           \/ TryLock(s) \/ RemoveOldSocket(s) \/ Bind(s) \/ ReadConnections(s)
           \/ ReadSessions(s, seen) \/ DropEndpoint(s) \/ DropLock(s)
    BY <1>2
  <2>2. ProcessInv'
    BY <2>1, ProcessAlone
  <2>3. UNCHANGED <<connections, caller, broken, hosted, hostFaults>>
    BY <2>1 DEF TryLock, RemoveOldSocket, Bind, ReadConnections, ReadSessions, DropEndpoint, DropLock
  <2>4. ClientInv'
    BY <2>3 DEF ClientInv, ClientTypes, OwnersOK, StartOK, HeldOK, Owns, Waits, IsOpen
  <2> QED
    BY <2>2, <2>4
<1>3. ASSUME NEW s \in Servers, Exit(s) \/ RunFails(s) \/ ServerDies(s)
      PROVE  HostsInv'
  BY <1>3, EndingKeeps
<1>4. ASSUME NEW s \in Servers, NEW c \in DOMAIN connections, Accept(s, c)
      PROVE  HostsInv'
  BY <1>4, AnsweringKeeps
<1>5. ASSUME NEW c \in DOMAIN connections, Handle(c) \/ EndThread(c)
      PROVE  HostsInv'
  <2>1. \E s \in Servers : TRUE
    BY <1>5, ClientFacts DEF Handle, EndThread, ReachOK
  <2> QED
    BY <2>1, <1>5, AnsweringKeeps
<1>6. ASSUME NEW k \in Clients,
             \/ Connect(k) \/ HelloEnds(k) \/ SpawnHost(k) \/ StartupFailed(k)
             \/ StartupTimeout(k) \/ Request(k) \/ RequestEnds(k) \/ AnswerTooLate(k)
      PROVE  HostsInv'
  BY <1>6, ConnectKeeps, WaitingKeeps, SpawnKeeps, TimeoutKeeps, RequestKeeps
<1> QED
  BY <1>1, <1>2, <1>3, <1>4, <1>5, <1>6 DEF HostsNext

LEMMA HostsInvSound ==
  ASSUME HostsInv
  PROVE  HostsSound
<1>1. \A s \in Servers : stage[s] \in Accepting => hostLock = s /\ socket = s
  BY ClientFacts DEF HostsInv, LockOK, SocketOK, Accepting
<1>2. ASSUME NEW k \in Clients, caller[k].session # 0
      PROVE  caller[k].to \in broken \/ caller[k].session \in hosted[caller[k].to]
  <2>1. caller[k].at # "start" /\ Owns(k) = caller[k].session
    BY <1>2, ClientFacts DEF HostsInv, StartOK, Owns
  <2> QED
    BY <2>1, <1>2, ClientFacts DEF HostsInv, HeldOK, Waits
<1>3. ASSUME NEW s \in Servers, Alive(s), stage[s] # "serving"
      PROVE  Active(s) = {}
  BY <1>3, ClientFacts DEF HostsInv, ReachOK, Alive, Active
<1> QED
  BY <1>1, <1>2, <1>3 DEF HostsSound

LEMMA HostsHold == HostsSpec => []HostsInv
<1>1. HostsInit => HostsInv
  BY HostsBegin
<1>2. HostsInv /\ [HostsNext]_hostVars => HostsInv'
  BY HostsStep
<1> QED
  BY <1>1, <1>2, PTL DEF HostsSpec

\* The host that accepts connections holds the lock and has the socket, and none retires
\* from under a session it has started or a connection it has accepted.
THEOREM HostsAreSound == HostsSpec => []HostsSound
<1>1. HostsInv => HostsSound
  BY HostsInvSound
<1> QED
  BY <1>1, HostsHold, PTL

-----------------------------------------------------------------------------
(* TmuxTerminal.                                                           *)

Working == {"read", "resize", "keep", "load-buffer", "paste-buffer", "kill-pane", "close"}
AtCall == Starting \cup Working \cup Removing
TmuxMetadata == [size : Sizes \cup {"none"}, reader : Nat]
TmuxCall ==
  [at : {"idle"} \cup AtCall, on : Panes \cup {"none"}, meta : TmuxMetadata, size : Sizes \cup {"none"}]

TmuxTypes ==
  /\ pane \in [Panes -> {"none", "running", "dead", "gone"}]
  /\ window \in [Panes -> Sizes \cup {"none"}]
  /\ metadata \in [Panes -> TmuxMetadata] /\ log \in [Panes -> Nat]
  /\ request \in [Hosts -> TmuxCall]
  /\ \A h \in Hosts : request[h].at = "idle" <=> request[h].on = "none"

\* No other call is about the session.
Alone(h, s) == \A g \in Hosts : g # h => request[g].on # s

\* A session that is being started is known to its starter only.
BeginsOK(h) ==
  request[h].at \in Starting =>
    LET s == request[h].on IN
    /\ s \in directory /\ s \in outputs /\ metadata[s] = NoMetadata /\ request[h].size \in Sizes /\ Alone(h, s)
    /\ IF request[h].at = "create" THEN pane[s] = "none" ELSE window[s] = request[h].size /\ pane[s] # "none"

\* A call on a session that was started works with what it has loaded, which is what is
\* recorded, next to the log, unless the session was disturbed.
WorksOK(h) ==
  request[h].at \in Working =>
    LET s == request[h].on IN
    /\ request[h].meta.size \in Sizes /\ request[h].meta.reader <= log[s] /\ pane[s] # "none"
    /\ request[h].at = "resize" => request[h].size \in Sizes
    /\ s \notin disturbed =>
         /\ Alone(h, s) /\ s \in outputs /\ request[h].meta.size = window[s]
         /\ request[h].at # "keep" => request[h].meta = metadata[s]

\* A directory is removed when its session has been killed, or left, or has never been.
RemovesOK(h) ==
  request[h].at \in Removing =>
    LET s == request[h].on IN
    /\ pane[s] = "gone" \/ s \in stray \/ (pane[s] = "none" /\ Alone(h, s))
    /\ s \notin disturbed => Alone(h, s)

CallOK(h) == BeginsOK(h) /\ WorksOK(h) /\ RemovesOK(h)

\* A session in the server has been recorded, or is being started, or was left there.
PaneOK(s) ==
  /\ pane[s] \in {"running", "dead"} =>
       HasRecord(s) \/ s \in stray \/ \E h \in Hosts : request[h].at \in Starting /\ request[h].on = s
  /\ HasRecord(s) =>
       /\ s \in directory /\ pane[s] # "none" /\ metadata[s].size \in Sizes /\ metadata[s].reader <= log[s]
       /\ \/ s \in disturbed \/ metadata[s].size = window[s]
          \/ \E h \in Hosts : request[h].at = "keep" /\ request[h].on = s
       /\ \/ s \in disturbed \/ s \in outputs
          \/ \E h \in Hosts : request[h].at \in Removing /\ request[h].on = s

\* The buffers are of different texts, none of which was pasted.
PasteOK ==
  /\ buffers \in Seq(Nat) /\ pasted \in Seq({0, 1})
  /\ \A i \in DOMAIN buffers : buffers[i] \in DOMAIN pasted /\ pasted[buffers[i]] = 0
  /\ \A i, j \in DOMAIN buffers : buffers[i] = buffers[j] => i = j

CallsInv ==
  /\ TmuxTypes /\ \A h \in Hosts : CallOK(h)
  /\ \A s \in Panes : PaneOK(s)
TmuxInv == CallsInv /\ PasteOK
TmuxSpec == TmuxInit /\ [][TmuxNext]_tmuxVars

\* A step of the call of h, which is about s, and leaves what is right about s.
Elsewhere(s) ==
  \A t \in Panes : t # s =>
    /\ pane'[t] = pane[t] /\ window'[t] = window[t] /\ log'[t] = log[t] /\ metadata'[t] = metadata[t]
    /\ (t \in directory' <=> t \in directory) /\ (t \in outputs' <=> t \in outputs)
    /\ (t \in stray' <=> t \in stray) /\ (t \in disturbed' <=> t \in disturbed)
TouchesOnly(h, s) ==
  /\ request[h].on \in {s, "none"} /\ request'[h].on \in {s, "none"}
  /\ \A g \in Hosts : g # h => request'[g] = request[g]
  /\ Elsewhere(s)
Grows(s) ==
  /\ pane[s] # "none" => pane'[s] # "none"
  /\ pane[s] = "gone" => pane'[s] = "gone"
  /\ log[s] <= log'[s] /\ (s \in stray => s \in stray') /\ (s \in disturbed => s \in disturbed')
Excluded(h, s) ==
  \/ Alone(h, s)
  \/ /\ s \in disturbed' /\ (request[h].on = s \/ pane[s] # "none")
     /\ \A g \in Hosts : g # h /\ request[g].on = s => request[g].at \in Working \cup Removing
TmuxStep(h, s) ==
  /\ TmuxTypes' /\ TouchesOnly(h, s) /\ Grows(s) /\ Excluded(h, s)
  /\ PaneOK(s)' /\ CallOK(h)'

\* What another call knows of another session stays as it is.
LEMMA OthersOK ==
  ASSUME CallsInv, NEW h \in Hosts, NEW s \in Panes, TouchesOnly(h, s),
         NEW g \in Hosts, g # h, request[g].on # s
  PROVE  CallOK(g)'
<1>0. request'[g] = request[g] /\ CallOK(g) /\ request[g] \in TmuxCall
      /\ (request[g].at = "idle" <=> request[g].on = "none")
  BY DEF TouchesOnly, CallsInv, TmuxTypes
<1>1. CASE request[g].at = "idle"
  BY <1>0, <1>1 DEF CallOK, BeginsOK, WorksOK, RemovesOK, Starting, Working, Removing
<1>2. CASE request[g].at # "idle"
  <2>1. PICK t \in Panes : t = request[g].on
    BY <1>0, <1>2 DEF TmuxCall
  <2>2. /\ pane'[t] = pane[t] /\ window'[t] = window[t] /\ log'[t] = log[t] /\ metadata'[t] = metadata[t]
        /\ (t \in directory' <=> t \in directory) /\ (t \in outputs' <=> t \in outputs)
        /\ (t \in stray' <=> t \in stray) /\ (t \in disturbed' <=> t \in disturbed)
    BY <2>1 DEF TouchesOnly, Elsewhere
  <2>3. Alone(g, t) => Alone(g, t)'
    <3>1. \A e \in Hosts : e # g /\ request[e].on # t => request'[e].on # t
      BY <2>1, TmuxAssumption DEF TouchesOnly
    <3> QED
      BY <3>1 DEF Alone
  <2>4. BeginsOK(g)'
    <3>1. SUFFICES ASSUME request[g].at \in Starting
                   PROVE  BeginsOK(g)'
      BY <1>0 DEF BeginsOK
    <3>2. /\ t \in directory /\ t \in outputs /\ metadata[t] = NoMetadata /\ request[g].size \in Sizes
          /\ Alone(g, t)
          /\ IF request[g].at = "create" THEN pane[t] = "none" ELSE window[t] = request[g].size /\ pane[t] # "none"
      BY <1>0, <2>1, <3>1 DEF CallOK, BeginsOK
    <3> QED
      BY <1>0, <2>1, <2>2, <2>3, <3>1, <3>2 DEF BeginsOK
  <2>5. WorksOK(g)'
    <3>1. SUFFICES ASSUME request[g].at \in Working
                   PROVE  WorksOK(g)'
      BY <1>0 DEF WorksOK
    <3>2. /\ request[g].meta.size \in Sizes /\ request[g].meta.reader <= log[t] /\ pane[t] # "none"
          /\ request[g].at = "resize" => request[g].size \in Sizes
          /\ t \notin disturbed =>
               /\ Alone(g, t) /\ t \in outputs /\ request[g].meta.size = window[t]
               /\ request[g].at # "keep" => request[g].meta = metadata[t]
      BY <1>0, <2>1, <3>1 DEF CallOK, WorksOK
    <3> QED
      BY <1>0, <2>1, <2>2, <2>3, <3>1, <3>2 DEF WorksOK
  <2>6. RemovesOK(g)'
    <3>1. SUFFICES ASSUME request[g].at \in Removing
                   PROVE  RemovesOK(g)'
      BY <1>0 DEF RemovesOK
    <3>2. /\ pane[t] = "gone" \/ t \in stray \/ (pane[t] = "none" /\ Alone(g, t))
          /\ t \notin disturbed => Alone(g, t)
      BY <1>0, <2>1, <3>1 DEF CallOK, RemovesOK
    <3> QED
      BY <1>0, <2>1, <2>2, <2>3, <3>1, <3>2 DEF RemovesOK
  <2> QED
    BY <2>4, <2>5, <2>6 DEF CallOK
<1> QED
  BY <1>1, <1>2

\* A call beside that of h, on the same session, lives with what is left of it.
LEMMA BesideOK ==
  ASSUME CallsInv, NEW h \in Hosts, NEW s \in Panes, TmuxTypes', TouchesOnly(h, s), Grows(s), Excluded(h, s),
         NEW g \in Hosts, g # h, request[g].on = s
  PROVE  CallOK(g)'
<1>1. request'[g] = request[g] /\ ~Alone(h, s) /\ CallOK(g)
  BY DEF TouchesOnly, Alone, CallsInv
<1>2. /\ s \in disturbed' /\ request[g].at \in Working \cup Removing
      /\ request[h].on = s \/ pane[s] # "none"
  BY <1>1 DEF Excluded
<1>3. BeginsOK(g)'
  BY <1>1, <1>2 DEF BeginsOK, Starting, Working, Removing
<1>4. WorksOK(g)'
  <2>1. SUFFICES ASSUME request[g].at \in Working
                 PROVE  WorksOK(g)'
    BY <1>1 DEF WorksOK
  <2>2. /\ request[g].meta.size \in Sizes /\ request[g].meta.reader <= log[s] /\ pane[s] # "none"
        /\ request[g].at = "resize" => request[g].size \in Sizes
    BY <1>1, <2>1 DEF CallOK, WorksOK
  <2>3. request[g].meta.reader \in Nat /\ log[s] \in Nat /\ log'[s] \in Nat
    BY DEF CallsInv, TmuxTypes, TmuxCall, TmuxMetadata
  <2>4. request[g].meta.reader <= log'[s]
    BY <2>2, <2>3 DEF Grows
  <2> QED
    BY <1>1, <1>2, <2>2, <2>4 DEF WorksOK, Grows
<1>5. RemovesOK(g)'
  <2>1. SUFFICES ASSUME request[g].at \in Removing
                 PROVE  RemovesOK(g)'
    BY <1>1 DEF RemovesOK
  <2>2. request[h].on = s => ~Alone(g, s)
    BY DEF Alone
  <2>3. pane[s] = "gone" \/ s \in stray \/ (pane[s] = "none" /\ Alone(g, s))
    BY <1>1, <2>1 DEF CallOK, RemovesOK
  <2> QED
    BY <1>1, <1>2, <2>1, <2>2, <2>3 DEF RemovesOK, Grows
<1> QED
  BY <1>3, <1>4, <1>5 DEF CallOK

LEMMA TmuxFrame ==
  ASSUME CallsInv, NEW h \in Hosts, NEW s \in Panes, TmuxStep(h, s)
  PROVE  CallsInv'
<1>1. /\ TmuxTypes /\ TmuxTypes' /\ TouchesOnly(h, s) /\ Grows(s) /\ Excluded(h, s)
      /\ PaneOK(s)' /\ CallOK(h)'
  BY DEF CallsInv, TmuxStep
<1>2. ASSUME NEW t \in Panes, t # s
      PROVE  PaneOK(t)'
  <2>1. \A g \in Hosts : request[g].on = t => g # h /\ request'[g] = request[g]
    BY <1>1, <1>2, TmuxAssumption DEF TouchesOnly
  <2>2. ASSUME NEW Stages, \E g \in Hosts : request[g].at \in Stages /\ request[g].on = t
        PROVE  \E g \in Hosts : request'[g].at \in Stages /\ request'[g].on = t
    BY <2>1, <2>2
  <2>3. (\E g \in Hosts : request[g].at = "keep" /\ request[g].on = t)
          => \E g \in Hosts : request'[g].at = "keep" /\ request'[g].on = t
    BY <2>1
  <2>4. /\ pane'[t] = pane[t] /\ window'[t] = window[t] /\ log'[t] = log[t] /\ metadata'[t] = metadata[t]
        /\ (t \in directory' <=> t \in directory) /\ (t \in outputs' <=> t \in outputs)
        /\ (t \in stray' <=> t \in stray) /\ (t \in disturbed' <=> t \in disturbed)
    BY <1>1, <1>2 DEF TouchesOnly, Elsewhere
  <2>5. PaneOK(t)
    BY DEF CallsInv
  <2>6. /\ (\E g \in Hosts : request[g].at \in Starting /\ request[g].on = t)
             => \E g \in Hosts : request'[g].at \in Starting /\ request'[g].on = t
        /\ (\E g \in Hosts : request[g].at \in Removing /\ request[g].on = t)
             => \E g \in Hosts : request'[g].at \in Removing /\ request'[g].on = t
    BY <2>2
  <2> QED
    BY <2>3, <2>4, <2>5, <2>6 DEF PaneOK, HasRecord
<1>3. ASSUME NEW g \in Hosts
      PROVE  CallOK(g)'
  BY <1>1, OthersOK, BesideOK
<1> QED
  BY <1>1, <1>2, <1>3 DEF CallsInv

-----------------------------------------------------------------------------
\* What is known of a call that is under way.
SessionTyped(s) ==
  /\ pane \in [Panes -> {"none", "running", "dead", "gone"}] /\ window \in [Panes -> Sizes \cup {"none"}]
  /\ metadata \in [Panes -> TmuxMetadata] /\ log \in [Panes -> Nat] /\ s \in Panes /\ PaneOK(s)
CallKnown(h, s) ==
  /\ SessionTyped(s) /\ request[h].on = s /\ request[h].at \in AtCall /\ CallOK(h)
  /\ request[h].size \in Sizes \cup {"none"} /\ request[h].meta \in TmuxMetadata
  /\ s \in disturbed' => Excluded(h, s)
  /\ s \notin disturbed => Alone(h, s)
  /\ request[h].at \in Starting => Alone(h, s)

LEMMA CallFacts ==
  ASSUME CallsInv, NEW h \in Hosts, request[h].at # "idle"
  PROVE  CallKnown(h, request[h].on)
<1> DEFINE s == request[h].on
<1>1. TmuxTypes /\ CallOK(h) /\ request[h] \in TmuxCall
  BY DEF CallsInv, TmuxTypes
<1>2. s \in Panes /\ PaneOK(s)
  BY <1>1 DEF CallsInv, TmuxTypes, TmuxCall
<1>3. request[h].at \in AtCall /\ request[h].size \in Sizes \cup {"none"} /\ request[h].meta \in TmuxMetadata
  BY <1>1 DEF TmuxCall
<1>4. /\ s \notin disturbed => Alone(h, s)
      /\ request[h].at \in Starting => Alone(h, s)
  BY <1>1, <1>3 DEF CallOK, BeginsOK, WorksOK, RemovesOK, AtCall
<1>5. \A g \in Hosts : g # h /\ request[g].on = s => request[g].at \in Working \cup Removing
  <2> SUFFICES ASSUME NEW g \in Hosts, g # h, request[g].on = s
               PROVE  request[g].at \in Working \cup Removing
    OBVIOUS
  <2>1. request[g].at \in Starting => Alone(g, s)
    BY DEF CallsInv, CallOK, BeginsOK
  <2>2. request[g].at \in AtCall
    BY <1>1, <1>2, TmuxAssumption DEF TmuxTypes, TmuxCall
  <2> QED
    BY <2>1, <2>2 DEF Alone, AtCall
<1>6. s \in disturbed' => Excluded(h, s)
  BY <1>5 DEF Excluded
<1>7. SessionTyped(s)
  BY <1>1, <1>2 DEF SessionTyped, TmuxTypes
<1> QED
  BY <1>1, <1>3, <1>4, <1>6, <1>7 DEF CallKnown

RequestIs(h, at) ==
  /\ request' \in [Hosts -> TmuxCall]
  /\ \A g \in Hosts : request'[g].at = "idle" <=> request'[g].on = "none"
  /\ \A g \in Hosts : g # h => request'[g] = request[g]
  /\ request'[h].at = at
RequestSame(h) == request'[h].on = request[h].on /\ request'[h].size = request[h].size

LEMMA RequestBecomes ==
  ASSUME CallsInv, NEW h \in Hosts, NEW r \in TmuxCall, request' = [request EXCEPT ![h] = r],
         r.at = "idle" <=> r.on = "none"
  PROVE  RequestIs(h, r.at) /\ request'[h] = r
<1>1. /\ request \in [Hosts -> TmuxCall]
      /\ \A g \in Hosts : request[g].at = "idle" <=> request[g].on = "none"
  BY DEF CallsInv, TmuxTypes
<1> QED
  BY <1>1 DEF RequestIs

LEMMA RequestGoes ==
  ASSUME CallsInv, NEW h \in Hosts, NEW at \in AtCall, request[h].at # "idle", GoesTo(h, at)
  PROVE  RequestIs(h, at) /\ RequestSame(h) /\ request'[h].meta = request[h].meta
<1>1. request[h] \in TmuxCall /\ request[h].on # "none"
  BY DEF CallsInv, TmuxTypes
<1>2. PICK r : r = [request[h] EXCEPT !.at = at]
  OBVIOUS
<1>3. /\ r \in TmuxCall /\ r.at = at /\ r.on = request[h].on /\ r.meta = request[h].meta
      /\ r.size = request[h].size
  BY <1>1, <1>2 DEF TmuxCall
<1>4. request' = [request EXCEPT ![h] = r]
  BY <1>2 DEF GoesTo
<1>5. at # "idle"
  BY DEF AtCall, Starting, Working, Removing
<1>6. RequestIs(h, r.at) /\ request'[h] = r
  BY <1>1, <1>3, <1>4, <1>5, RequestBecomes
<1> QED
  BY <1>3, <1>6 DEF RequestSame

LEMMA CallKeeps ==
  ASSUME CallsInv, NEW h \in Hosts, NEW m \in TmuxMetadata, request[h].at # "idle", Keeps(h, m)
  PROVE  RequestIs(h, "keep") /\ RequestSame(h) /\ request'[h].meta = m
<1>1. request[h] \in TmuxCall /\ request[h].on # "none" /\ request \in [Hosts -> TmuxCall]
  BY DEF CallsInv, TmuxTypes
<1>2. PICK r : r = [request[h] EXCEPT !.at = "keep", !.meta = m]
  OBVIOUS
<1>3. /\ r \in TmuxCall /\ r.at = "keep" /\ r.on = request[h].on /\ r.meta = m
      /\ r.size = request[h].size
  BY <1>1, <1>2 DEF TmuxCall, AtCall, Working
<1>4. request' = [request EXCEPT ![h] = r]
  BY <1>1, <1>2 DEF Keeps
<1>5. RequestIs(h, r.at) /\ request'[h] = r
  BY <1>1, <1>3, <1>4, RequestBecomes
<1> QED
  BY <1>3, <1>5 DEF RequestSame

LEMMA RequestOver ==
  ASSUME CallsInv, NEW h \in Hosts, Ends(h)
  PROVE  RequestIs(h, "idle") /\ request'[h].on = "none"
<1>1. PICK r : r = NoCall
  OBVIOUS
<1>2. r \in TmuxCall /\ r.at = "idle" /\ r.on = "none"
  BY <1>1 DEF NoCall, TmuxCall, NoMetadata, TmuxMetadata
<1>3. request' = [request EXCEPT ![h] = r]
  BY <1>1 DEF Ends
<1>4. RequestIs(h, r.at) /\ request'[h] = r
  BY <1>2, <1>3, RequestBecomes
<1> QED
  BY <1>2, <1>4

\* A call that has ended has nothing to keep to.
LEMMA EndedOK ==
  ASSUME NEW h \in Hosts, RequestIs(h, "idle")
  PROVE  CallOK(h)'
BY DEF RequestIs, CallOK, BeginsOK, WorksOK, RemovesOK, Starting, Working, Removing

\* The types, from those of the parts.
LEMMA TmuxTypesNext ==
  ASSUME NEW h \in Hosts, NEW at, RequestIs(h, at),
         pane' \in [Panes -> {"none", "running", "dead", "gone"}], window' \in [Panes -> Sizes \cup {"none"}],
         metadata' \in [Panes -> TmuxMetadata], log' \in [Panes -> Nat]
  PROVE  TmuxTypes'
BY DEF TmuxTypes, RequestIs

\* Whoever was at work on a session, beside h, still is.
LEMMA OthersStay ==
  ASSUME NEW h \in Hosts, NEW at, RequestIs(h, at), NEW s, NEW Stages, NEW g \in Hosts, g # h,
         request[g].at \in Stages, request[g].on = s
  PROVE  \E e \in Hosts : request'[e].at \in Stages /\ request'[e].on = s
BY DEF RequestIs

\* Alone, a call stays alone.
LEMMA StaysAlone ==
  ASSUME NEW h \in Hosts, NEW at, RequestIs(h, at), NEW s, Alone(h, s)
  PROVE  Alone(h, s)'
BY DEF RequestIs, Alone

-----------------------------------------------------------------------------
\* start_tmux, up to the metadata or to the kill.
LEMMA BeginsGoOn ==
  ASSUME CallsInv, NEW h \in Hosts,
         NewSession(h) \/ SetOption(h) \/ PipePane(h) \/ SendCommand(h) \/ ConfigureFails(h)
  PROVE  CallsInv'
<1>0. PICK to \in {"set-option", "pipe-pane", "send-keys", "write", "undo"} : GoesTo(h, to)
  BY DEF NewSession, SetOption, PipePane, SendCommand, ConfigureFails
<1>1. request[h].at \in Starting
  BY DEF NewSession, SetOption, PipePane, SendCommand, ConfigureFails, ConfigureRefused, Doing, Starting
<1>2. PICK s \in Panes : CallKnown(h, s)
  BY <1>1, CallFacts DEF CallKnown, SessionTyped, Starting
<1>3. RequestIs(h, to) /\ RequestSame(h) /\ to \in Starting
  BY <1>0, <1>1, RequestGoes DEF AtCall, Starting
<1>t. /\ pane \in [Panes -> {"none", "running", "dead", "gone"}] /\ window \in [Panes -> Sizes \cup {"none"}]
      /\ metadata \in [Panes -> TmuxMetadata] /\ log \in [Panes -> Nat] /\ request[h].on = s
  BY <1>2 DEF CallKnown, SessionTyped
<1>4. /\ UNCHANGED <<metadata, log, directory, outputs, stray, disturbed>>
      /\ \/ /\ pane' = [pane EXCEPT ![s] = "running"] /\ window' = [window EXCEPT ![s] = request[h].size]
            /\ request[h].at = "create"
         \/ pane' = pane /\ window' = window /\ request[h].at # "create"
  <2>1. CASE NewSession(h)
    BY <2>1, <1>t DEF NewSession, recordVars, countVars, Here, Doing
  <2>2. CASE SetOption(h) \/ PipePane(h) \/ SendCommand(h)
    BY <2>2 DEF SetOption, PipePane, SendCommand, recordVars, countVars, serverVars, Doing
  <2>3. CASE ConfigureFails(h)
    BY <2>3 DEF ConfigureFails, ConfigureRefused, recordVars, serverVars
  <2> QED
    BY <2>1, <2>2, <2>3
<1>5. /\ s \in directory /\ s \in outputs /\ metadata[s] = NoMetadata /\ request[h].size \in Sizes /\ Alone(h, s)
      /\ IF request[h].at = "create" THEN pane[s] = "none" ELSE window[s] = request[h].size /\ pane[s] # "none"
  BY <1>1, <1>2 DEF CallKnown, CallOK, BeginsOK
<1>6. /\ pane' \in [Panes -> {"none", "running", "dead", "gone"}]
      /\ window' \in [Panes -> Sizes \cup {"none"}] /\ log' = log /\ metadata' = metadata
      /\ \A t \in Panes : t # s => pane'[t] = pane[t] /\ window'[t] = window[t]
      /\ window'[s] = request[h].size /\ pane'[s] # "none" /\ (pane'[s] = pane[s] \/ pane[s] = "none")
  <2>2. CASE /\ pane' = [pane EXCEPT ![s] = "running"] /\ window' = [window EXCEPT ![s] = request[h].size]
             /\ request[h].at = "create"
    <3>1. /\ pane' \in [Panes -> {"none", "running", "dead", "gone"}] /\ pane'[s] = "running"
          /\ \A t \in Panes : t # s => pane'[t] = pane[t]
      BY <1>t, <2>2
    <3>2. /\ window' \in [Panes -> Sizes \cup {"none"}] /\ window'[s] = request[h].size
          /\ \A t \in Panes : t # s => window'[t] = window[t]
      BY <1>t, <2>2, <1>5
    <3>3. pane'[s] = pane[s] \/ pane[s] = "none"
      BY <1>5, <2>2
    <3> QED
      BY <1>4, <3>1, <3>2, <3>3
  <2>3. CASE pane' = pane /\ window' = window /\ request[h].at # "create"
    BY <1>t, <2>3, <1>4, <1>5
  <2> QED
    BY <2>2, <2>3, <1>4
<1>7. TmuxTypes'
  BY <1>3, <1>6, <1>t, TmuxTypesNext
<1>8. TouchesOnly(h, s)
  BY <1>3, <1>4, <1>6, <1>t DEF RequestIs, RequestSame, TouchesOnly, Elsewhere
<1>9. Grows(s)
  <2>1. log[s] <= log'[s]
    BY <1>t, <1>4
  <2> QED
    BY <2>1, <1>4, <1>6 DEF Grows
<1>10. PaneOK(s)'
  BY <1>3, <1>4, <1>5, <1>t DEF PaneOK, HasRecord, RequestIs, RequestSame
<1>11. BeginsOK(h)'
  <2>1. Alone(h, s)'
    BY <1>3, <1>5, StaysAlone
  <2>2. to # "create"
    BY <1>0
  <2> QED
    BY <2>1, <2>2, <1>3, <1>4, <1>5, <1>6, <1>t DEF BeginsOK, RequestIs, RequestSame
<1>12. WorksOK(h)' /\ RemovesOK(h)'
  BY <1>3 DEF WorksOK, RemovesOK, RequestIs, Working, Removing, Starting
<1> QED
  BY <1>5, <1>7, <1>8, <1>9, <1>10, <1>11, <1>12, TmuxFrame DEF TmuxStep, Excluded, CallOK

\* The metadata of a new session.
LEMMA BeginsEnd ==
  ASSUME CallsInv, NEW h \in Hosts, WriteNew(h)
  PROVE  CallsInv'
<1>1. request[h].at = "write" /\ Ends(h) /\ request[h].at \in Starting
  BY DEF WriteNew, Doing, Starting
<1>2. PICK s \in Panes : CallKnown(h, s)
  BY <1>1, CallFacts DEF CallKnown, SessionTyped
<1>3. RequestIs(h, "idle") /\ request'[h].on = "none"
  BY <1>1, RequestOver
<1>t. /\ pane \in [Panes -> {"none", "running", "dead", "gone"}] /\ window \in [Panes -> Sizes \cup {"none"}]
      /\ metadata \in [Panes -> TmuxMetadata] /\ log \in [Panes -> Nat] /\ request[h].on = s
  BY <1>2 DEF CallKnown, SessionTyped
<1>5. /\ s \in directory /\ s \in outputs /\ metadata[s] = NoMetadata /\ request[h].size \in Sizes /\ Alone(h, s)
      /\ window[s] = request[h].size /\ pane[s] # "none"
  BY <1>1, <1>2, <1>t DEF CallKnown, CallOK, BeginsOK
<1>6. PICK m : m = [size |-> request[h].size, reader |-> 0]
  OBVIOUS
<1>7. m \in TmuxMetadata /\ m.size = request[h].size /\ m.reader = 0 /\ m # NoMetadata
  <2>1. m.size # "none"
    BY <1>5, <1>6, TmuxAssumption
  <2> QED
    BY <1>5, <1>6, <2>1 DEF TmuxMetadata, NoMetadata
<1>8. /\ UNCHANGED <<pane, window, log, directory, outputs, stray, disturbed>>
      /\ metadata' = [metadata EXCEPT ![s] = m]
  BY <1>6, <1>t DEF WriteNew, serverVars, countVars, Here
<1>9. metadata' \in [Panes -> TmuxMetadata] /\ metadata'[s] = m /\ \A t \in Panes : t # s => metadata'[t] = metadata[t]
  BY <1>7, <1>8, <1>t
<1>10. TmuxTypes'
  BY <1>3, <1>8, <1>9, <1>t, TmuxTypesNext
<1>11. TouchesOnly(h, s)
  BY <1>3, <1>8, <1>9, <1>t DEF RequestIs, TouchesOnly, Elsewhere
<1>12. Grows(s)
  BY <1>8, <1>t DEF Grows
<1>13. PaneOK(s)'
  <2>1. m.reader <= log'[s]
    BY <1>7, <1>8, <1>t
  <2> QED
    BY <2>1, <1>5, <1>7, <1>8, <1>9 DEF PaneOK, HasRecord
<1> QED
  BY <1>3, <1>5, <1>10, <1>11, <1>12, <1>13, EndedOK, TmuxFrame DEF TmuxStep, Excluded

\* A call that ends without recording anything, or whose process dies.
GivesUp(h) ==
  \/ Ends(h) /\ NewSessionFails(h)
  \/ WriteNewFails(h) \/ CallFails(h) \/ PasteBuffer(h) \/ KillPane(h) \/ RemovalFails(h) \/ HostDies(h)

LEMMA CallsEnd ==
  ASSUME CallsInv, NEW h \in Hosts, GivesUp(h)
  PROVE  CallsInv'
<1>1. request[h].at # "idle" /\ Ends(h)
  BY DEF GivesUp, NewSessionFails, WriteNewFails, CallFails, PasteBuffer, KillPane, RemovalFails, HostDies, Doing,
         Removing
<1>2. PICK s \in Panes : CallKnown(h, s)
  BY <1>1, CallFacts DEF CallKnown, SessionTyped
<1>3. RequestIs(h, "idle") /\ request'[h].on = "none"
  BY <1>1, RequestOver
<1>t. /\ pane \in [Panes -> {"none", "running", "dead", "gone"}] /\ window \in [Panes -> Sizes \cup {"none"}]
      /\ metadata \in [Panes -> TmuxMetadata] /\ log \in [Panes -> Nat] /\ request[h].on = s
  BY <1>2 DEF CallKnown, SessionTyped
<1> DEFINE Quietly == request[h].at \notin Starting \ {"create"}
<1>4. /\ UNCHANGED <<window, log, metadata, directory, outputs>>
      /\ \/ pane' = pane
         \/ pane' = [pane EXCEPT ![s] = IF @ = "none" THEN "none" ELSE "gone"]
      /\ disturbed' = disturbed \/ disturbed' = disturbed \cup {s}
      /\ (stray' = stray /\ Quietly) \/ stray' = stray \cup {s}
      /\ request[h].at = "keep" \/ request[h].at \in Removing => s \in disturbed'
  <2>1. CASE Ends(h) /\ NewSessionFails(h)
    BY <2>1 DEF NewSessionFails, serverVars, recordVars, Doing, Removing
  <2>2. CASE WriteNewFails(h)
    BY <2>2, <1>t DEF WriteNewFails, serverVars, recordVars, Doing, Here, Removing
  <2>3. CASE CallFails(h)
    BY <2>3, <1>t DEF CallFails, serverVars, recordVars, Doing, Here, Removing, Starting
  <2>4. CASE PasteBuffer(h)
    BY <2>4 DEF PasteBuffer, recordVars, countVars, Doing, Removing, Starting
  <2>5. CASE KillPane(h)
    BY <2>5, <1>t DEF KillPane, recordVars, countVars, Doing, Kill, Here, Removing, Starting
  <2>6. CASE RemovalFails(h)
    BY <2>6, <1>t DEF RemovalFails, recordVars, serverVars, Here, Removing, Starting
  <2>7. CASE HostDies(h)
    <3>1. UNCHANGED <<window, log, metadata, directory, outputs, pane>> /\ disturbed' = disturbed \cup {s}
      BY <2>7, <1>t DEF HostDies, serverVars, recordVars, Here
    <3>2. (stray' = stray /\ Quietly) \/ stray' = stray \cup {s}
      BY <2>7, <1>t DEF HostDies, Here, Starting
    <3> QED
      BY <3>1, <3>2
  <2> QED
    BY <2>1, <2>2, <2>3, <2>4, <2>5, <2>6, <2>7 DEF GivesUp
<1>5. /\ pane' \in [Panes -> {"none", "running", "dead", "gone"}]
      /\ \A t \in Panes : t # s => pane'[t] = pane[t]
      /\ pane'[s] = pane[s] \/ (pane'[s] = "gone" /\ pane[s] # "none")
  <2>1. CASE pane' = pane
    BY <2>1, <1>t
  <2>2. CASE pane' = [pane EXCEPT ![s] = IF @ = "none" THEN "none" ELSE "gone"]
    BY <2>2, <1>t
  <2> QED
    BY <2>1, <2>2, <1>4
<1>6. TmuxTypes'
  BY <1>3, <1>4, <1>5, <1>t, TmuxTypesNext
<1>7. TouchesOnly(h, s)
  <2>1. \A t \in Panes : t # s => (t \in stray' <=> t \in stray) /\ (t \in disturbed' <=> t \in disturbed)
    BY <1>4
  <2> QED
    BY <2>1, <1>3, <1>4, <1>5, <1>t DEF TouchesOnly, Elsewhere, RequestIs
<1>8. Grows(s)
  BY <1>4, <1>5, <1>t DEF Grows
<1>9. PaneOK(s)'
  <2>0. PaneOK(s) /\ CallOK(h)
    BY <1>2 DEF CallKnown, SessionTyped
  <2>1. /\ s \in stray => s \in stray'
        /\ s \in disturbed => s \in disturbed'
        /\ HasRecord(s)' <=> HasRecord(s)
    BY <1>4 DEF HasRecord
  <2>2. ASSUME pane'[s] \in {"running", "dead"}
        PROVE  HasRecord(s)' \/ s \in stray' \/ \E g \in Hosts : request'[g].at \in Starting /\ request'[g].on = s
    <3>1. pane[s] = pane'[s]
      BY <1>5, <2>2
    <3>2. CASE HasRecord(s) \/ s \in stray
      BY <3>2, <2>1
    <3>3. CASE \E g \in Hosts : request[g].at \in Starting /\ request[g].on = s
      <4>1. PICK g \in Hosts : request[g].at \in Starting /\ request[g].on = s
        BY <3>3
      <4>2. CASE g = h
        <5>1. request[h].at # "create"
          BY <4>1, <4>2, <2>0, <1>t, <3>1, <2>2 DEF CallOK, BeginsOK
        <5> QED
          BY <5>1, <4>1, <4>2, <1>4
      <4>3. CASE g # h
        BY <4>1, <4>3, <1>3, OthersStay
      <4> QED
        BY <4>2, <4>3
    <3> QED
      BY <2>0, <2>2, <3>1, <3>2, <3>3 DEF PaneOK
  <2>3. ASSUME HasRecord(s)'
        PROVE  /\ s \in directory' /\ pane'[s] # "none" /\ metadata'[s].size \in Sizes
               /\ metadata'[s].reader <= log'[s]
    BY <2>0, <2>1, <2>3, <1>4, <1>5 DEF PaneOK
  <2>4. ASSUME HasRecord(s)', s \notin disturbed'
        PROVE  /\ metadata'[s].size = window'[s] \/ \E g \in Hosts : request'[g].at = "keep" /\ request'[g].on = s
               /\ s \in outputs' \/ \E g \in Hosts : request'[g].at \in Removing /\ request'[g].on = s
    <3>1. /\ metadata[s].size = window[s] \/ \E g \in Hosts : request[g].at = "keep" /\ request[g].on = s
          /\ s \in outputs \/ \E g \in Hosts : request[g].at \in Removing /\ request[g].on = s
      BY <2>0, <2>1, <2>4 DEF PaneOK
    <3>2. \A g \in Hosts : request[g].at = "keep" \/ request[g].at \in Removing => g # h
      BY <1>4, <2>4
    <3> QED
      BY <3>1, <3>2, <1>3, <1>4 DEF RequestIs
  <2> QED
    BY <2>2, <2>3, <2>4 DEF PaneOK
<1>10. Excluded(h, s)
  BY <1>2, <1>4 DEF CallKnown, Excluded
<1> QED
  BY <1>3, <1>6, <1>7, <1>8, <1>9, <1>10, EndedOK, TmuxFrame DEF TmuxStep

\* A call that records what it has loaded and changed.
LEMMA CallsRecord ==
  ASSUME CallsInv, NEW h \in Hosts, Remember(h)
  PROVE  CallsInv'
<1>1. request[h].at = "keep" /\ Ends(h) /\ request[h].at \in Working
  BY DEF Remember, Doing, Working
<1>2. PICK s \in Panes : CallKnown(h, s)
  BY <1>1, CallFacts DEF CallKnown, SessionTyped
<1>3. RequestIs(h, "idle") /\ request'[h].on = "none"
  BY <1>1, RequestOver
<1>t. /\ pane \in [Panes -> {"none", "running", "dead", "gone"}] /\ window \in [Panes -> Sizes \cup {"none"}]
      /\ metadata \in [Panes -> TmuxMetadata] /\ log \in [Panes -> Nat] /\ request[h].on = s
      /\ request[h].meta \in TmuxMetadata
  BY <1>2 DEF CallKnown, SessionTyped
<1>4. PICK m \in TmuxMetadata : m = request[h].meta
  BY <1>t
<1>w. /\ m.size \in Sizes /\ m.reader <= log[s] /\ pane[s] # "none"
      /\ s \notin disturbed => s \in outputs /\ m.size = window[s]
  BY <1>1, <1>2, <1>4, <1>t DEF CallKnown, CallOK, WorksOK
<1>5. /\ s \in directory /\ UNCHANGED <<pane, window, log, directory, outputs, stray, disturbed>>
      /\ metadata' = [metadata EXCEPT ![s] = m]
  BY <1>4, <1>t DEF Remember, Here, serverVars, countVars
<1>6. /\ metadata' \in [Panes -> TmuxMetadata] /\ metadata'[s] = m
      /\ \A t \in Panes : t # s => metadata'[t] = metadata[t]
  BY <1>5, <1>t
<1>7. TmuxTypes'
  BY <1>3, <1>5, <1>6, <1>t, TmuxTypesNext
<1>8. TouchesOnly(h, s)
  BY <1>3, <1>5, <1>6, <1>t DEF TouchesOnly, Elsewhere, RequestIs
<1>9. Grows(s)
  BY <1>5, <1>t DEF Grows
<1>10. PaneOK(s)'
  <2>1. m # NoMetadata
    BY <1>w, TmuxAssumption DEF NoMetadata
  <2> QED
    BY <1>5, <1>6, <1>w, <2>1 DEF PaneOK, HasRecord
<1>11. Excluded(h, s)
  BY <1>2, <1>5 DEF CallKnown, Excluded
<1> QED
  BY <1>3, <1>7, <1>8, <1>9, <1>10, <1>11, EndedOK, TmuxFrame DEF TmuxStep

\* A call that goes on with what the log or the window was by then.
LEMMA CallsGoOn ==
  ASSUME CallsInv, NEW h \in Hosts, ReadLog(h) \/ ResizeWindow(h) \/ LoadBuffer(h)
  PROVE  CallsInv'
<1>1. request[h].at \in {"read", "resize", "load-buffer"} /\ request[h].at \in Working /\ request[h].at # "idle"
  BY DEF ReadLog, ResizeWindow, ResizeTo, LoadBuffer, Doing, Working
<1>2. PICK s \in Panes : CallKnown(h, s)
  BY <1>1, CallFacts DEF CallKnown, SessionTyped
<1>t. /\ pane \in [Panes -> {"none", "running", "dead", "gone"}] /\ window \in [Panes -> Sizes \cup {"none"}]
      /\ metadata \in [Panes -> TmuxMetadata] /\ log \in [Panes -> Nat] /\ request[h].on = s
      /\ request[h].meta \in TmuxMetadata /\ log[s] \in Nat
  BY <1>2 DEF CallKnown, SessionTyped
<1>w. /\ request[h].meta.size \in Sizes /\ request[h].meta.reader <= log[s] /\ pane[s] # "none"
      /\ request[h].at = "resize" => request[h].size \in Sizes
      /\ s \notin disturbed =>
           Alone(h, s) /\ s \in outputs /\ request[h].meta.size = window[s] /\ request[h].meta = metadata[s]
  BY <1>1, <1>2, <1>t DEF CallKnown, CallOK, WorksOK
<1>4. /\ UNCHANGED <<pane, log, metadata, directory, outputs, stray, disturbed>>
      /\ \/ window' = window \/ (window' = [window EXCEPT ![s] = request[h].size] /\ request[h].at = "resize")
  <2>1. CASE ReadLog(h)
    BY <2>1 DEF ReadLog, serverVars, recordVars, countVars
  <2>2. CASE ResizeWindow(h)
    BY <2>2, <1>t DEF ResizeWindow, ResizeTo, recordVars, countVars, Doing, Here
  <2>3. CASE LoadBuffer(h)
    BY <2>3 DEF LoadBuffer, recordVars, countVars
  <2> QED
    BY <2>1, <2>2, <2>3
<1>5. /\ window' \in [Panes -> Sizes \cup {"none"}] /\ \A t \in Panes : t # s => window'[t] = window[t]
  BY <1>4, <1>t, <1>w
<1>6. PICK to \in {"keep", "paste-buffer"}, m \in TmuxMetadata :
        /\ RequestIs(h, to) /\ RequestSame(h) /\ request'[h].meta = m
        /\ m.size \in Sizes /\ m.reader <= log[s]
        /\ (request[h].meta.size = window[s] => m.size = window'[s])
        /\ (to # "keep" => m = request[h].meta /\ window' = window)
  <2>1. CASE ReadLog(h)
    <3>1. PICK end \in 0 .. log[s] : Keeps(h, [request[h].meta EXCEPT !.reader = end])
      BY <2>1, <1>t DEF ReadLog, Here
    <3>2. PICK m : m = [request[h].meta EXCEPT !.reader = end]
      OBVIOUS
    <3>3. m \in TmuxMetadata /\ m.size = request[h].meta.size /\ m.reader <= log[s]
      BY <3>1, <3>2, <1>t DEF TmuxMetadata
    <3>4. RequestIs(h, "keep") /\ RequestSame(h) /\ request'[h].meta = m
      BY <3>1, <3>2, <3>3, <1>1, CallKeeps
    <3>5. window' = window
      BY <2>1 DEF ReadLog, serverVars
    <3> QED
      BY <3>3, <3>4, <3>5, <1>w
  <2>2. CASE ResizeWindow(h)
    <3>1. PICK m : m = [request[h].meta EXCEPT !.size = request[h].size]
      OBVIOUS
    <3>2. /\ Keeps(h, m) /\ request[h].at = "resize" /\ window' = [window EXCEPT ![s] = request[h].size]
      BY <2>2, <3>1, <1>t DEF ResizeWindow, ResizeTo, Doing, Here
    <3>3. m \in TmuxMetadata /\ m.size = request[h].size /\ m.reader = request[h].meta.reader
      BY <3>1, <3>2, <1>t, <1>w DEF TmuxMetadata
    <3>4. RequestIs(h, "keep") /\ RequestSame(h) /\ request'[h].meta = m
      BY <3>2, <3>3, <1>1, CallKeeps
    <3>5. window'[s] = request[h].size
      BY <3>2, <1>t
    <3> QED
      BY <3>2, <3>3, <3>4, <3>5, <1>w
  <2>3. CASE LoadBuffer(h)
    <3>1. GoesTo(h, "paste-buffer") /\ window' = window
      BY <2>3 DEF LoadBuffer
    <3>2. RequestIs(h, "paste-buffer") /\ RequestSame(h) /\ request'[h].meta = request[h].meta
      BY <3>1, <1>1, RequestGoes DEF AtCall, Working
    <3> QED
      BY <3>1, <3>2, <1>t, <1>w
  <2> QED
    BY <2>1, <2>2, <2>3
<1>7. TmuxTypes'
  BY <1>4, <1>5, <1>6, <1>t, TmuxTypesNext
<1>8. TouchesOnly(h, s)
  BY <1>4, <1>5, <1>6, <1>t DEF TouchesOnly, Elsewhere, RequestIs, RequestSame
<1>9. Grows(s)
  BY <1>4, <1>t DEF Grows
<1>10. PaneOK(s)'
  <2>0. PaneOK(s)
    BY <1>2 DEF CallKnown, SessionTyped
  <2>1. HasRecord(s)' <=> HasRecord(s)
    BY <1>4 DEF HasRecord
  <2>2. \A g \in Hosts : request[g].at \in Starting \/ request[g].at \in Removing \/ request[g].at = "keep"
          => request'[g] = request[g]
    BY <1>1, <1>6 DEF RequestIs, Starting, Removing
  <2>3. ASSUME pane'[s] \in {"running", "dead"}
        PROVE  HasRecord(s)' \/ s \in stray' \/ \E g \in Hosts : request'[g].at \in Starting /\ request'[g].on = s
    BY <2>0, <2>1, <2>2, <2>3, <1>4 DEF PaneOK
  <2>4. ASSUME HasRecord(s)', s \notin disturbed'
        PROVE  metadata'[s].size = window'[s] \/ \E g \in Hosts : request'[g].at = "keep" /\ request'[g].on = s
    <3>1. CASE to = "keep"
      BY <3>1, <1>6, <1>t DEF RequestIs, RequestSame
    <3>2. CASE to # "keep"
      BY <3>2, <2>4, <1>4, <1>6, <1>w
    <3> QED
      BY <3>1, <3>2
  <2> QED
    BY <2>0, <2>1, <2>2, <2>3, <2>4, <1>4 DEF PaneOK
<1>11. WorksOK(h)'
  <2>1. s \notin disturbed => Alone(h, s)'
    BY <1>6, <1>w, StaysAlone
  <2> QED
    BY <2>1, <1>4, <1>6, <1>t, <1>w DEF WorksOK, RequestIs, RequestSame
<1>12. BeginsOK(h)' /\ RemovesOK(h)'
  BY <1>6 DEF BeginsOK, RemovesOK, RequestIs, Starting, Removing
<1>13. Excluded(h, s)
  BY <1>2, <1>4 DEF CallKnown, Excluded
<1> QED
  BY <1>7, <1>8, <1>9, <1>10, <1>11, <1>12, <1>13, TmuxFrame DEF TmuxStep, CallOK

\* The session is killed, or left in the server, or was not started; its directory is next.
TurnsToRemoving(h) ==
  \/ GoesTo(h, "remove") /\ NewSessionFails(h)
  \/ KillSession(h) \/ KillFails(h)

LEMMA CallsKill ==
  ASSUME CallsInv, NEW h \in Hosts, TurnsToRemoving(h)
  PROVE  CallsInv'
<1>1. request[h].at \in {"create", "close", "undo"} /\ GoesTo(h, "remove") /\ request[h].at # "idle"
  BY DEF TurnsToRemoving, NewSessionFails, KillSession, KillFails, Doing
<1>2. PICK s \in Panes : CallKnown(h, s)
  BY <1>1, CallFacts DEF CallKnown, SessionTyped
<1>3. RequestIs(h, "remove") /\ RequestSame(h)
  BY <1>1, RequestGoes DEF AtCall, Removing
<1>t. /\ pane \in [Panes -> {"none", "running", "dead", "gone"}] /\ window \in [Panes -> Sizes \cup {"none"}]
      /\ metadata \in [Panes -> TmuxMetadata] /\ log \in [Panes -> Nat] /\ request[h].on = s
      /\ CallOK(h) /\ PaneOK(s) /\ (s \notin disturbed => Alone(h, s))
  BY <1>2 DEF CallKnown, SessionTyped
<1>w. IF request[h].at = "create" THEN pane[s] = "none" /\ Alone(h, s) ELSE pane[s] # "none"
  BY <1>1, <1>t DEF CallOK, BeginsOK, WorksOK, Starting, Working
<1>4. /\ UNCHANGED <<window, log, metadata, directory, outputs, disturbed>>
      /\ \/ pane' = pane /\ stray' = stray /\ request[h].at = "create"
         \/ /\ pane' = [pane EXCEPT ![s] = IF @ = "none" THEN "none" ELSE "gone"] /\ stray' = stray
            /\ request[h].at # "create"
         \/ pane' = pane /\ stray' = stray \cup {s}
  <2>1. CASE GoesTo(h, "remove") /\ NewSessionFails(h)
    BY <2>1 DEF NewSessionFails, serverVars, recordVars, Doing
  <2>2. CASE KillSession(h)
    BY <2>2, <1>t DEF KillSession, recordVars, countVars, Kill, Here
  <2>3. CASE KillFails(h)
    BY <2>3, <1>t DEF KillFails, recordVars, serverVars, Here
  <2> QED
    BY <2>1, <2>2, <2>3 DEF TurnsToRemoving
<1>5. /\ pane' \in [Panes -> {"none", "running", "dead", "gone"}]
      /\ \A t \in Panes : t # s => pane'[t] = pane[t]
      /\ stray' = stray \/ stray' = stray \cup {s}
      /\ \/ pane'[s] = "gone" /\ pane[s] # "none"
         \/ pane'[s] = pane[s] /\ s \in stray'
         \/ pane'[s] = "none" /\ pane[s] = "none" /\ Alone(h, s)
  <2>1. CASE pane' = pane /\ stray' = stray /\ request[h].at = "create"
    BY <2>1, <1>t, <1>w
  <2>2. CASE /\ pane' = [pane EXCEPT ![s] = IF @ = "none" THEN "none" ELSE "gone"] /\ stray' = stray
             /\ request[h].at # "create"
    BY <2>2, <1>t, <1>w
  <2>3. CASE pane' = pane /\ stray' = stray \cup {s}
    BY <2>3, <1>t
  <2> QED
    BY <2>1, <2>2, <2>3, <1>4
<1>6. TmuxTypes'
  BY <1>3, <1>4, <1>5, <1>t, TmuxTypesNext
<1>7. TouchesOnly(h, s)
  <2>1. \A t \in Panes : t # s => (t \in stray' <=> t \in stray)
    BY <1>5
  <2> QED
    BY <2>1, <1>3, <1>4, <1>5, <1>t DEF TouchesOnly, Elsewhere, RequestIs, RequestSame
<1>8. Grows(s)
  BY <1>4, <1>5, <1>t DEF Grows
<1>9. PaneOK(s)'
  <2>1. HasRecord(s)' <=> HasRecord(s)
    BY <1>4 DEF HasRecord
  <2>2. \A g \in Hosts : request[g].at \in Removing \/ request[g].at = "keep" => request'[g] = request[g]
    BY <1>1, <1>3 DEF RequestIs, Removing
  <2>3. pane'[s] \in {"running", "dead"} => s \in stray'
    BY <1>5
  <2>4. HasRecord(s) => pane'[s] # "none"
    BY <1>5, <1>t DEF PaneOK
  <2> QED
    BY <2>1, <2>2, <2>3, <2>4, <1>4, <1>t DEF PaneOK
<1>10. RemovesOK(h)'
  <2>1. Alone(h, s) => Alone(h, s)'
    BY <1>3, StaysAlone
  <2>2. /\ pane'[s] = "gone" \/ s \in stray' \/ (pane'[s] = "none" /\ Alone(h, s)')
        /\ s \notin disturbed' => Alone(h, s)'
    BY <2>1, <1>4, <1>5, <1>t
  <2> QED
    BY <2>2, <1>3, <1>t DEF RemovesOK, RequestIs, RequestSame
<1>11. BeginsOK(h)' /\ WorksOK(h)'
  BY <1>3 DEF BeginsOK, WorksOK, RequestIs, Starting, Working
<1>12. Excluded(h, s)
  BY <1>2, <1>4 DEF CallKnown, Excluded
<1> QED
  BY <1>6, <1>7, <1>8, <1>9, <1>10, <1>11, <1>12, TmuxFrame DEF TmuxStep, CallOK

\* A file of the directory is unlinked, or the directory.
Removes(h) == UnlinkRecord(h) \/ UnlinkLog(h) \/ RemoveDirectory(h)

LEMMA CallsRemove ==
  ASSUME CallsInv, NEW h \in Hosts, Removes(h)
  PROVE  CallsInv'
<1>1. request[h].at \in Removing /\ request[h].at # "idle"
  BY DEF Removes, UnlinkRecord, UnlinkLog, RemoveDirectory, Doing, Removing
<1>2. PICK s \in Panes : CallKnown(h, s)
  BY <1>1, CallFacts DEF CallKnown, SessionTyped
<1>t. /\ pane \in [Panes -> {"none", "running", "dead", "gone"}] /\ window \in [Panes -> Sizes \cup {"none"}]
      /\ metadata \in [Panes -> TmuxMetadata] /\ log \in [Panes -> Nat] /\ request[h].on = s
      /\ CallOK(h) /\ PaneOK(s) /\ (s \notin disturbed => Alone(h, s))
  BY <1>2 DEF CallKnown, SessionTyped
<1>w. /\ pane[s] = "gone" \/ s \in stray \/ (pane[s] = "none" /\ Alone(h, s))
      /\ s \notin disturbed => Alone(h, s)
  BY <1>1, <1>t DEF CallOK, RemovesOK
<1>3. PICK to \in Removing \cup {"idle"} :
        /\ RequestIs(h, to)
        /\ IF to = "idle" THEN request'[h].on = "none" /\ s \notin outputs /\ ~HasRecord(s)
           ELSE request'[h].on = s /\ UNCHANGED directory
  <2>1. CASE UnlinkRecord(h) \/ UnlinkLog(h)
    <3>1. PICK to \in Removing : GoesTo(h, to)
      BY <2>1 DEF UnlinkRecord, UnlinkLog, Removing
    <3>2. RequestIs(h, to) /\ RequestSame(h)
      BY <3>1, <1>1, RequestGoes DEF AtCall
    <3>3. UNCHANGED directory /\ to # "idle"
      BY <2>1 DEF UnlinkRecord, UnlinkLog, Removing
    <3> QED
      BY <3>2, <3>3, <1>t DEF RequestSame
  <2>2. CASE RemoveDirectory(h)
    <3>1. Ends(h) /\ ~HasRecord(s) /\ s \notin outputs
      BY <2>2, <1>t DEF RemoveDirectory, Here
    <3>2. RequestIs(h, "idle") /\ request'[h].on = "none"
      BY <3>1, RequestOver
    <3> QED
      BY <3>1, <3>2
  <2> QED
    BY <2>1, <2>2 DEF Removes
<1>4. /\ UNCHANGED <<pane, window, log, stray, disturbed>>
      /\ metadata' = metadata \/ metadata' = [metadata EXCEPT ![s] = NoMetadata]
      /\ directory' = directory \/ directory' = directory \ {s}
      /\ outputs' = outputs \/ outputs' = outputs \ {s}
  <2>1. CASE UnlinkRecord(h)
    BY <2>1, <1>t DEF UnlinkRecord, serverVars, countVars, Here
  <2>2. CASE UnlinkLog(h)
    BY <2>2, <1>t DEF UnlinkLog, serverVars, countVars, Here
  <2>3. CASE RemoveDirectory(h)
    BY <2>3, <1>t DEF RemoveDirectory, serverVars, countVars, Here
  <2> QED
    BY <2>1, <2>2, <2>3 DEF Removes
<1>5. NoMetadata \in TmuxMetadata
  BY DEF NoMetadata, TmuxMetadata
<1>6. /\ metadata' \in [Panes -> TmuxMetadata] /\ metadata'[s] \in {metadata[s], NoMetadata}
      /\ \A t \in Panes : t # s => metadata'[t] = metadata[t]
  <2> HIDE DEF NoMetadata
  <2> QED
    BY <1>4, <1>5, <1>t
<1>7. TmuxTypes'
  BY <1>3, <1>4, <1>6, <1>t, TmuxTypesNext
<1>8. TouchesOnly(h, s)
  <2>1. \A t \in Panes : t # s => (t \in directory' <=> t \in directory) /\ (t \in outputs' <=> t \in outputs)
    BY <1>4
  <2>2. request'[h].on \in {s, "none"}
    BY <1>3
  <2> QED
    BY <2>1, <2>2, <1>3, <1>4, <1>6, <1>t DEF TouchesOnly, Elsewhere, RequestIs
<1>9. Grows(s)
  BY <1>4, <1>t DEF Grows
<1>10. PaneOK(s)'
  <2>1. HasRecord(s)' => HasRecord(s) /\ metadata'[s] = metadata[s]
    BY <1>6 DEF HasRecord
  <2>2. pane'[s] \in {"running", "dead"} => s \in stray'
    BY <1>4, <1>w
  <2>3. ASSUME HasRecord(s)'
        PROVE  to # "idle" /\ s \in directory' /\ request'[h].at \in Removing /\ request'[h].on = s
    BY <2>1, <2>3, <1>3, <1>t DEF PaneOK, RequestIs
  <2>4. (\E g \in Hosts : request[g].at = "keep" /\ request[g].on = s)
          => \E g \in Hosts : request'[g].at = "keep" /\ request'[g].on = s
    BY <1>1, <1>3 DEF RequestIs, Removing
  <2> QED
    BY <2>1, <2>2, <2>3, <2>4, <1>4, <1>t DEF PaneOK
<1>11. RemovesOK(h)'
  <2>1. Alone(h, s) => Alone(h, s)'
    BY <1>3, StaysAlone
  <2>2. CASE to = "idle"
    BY <2>2, <1>3 DEF RemovesOK, RequestIs, Removing
  <2>3. CASE to # "idle"
    BY <2>1, <2>3, <1>3, <1>4, <1>w DEF RemovesOK, RequestIs
  <2> QED
    BY <2>2, <2>3
<1>12. BeginsOK(h)' /\ WorksOK(h)'
  BY <1>3 DEF BeginsOK, WorksOK, RequestIs, Starting, Working, Removing
<1>13. Excluded(h, s)
  BY <1>2, <1>4 DEF CallKnown, Excluded
<1> QED
  BY <1>7, <1>8, <1>9, <1>10, <1>11, <1>12, <1>13, TmuxFrame DEF TmuxStep, CallOK

\* The beginning of a call.
Calls == {"read", "resize", "load-buffer", "kill-pane", "close"}

LEMMA RequestBegins ==
  ASSUME CallsInv, NEW h \in Hosts, NEW s \in Panes, NEW size \in Sizes \cup {"none"}, NEW m \in TmuxMetadata,
         NEW at \in {"create"} \cup Calls,
         request' = [request EXCEPT ![h] = [at |-> at, on |-> s, meta |-> m, size |-> size]]
  PROVE  RequestIs(h, at) /\ request'[h].on = s /\ request'[h].meta = m /\ request'[h].size = size
<1>1. PICK r : r = [at |-> at, on |-> s, meta |-> m, size |-> size]
  OBVIOUS
<1>2. at \in AtCall /\ at # "idle" /\ s # "none"
  BY TmuxAssumption DEF AtCall, Starting, Working, Calls
<1>3. r \in TmuxCall /\ r.at = at /\ r.on = s /\ r.meta = m /\ r.size = size
  BY <1>1, <1>2 DEF TmuxCall
<1>4. request' = [request EXCEPT ![h] = r]
  BY <1>1
<1>5. RequestIs(h, r.at) /\ request'[h] = r
  BY <1>2, <1>3, <1>4, RequestBecomes
<1> QED
  BY <1>3, <1>5

LEMMA SessionsBegin ==
  ASSUME CallsInv, NEW h \in Hosts, NEW s \in Panes, NEW size \in Sizes, CreateDirectory(h, s, size)
  PROVE  CallsInv'
<1>t. /\ pane \in [Panes -> {"none", "running", "dead", "gone"}] /\ window \in [Panes -> Sizes \cup {"none"}]
      /\ metadata \in [Panes -> TmuxMetadata] /\ log \in [Panes -> Nat] /\ request[h].on = "none"
      /\ PaneOK(s) /\ NoMetadata \in TmuxMetadata
  BY DEF CallsInv, TmuxTypes, NoMetadata, TmuxMetadata, CreateDirectory, Doing
<1>1. RequestIs(h, "create") /\ request'[h].on = s /\ request'[h].size = size
  BY <1>t, RequestBegins DEF CreateDirectory
<1>2. /\ pane[s] = "none" /\ s \notin directory /\ Alone(h, s)
      /\ directory' = directory \cup {s} /\ outputs' = outputs \cup {s}
      /\ UNCHANGED <<pane, window, log, metadata, stray, disturbed>>
  BY DEF CreateDirectory, serverVars, Alone, Here
<1>3. metadata[s] = NoMetadata
  BY <1>2, <1>t DEF PaneOK, HasRecord
<1>4. TmuxTypes'
  BY <1>1, <1>2, <1>t, TmuxTypesNext
<1>5. TouchesOnly(h, s)
  BY <1>1, <1>2, <1>t DEF TouchesOnly, Elsewhere, RequestIs
<1>6. Grows(s)
  BY <1>2, <1>t DEF Grows
<1>7. PaneOK(s)'
  BY <1>2, <1>3 DEF PaneOK, HasRecord
<1>8. BeginsOK(h)'
  <2>1. Alone(h, s)'
    BY <1>1, <1>2, StaysAlone
  <2> QED
    BY <2>1, <1>1, <1>2, <1>3 DEF BeginsOK, RequestIs
<1>9. WorksOK(h)' /\ RemovesOK(h)'
  BY <1>1 DEF WorksOK, RemovesOK, RequestIs, Working, Removing
<1> QED
  BY <1>2, <1>4, <1>5, <1>6, <1>7, <1>8, <1>9, TmuxFrame DEF TmuxStep, Excluded, CallOK

LEMMA CallsBegin ==
  ASSUME CallsInv, NEW h \in Hosts, NEW s \in Panes, NEW size \in Sizes \cup {"none"},
         NEW kind \in Calls, kind = "resize" => size \in Sizes, Load(h, s, kind, size)
  PROVE  CallsInv'
<1>t. /\ pane \in [Panes -> {"none", "running", "dead", "gone"}] /\ window \in [Panes -> Sizes \cup {"none"}]
      /\ metadata \in [Panes -> TmuxMetadata] /\ log \in [Panes -> Nat] /\ request[h].on = "none"
      /\ PaneOK(s) /\ metadata[s] \in TmuxMetadata /\ request \in [Hosts -> TmuxCall]
  BY DEF CallsInv, TmuxTypes, Load, Doing
<1>1. RequestIs(h, kind) /\ request'[h].on = s /\ request'[h].meta = metadata[s] /\ request'[h].size = size
  BY <1>t, RequestBegins DEF Load
<1>2. /\ UNCHANGED <<pane, window, log, metadata, directory, outputs, stray>> /\ HasRecord(s)
      /\ disturbed' = IF \E g \in Hosts : request[g].on = s THEN disturbed \cup {s} ELSE disturbed
  BY DEF Load, serverVars, recordVars, Here
<1>3. /\ s \in disturbed => s \in disturbed'
      /\ \A t \in Panes : t # s => (t \in disturbed' <=> t \in disturbed)
      /\ s \notin disturbed' => s \notin disturbed /\ \A g \in Hosts : request[g].on # s
  BY <1>2
<1>4. TmuxTypes'
  BY <1>1, <1>2, <1>t, TmuxTypesNext
<1>5. TouchesOnly(h, s)
  BY <1>1, <1>2, <1>3, <1>t DEF TouchesOnly, Elsewhere, RequestIs
<1>6. Grows(s)
  BY <1>2, <1>3, <1>t DEF Grows
<1>7. /\ s \in directory /\ pane[s] # "none" /\ metadata[s].size \in Sizes /\ metadata[s].reader <= log[s]
      /\ s \notin disturbed' => metadata[s].size = window[s] /\ s \in outputs
  BY <1>2, <1>3, <1>t DEF PaneOK
<1>8. PaneOK(s)'
  BY <1>2, <1>7 DEF PaneOK, HasRecord
<1>9. Excluded(h, s)
  <2>1. ASSUME NEW g \in Hosts, g # h, request[g].on = s
        PROVE  request[g].at \in Working \cup Removing
    <3>1. request[g].at \in AtCall
      BY <2>1, TmuxAssumption DEF CallsInv, TmuxTypes, TmuxCall
    <3>2. request[g].at \in Starting => metadata[s] = NoMetadata
      BY <2>1 DEF CallsInv, CallOK, BeginsOK
    <3> QED
      BY <3>1, <3>2, <1>2 DEF HasRecord, AtCall
  <2> QED
    BY <2>1, <1>3, <1>7 DEF Excluded, Alone
<1>10. WorksOK(h)'
  <2>1. s \notin disturbed' => Alone(h, s)'
    <3>1. s \notin disturbed' => Alone(h, s)
      BY <1>3 DEF Alone
    <3> QED
      BY <3>1, <1>1, StaysAlone
  <2>2. kind # "keep"
    BY DEF Calls
  <2> QED
    BY <2>1, <2>2, <1>1, <1>2, <1>7 DEF WorksOK, RequestIs
<1>11. BeginsOK(h)' /\ RemovesOK(h)'
  BY <1>1 DEF BeginsOK, RemovesOK, RequestIs, Starting, Removing, Calls
<1> QED
  BY <1>4, <1>5, <1>6, <1>8, <1>9, <1>10, <1>11, TmuxFrame DEF TmuxStep, CallOK

-----------------------------------------------------------------------------
\* The shell.
LEMMA PanesMove ==
  ASSUME CallsInv, NEW s \in Panes, PaneWrites(s) \/ PaneEnds(s)
  PROVE  CallsInv'
<1>t. /\ pane \in [Panes -> {"none", "running", "dead", "gone"}] /\ log \in [Panes -> Nat] /\ TmuxTypes
  BY DEF CallsInv, TmuxTypes
<1>1. /\ UNCHANGED <<window, metadata, directory, outputs, stray, disturbed, request>> /\ pane[s] = "running"
      /\ \/ pane' = pane /\ log' = [log EXCEPT ![s] = @ + 1]
         \/ pane' = [pane EXCEPT ![s] = IF s \in remains THEN "dead" ELSE "gone"] /\ log' = log
  BY DEF PaneWrites, PaneEnds, recordVars, countVars
<1>2. /\ pane' \in [Panes -> {"none", "running", "dead", "gone"}] /\ log' \in [Panes -> Nat]
      /\ \A t \in Panes : /\ log[t] <= log'[t] /\ (pane'[t] = "none" <=> pane[t] = "none")
                          /\ (pane[t] = "gone" => pane'[t] = "gone")
                          /\ (pane'[t] \in {"running", "dead"} => pane[t] \in {"running", "dead"})
  <2>1. CASE pane' = pane /\ log' = [log EXCEPT ![s] = @ + 1]
    BY <2>1, <1>t
  <2>2. CASE pane' = [pane EXCEPT ![s] = IF s \in remains THEN "dead" ELSE "gone"] /\ log' = log
    BY <2>2, <1>1, <1>t
  <2> QED
    BY <2>1, <2>2, <1>1
<1>3. \A t \in Panes : \A m \in TmuxMetadata : m.reader <= log[t] => m.reader <= log'[t]
  BY <1>2, <1>t DEF TmuxMetadata
<1>4. TmuxTypes'
  BY <1>1, <1>2, <1>t DEF TmuxTypes
<1>5. ASSUME NEW h \in Hosts
      PROVE  CallOK(h)'
  <2>1. CallOK(h) /\ request' = request
    BY <1>1 DEF CallsInv
  <2>2. CASE request[h].at = "idle"
    BY <2>1, <2>2 DEF CallOK, BeginsOK, WorksOK, RemovesOK, Starting, Working, Removing
  <2>3. CASE request[h].at # "idle"
    <3>1. PICK t \in Panes : t = request[h].on /\ request[h].meta \in TmuxMetadata
      BY <2>3, CallFacts DEF CallKnown, SessionTyped
    <3>2. BeginsOK(h)'
      BY <2>1, <3>1, <1>1, <1>2 DEF CallOK, BeginsOK, Alone
    <3>3. WorksOK(h)'
      BY <2>1, <3>1, <1>1, <1>2, <1>3 DEF CallOK, WorksOK, Alone
    <3>4. RemovesOK(h)'
      BY <2>1, <3>1, <1>1, <1>2 DEF CallOK, RemovesOK, Alone
    <3> QED
      BY <3>2, <3>3, <3>4 DEF CallOK
  <2> QED
    BY <2>2, <2>3
<1>6. ASSUME NEW t \in Panes
      PROVE  PaneOK(t)'
  <2>1. PaneOK(t) /\ metadata[t] \in TmuxMetadata
    BY <1>t DEF CallsInv, TmuxTypes
  <2> QED
    BY <2>1, <1>1, <1>2, <1>3 DEF PaneOK, HasRecord
<1> QED
  BY <1>4, <1>5, <1>6 DEF CallsInv

\* What nothing of this depends on.
LEMMA CallsUnmoved ==
  ASSUME CallsInv, UNCHANGED <<pane, window, directory, metadata, outputs, log, request, stray, disturbed>>
  PROVE  CallsInv'
BY DEF CallsInv, TmuxTypes, CallOK, BeginsOK, WorksOK, RemovesOK, PaneOK, Alone, HasRecord

\* The paste buffers.
LEMMA LoadPastes ==
  ASSUME PasteOK, NEW h \in Hosts, LoadBuffer(h)
  PROVE  PasteOK'
<1> DEFINE n == Len(pasted) + 1
<1>1. buffers \in Seq(Nat) /\ pasted \in Seq({0, 1}) /\ n \in Nat /\ Len(buffers) \in Nat
  BY DEF PasteOK
<1>2. buffers' = <<n>> \o buffers /\ pasted' = Append(pasted, 0)
  BY DEF LoadBuffer
<1>3. /\ pasted' \in Seq({0, 1}) /\ DOMAIN pasted' = 1 .. n /\ pasted'[n] = 0
      /\ \A x \in DOMAIN pasted : pasted'[x] = pasted[x] /\ x \in 1 .. n /\ x # n
  BY <1>1, <1>2
<1>4. /\ buffers' \in Seq(Nat) /\ Len(buffers') = Len(buffers) + 1 /\ buffers'[1] = n
      /\ \A i \in 2 .. Len(buffers) + 1 : buffers'[i] = buffers[i - 1] /\ i - 1 \in DOMAIN buffers
  BY <1>1, <1>2
<1>5. DOMAIN buffers' = 1 .. Len(buffers) + 1 /\ \A i \in 1 .. Len(buffers) + 1 : i = 1 \/ i \in 2 .. Len(buffers) + 1
  BY <1>1, <1>4
<1>n. n \in 1 .. n
  BY <1>1
<1> HIDE DEF n
<1>6. \A i \in DOMAIN buffers' : buffers'[i] \in DOMAIN pasted' /\ pasted'[buffers'[i]] = 0
  <2> SUFFICES ASSUME NEW i \in 1 .. Len(buffers) + 1
               PROVE  buffers'[i] \in 1 .. n /\ pasted'[buffers'[i]] = 0
    BY <1>3, <1>5
  <2>1. CASE i = 1
    BY <2>1, <1>3, <1>4, <1>n
  <2>2. CASE i \in 2 .. Len(buffers) + 1
    <3>1. buffers'[i] = buffers[i - 1] /\ i - 1 \in DOMAIN buffers
      BY <2>2, <1>4
    <3>2. buffers[i - 1] \in DOMAIN pasted /\ pasted[buffers[i - 1]] = 0
      BY <3>1 DEF PasteOK
    <3> QED
      BY <3>1, <3>2, <1>3
  <2> QED
    BY <2>1, <2>2, <1>5
<1>7. \A i \in 2 .. Len(buffers) + 1 : buffers'[i] # n
  BY <1>3, <1>4 DEF PasteOK
<1>8. ASSUME NEW i \in DOMAIN buffers', NEW j \in DOMAIN buffers', buffers'[i] = buffers'[j]
      PROVE  i = j
  <2>1. CASE i = 1 \/ j = 1
    BY <2>1, <1>4, <1>5, <1>7, <1>8
  <2>2. CASE i # 1 /\ j # 1
    <3>1. i \in 2 .. Len(buffers) + 1 /\ j \in 2 .. Len(buffers) + 1
      BY <2>2, <1>5
    <3>2. i - 1 = j - 1
      BY <3>1, <1>4, <1>8 DEF PasteOK
    <3> QED
      BY <3>1, <3>2
  <2> QED
    BY <2>1, <2>2
<1> QED
  BY <1>3, <1>4, <1>6, <1>8 DEF PasteOK

LEMMA PastePastes ==
  ASSUME PasteOK, NEW h \in Hosts, PasteBuffer(h)
  PROVE  PasteOK'
<1> DEFINE x == Head(buffers)
<1>1. buffers \in Seq(Nat) /\ pasted \in Seq({0, 1}) /\ buffers # <<>> /\ Len(buffers) \in Nat
  BY DEF PasteOK, PasteBuffer, Paste
<1>2. buffers' = Tail(buffers) /\ pasted' = [pasted EXCEPT ![x] = @ + 1]
  BY DEF PasteBuffer, Paste
<1>3. 1 \in DOMAIN buffers /\ x = buffers[1]
  BY <1>1
<1>4. x \in DOMAIN pasted /\ pasted[x] = 0
  BY <1>3 DEF PasteOK
<1>5. /\ buffers' \in Seq(Nat) /\ Len(buffers') = Len(buffers) - 1
      /\ \A i \in DOMAIN buffers' : buffers'[i] = buffers[i + 1] /\ i + 1 \in DOMAIN buffers /\ i + 1 # 1 /\ i \in Nat
  BY <1>1, <1>2
<1> HIDE DEF x
<1>6. /\ pasted' \in Seq({0, 1}) /\ DOMAIN pasted' = DOMAIN pasted
      /\ \A y \in DOMAIN pasted : y # x => pasted'[y] = pasted[y]
  <2>1. pasted' = [pasted EXCEPT ![x] = 1]
    BY <1>2, <1>4
  <2> QED
    BY <2>1, <1>1, <1>4
<1>7. \A i \in DOMAIN buffers' : buffers[i + 1] # x /\ buffers[i + 1] \in DOMAIN pasted /\ pasted[buffers[i + 1]] = 0
  BY <1>3, <1>5 DEF PasteOK
<1>8. \A i \in DOMAIN buffers' : buffers'[i] \in DOMAIN pasted' /\ pasted'[buffers'[i]] = 0
  BY <1>5, <1>6, <1>7
<1>9. ASSUME NEW i \in DOMAIN buffers', NEW j \in DOMAIN buffers', buffers'[i] = buffers'[j]
      PROVE  i = j
  <2>1. i + 1 = j + 1
    BY <1>5, <1>9 DEF PasteOK
  <2> QED
    BY <2>1, <1>5
<1> QED
  BY <1>5, <1>6, <1>8, <1>9 DEF PasteOK

LEMMA TmuxBegins ==
  ASSUME TmuxInit
  PROVE  TmuxInv
<1>1. NoMetadata \in TmuxMetadata /\ NoCall \in TmuxCall /\ NoCall.at = "idle" /\ NoCall.on = "none"
  BY DEF NoMetadata, TmuxMetadata, NoCall, TmuxCall
<1>2. /\ pane \in [Panes -> {"none", "running", "dead", "gone"}] /\ window \in [Panes -> Sizes \cup {"none"}]
      /\ log \in [Panes -> Nat] /\ \A s \in Panes : pane[s] = "none"
      /\ metadata \in [Panes -> TmuxMetadata] /\ \A s \in Panes : metadata[s] = NoMetadata
      /\ request \in [Hosts -> TmuxCall] /\ \A h \in Hosts : request[h] = NoCall
  <2> HIDE DEF NoMetadata, NoCall
  <2> QED
    BY <1>1 DEF TmuxInit
<1>3. TmuxTypes
  BY <1>1, <1>2 DEF TmuxTypes
<1>4. \A h \in Hosts : CallOK(h)
  BY <1>1, <1>2 DEF CallOK, BeginsOK, WorksOK, RemovesOK, Starting, Working, Removing
<1>5. \A s \in Panes : PaneOK(s)
  BY <1>2 DEF PaneOK, HasRecord
<1>6. PasteOK
  BY DEF TmuxInit, PasteOK
<1> QED
  BY <1>3, <1>4, <1>5, <1>6 DEF TmuxInv, CallsInv

\* By the step.
LEMMA TmuxSteps ==
  ASSUME TmuxInv, [TmuxNext]_tmuxVars
  PROVE  TmuxInv'
<1>0. CallsInv /\ PasteOK
  BY DEF TmuxInv
<1>1. CASE UNCHANGED tmuxVars
  BY <1>0, <1>1, CallsUnmoved DEF TmuxInv, tmuxVars, PasteOK
<1>2. ASSUME NEW h \in Hosts,
             \/ NewSession(h) \/ NewSessionFails(h) \/ SetOption(h) \/ PipePane(h) \/ SendCommand(h)
             \/ ConfigureFails(h) \/ WriteNew(h) \/ WriteNewFails(h) \/ CallFails(h)
             \/ ReadLog(h) \/ ResizeWindow(h) \/ Remember(h) \/ KillPane(h)
             \/ KillSession(h) \/ KillFails(h) \/ Removes(h) \/ RemovalFails(h) \/ HostDies(h)
      PROVE  TmuxInv'
  <2>0. NewSessionFails(h) => Ends(h) \/ GoesTo(h, "remove")
    BY DEF NewSessionFails
  <2>1. CallsInv'
    BY <1>0, <1>2, <2>0, BeginsGoOn, BeginsEnd, CallsEnd, CallsRecord, CallsGoOn, CallsKill, CallsRemove
       DEF GivesUp, TurnsToRemoving
  <2>2. UNCHANGED <<buffers, pasted>>
    <3>1. CASE NewSession(h) \/ NewSessionFails(h) \/ SetOption(h) \/ PipePane(h) \/ SendCommand(h)
      BY <3>1 DEF NewSession, NewSessionFails, SetOption, PipePane, SendCommand, serverVars
    <3>2. CASE ConfigureFails(h) \/ WriteNew(h) \/ WriteNewFails(h) \/ CallFails(h)
      BY <3>2 DEF ConfigureFails, ConfigureRefused, WriteNew, WriteNewFails, CallFails, serverVars
    <3>3. CASE ReadLog(h) \/ ResizeWindow(h) \/ Remember(h) \/ KillPane(h)
      BY <3>3 DEF ReadLog, ResizeWindow, ResizeTo, Remember, KillPane, serverVars
    <3>4. CASE KillSession(h) \/ KillFails(h) \/ RemovalFails(h) \/ HostDies(h)
      BY <3>4 DEF KillSession, KillFails, RemovalFails, HostDies, serverVars
    <3>5. CASE Removes(h)
      BY <3>5 DEF Removes, UnlinkRecord, UnlinkLog, RemoveDirectory, serverVars
    <3> QED
      BY <3>1, <3>2, <3>3, <3>4, <3>5, <1>2
  <2> QED
    BY <1>0, <2>1, <2>2 DEF TmuxInv, PasteOK
<1>3. ASSUME NEW h \in Hosts, LoadBuffer(h) \/ PasteBuffer(h)
      PROVE  TmuxInv'
  BY <1>0, <1>3, LoadPastes, PastePastes, CallsGoOn, CallsEnd DEF TmuxInv, GivesUp
<1>4. ASSUME NEW h \in Hosts, NEW s \in Panes,
             \/ \E size \in Sizes : CreateDirectory(h, s, size) \/ Load(h, s, "resize", size)
             \/ \E kind \in {"read", "load-buffer", "kill-pane", "close"} : Load(h, s, kind, "none")
      PROVE  TmuxInv'
  <2>1. CallsInv'
    <3>1. CASE \E size \in Sizes : CreateDirectory(h, s, size)
      BY <1>0, <3>1, SessionsBegin
    <3>2. CASE \E size \in Sizes : Load(h, s, "resize", size)
      BY <1>0, <3>2, CallsBegin DEF Calls
    <3>3. CASE \E kind \in {"read", "load-buffer", "kill-pane", "close"} : Load(h, s, kind, "none")
      BY <1>0, <3>3, CallsBegin DEF Calls
    <3> QED
      BY <3>1, <3>2, <3>3, <1>4
  <2>2. UNCHANGED <<buffers, pasted>>
    BY <1>4 DEF CreateDirectory, Load, serverVars
  <2> QED
    BY <1>0, <2>1, <2>2 DEF TmuxInv, PasteOK
<1>5. ASSUME NEW s \in Panes, PaneWrites(s) \/ PaneEnds(s)
      PROVE  TmuxInv'
  <2>1. UNCHANGED <<buffers, pasted>>
    BY <1>5 DEF PaneWrites, PaneEnds
  <2> QED
    BY <1>0, <1>5, <2>1, PanesMove DEF TmuxInv, PasteOK
<1>6. ASSUME NEW s \in Panes, WorkspaceGoes(s) \/ WorkspaceReturns(s)
      PROVE  TmuxInv'
  <2>1. UNCHANGED <<pane, window, directory, metadata, outputs, log, request, stray, disturbed, buffers, pasted>>
    BY <1>6 DEF WorkspaceGoes, WorkspaceReturns, serverVars, recordVars, countVars
  <2> QED
    BY <1>0, <2>1, CallsUnmoved DEF TmuxInv, PasteOK
<1> QED
  BY <1>1, <1>2, <1>3, <1>4, <1>5, <1>6 DEF TmuxNext, Removes

\* A list that is not disturbed gets to every entry, or there are more than it looks at.
LEMMA ListsWhole ==
  ASSUME TmuxInv, directory \subseteq Panes, NEW some \in Entries, Undisturbed(some), NEW s \in Panes, HasRecord(s)
  PROVE  s \in List(some) \/ (s \notin some /\ Cardinality(directory) > MaxListed)
<1>1. \A t \in Panes : HasRecord(t) => t \in directory /\ (t \in disturbed \/ t \in outputs \/ Removed(t))
  BY DEF TmuxInv, CallsInv, PaneOK, Removed, Here
<1>2. some \subseteq Panes
  BY DEF Entries
<1>3. ~ListFails(some)
  BY <1>1, <1>2 DEF ListFails, Undisturbed
<1>4. CASE s \in some
  BY <1>3, <1>4 DEF List
<1>5. CASE s \notin some
  <2>1. IsFiniteSet(directory)
    BY TmuxAssumption, FS_Subset DEF TmuxAssumption
  <2>2. Cardinality(directory) \in Nat /\ MaxListed \in Nat
    BY <2>1, TmuxAssumption, FS_CardinalityType DEF TmuxAssumption
  <2>3. some \in SUBSET directory /\ some # directory
    BY <1>1, <1>5 DEF Entries
  <2>4. Cardinality(directory) # Cardinality(some)
    BY <2>1, <2>3, FS_Subset
  <2>5. ~(Cardinality(directory) <= MaxListed)
    BY <2>4 DEF Entries
  <2> QED
    BY <1>5, <2>2, <2>5
<1> QED
  BY <1>4, <1>5

LEMMA TmuxInvSound ==
  ASSUME TmuxInv, directory \subseteq Panes
  PROVE  TmuxSound
<1>1. \A s \in Panes : PaneOK(s)
  BY DEF TmuxInv, CallsInv
<1>2. InReach
  <2>1. SUFFICES ASSUME NEW s \in Panes, pane[s] \in {"running", "dead"}, s \notin stray, ~Started(s)
                 PROVE  /\ HasRecord(s)
                        /\ \A some \in Entries : Undisturbed(some) =>
                             s \in List(some) \/ (s \notin some /\ Cardinality(directory) > MaxListed)
    BY DEF InReach
  <2>2. HasRecord(s)
    BY <1>1, <2>1 DEF PaneOK, Started, Here
  <2> QED
    BY <2>2, ListsWhole
<1>3. RecordSound
  BY <1>1 DEF RecordSound, PaneOK, Removed, Keeping, Here, Doing
<1>4. \A text \in DOMAIN pasted : pasted[text] <= 1
  <2>1. \A text \in DOMAIN pasted : pasted[text] \in {0, 1}
    BY DEF TmuxInv, PasteOK
  <2> QED
    BY <2>1
<1> QED
  BY <1>2, <1>3, <1>4 DEF TmuxSound

LEMMA TmuxHolds == TmuxSpec => []TmuxInv
<1>1. TmuxInit => TmuxInv
  BY TmuxBegins
<1>2. TmuxInv /\ [TmuxNext]_tmuxVars => TmuxInv'
  BY TmuxSteps
<1> QED
  BY <1>1, <1>2, PTL DEF TmuxSpec

\* What is written, what fails and what is left behind is of the sessions, and bounded.
TmuxBounds ==
  /\ \A s \in Panes : log[s] <= MaxLog
  /\ directory \subseteq Panes /\ stray \subseteq Panes /\ tmuxFaults \in 0 .. MaxTmuxFaults

LEMMA TmuxBoundsStep ==
  ASSUME TmuxInv, TmuxBounds, [TmuxNext]_tmuxVars
  PROVE  TmuxBounds'
<1>0. /\ log \in [Panes -> Nat] /\ request \in [Hosts -> TmuxCall] /\ MaxLog \in Nat /\ MaxTmuxFaults \in Nat
      /\ \A h \in Hosts : request[h].at = "idle" \/ request[h].on \in Panes
  BY TmuxAssumption DEF TmuxInv, CallsInv, TmuxTypes, TmuxCall, TmuxAssumption
<1> DEFINE Faulty == UNCHANGED tmuxFaults \/ TmuxFault
<1> DEFINE Known(s) == /\ directory' \subseteq directory \cup {s} /\ stray' \subseteq stray \cup {s}
                       /\ UNCHANGED log /\ Faulty
<1>1. ASSUME NEW s \in Panes, Known(s)
      PROVE  TmuxBounds'
  BY <1>0, <1>1 DEF TmuxBounds, TmuxFault
<1>2. ASSUME NEW s \in Panes, PaneWrites(s)
      PROVE  TmuxBounds'
  <2>1. \A r \in Panes : log'[r] <= MaxLog
    BY <1>0, <1>2 DEF PaneWrites, TmuxBounds
  <2> QED
    BY <1>2, <2>1 DEF PaneWrites, TmuxBounds, recordVars, countVars
<1>3. ASSUME NEW s \in Panes, PaneEnds(s) \/ WorkspaceGoes(s) \/ WorkspaceReturns(s)
      PROVE  TmuxBounds'
  <2>1. Known(s)
    BY <1>3 DEF PaneEnds, WorkspaceGoes, WorkspaceReturns, serverVars, recordVars, countVars
  <2> QED
    BY <1>1, <2>1
<1>4. ASSUME NEW h \in Hosts, NEW s \in Panes, NEW size, NEW kind,
             CreateDirectory(h, s, size) \/ Load(h, s, kind, size)
      PROVE  TmuxBounds'
  <2>1. Known(s)
    BY <1>4 DEF CreateDirectory, Load, serverVars, recordVars
  <2> QED
    BY <1>1, <2>1
<1>5. ASSUME NEW h \in Hosts, ~Doing(h, "idle"), Known(Here(h))
      PROVE  TmuxBounds'
  <2>1. Here(h) \in Panes
    BY <1>0, <1>5 DEF Doing, Here
  <2> QED
    BY <1>1, <1>5, <2>1
<1>6. ASSUME NEW h \in Hosts,
             \/ NewSession(h) \/ NewSessionFails(h) \/ SetOption(h) \/ PipePane(h) \/ SendCommand(h)
             \/ WriteNew(h) \/ WriteNewFails(h) \/ KillSession(h) \/ KillFails(h)
             \/ LoadBuffer(h) \/ PasteBuffer(h) \/ KillPane(h) \/ ConfigureFails(h)
      PROVE  ~Doing(h, "idle") /\ Known(Here(h))
  BY <1>6
     DEF NewSession, NewSessionFails, SetOption, PipePane, SendCommand, WriteNew, WriteNewFails, KillSession,
         KillFails, LoadBuffer, PasteBuffer, KillPane, ConfigureFails, ConfigureRefused, Doing,
         serverVars, recordVars, countVars
<1>7. ASSUME NEW h \in Hosts, CallFails(h) \/ ReadLog(h) \/ ResizeWindow(h) \/ Remember(h) \/ HostDies(h)
      PROVE  ~Doing(h, "idle") /\ Known(Here(h))
  BY <1>7 DEF CallFails, ReadLog, ResizeWindow, ResizeTo, Remember, HostDies, Doing, serverVars, recordVars, countVars
<1>8. ASSUME NEW h \in Hosts, UnlinkRecord(h) \/ UnlinkLog(h) \/ RemoveDirectory(h) \/ RemovalFails(h)
      PROVE  ~Doing(h, "idle") /\ Known(Here(h))
  BY <1>8 DEF UnlinkRecord, UnlinkLog, RemoveDirectory, RemovalFails, Removing, Doing, serverVars, recordVars, countVars
<1>9. CASE UNCHANGED tmuxVars
  BY <1>0, <1>9 DEF tmuxVars, TmuxBounds
<1> HIDE DEF Known
<1> QED
  BY <1>2, <1>3, <1>4, <1>5, <1>6, <1>7, <1>8, <1>9 DEF TmuxNext

LEMMA TmuxBounded == TmuxSpec => []TmuxBounds
<1>1. TmuxInit => TmuxBounds
  BY TmuxAssumption DEF TmuxInit, TmuxBounds, TmuxAssumption
<1>2. TmuxInv /\ TmuxBounds /\ [TmuxNext]_tmuxVars => TmuxBounds'
  BY TmuxBoundsStep
<1> QED
  BY <1>1, <1>2, TmuxHolds, PTL DEF TmuxSpec

\* A session that is in the tmux server is recorded, with its log, and close and list reach
\* it, unless it is being started, a failure that nothing is done about has left it there,
\* or the workspace or the removal of a listed session stands in the way of the list; and no
\* text is pasted twice.
THEOREM TmuxIsSound == TmuxSpec => []TmuxSound
<1>1. TmuxInv /\ TmuxBounds => TmuxSound
  BY TmuxInvSound DEF TmuxBounds
<1> QED
  BY <1>1, TmuxHolds, TmuxBounded, PTL

LEMMA TmuxTyped == TmuxSpec => []TmuxTypeOK
<1>3. TmuxInv /\ TmuxBounds => TmuxTypeOK
  <2>1. SUFFICES ASSUME TmuxInv, TmuxBounds
                 PROVE  TmuxTypeOK
    OBVIOUS
  <2>2. /\ metadata \in [Panes -> TmuxMetadata] /\ log \in [Panes -> Nat] /\ MaxLog \in Nat
        /\ \A s \in Panes : HasRecord(s) => metadata[s].reader <= log[s]
    BY <2>1, TmuxAssumption DEF TmuxInv, CallsInv, TmuxTypes, PaneOK, TmuxAssumption
  <2>3. ASSUME NEW s \in Panes
        PROVE  metadata[s] \in [size : Sizes \cup {"none"}, reader : 0 .. MaxLog]
    <3>1. metadata[s].reader \in 0 .. MaxLog
      BY <2>1, <2>2 DEF HasRecord, NoMetadata, TmuxMetadata, TmuxBounds
    <3> QED
      BY <2>2, <3>1 DEF TmuxMetadata
  <2> QED
    BY <2>1, <2>2, <2>3 DEF TmuxInv, CallsInv, TmuxTypes, TmuxBounds, TmuxTypeOK
<1> QED
  BY <1>3, TmuxHolds, TmuxBounded, PTL

-----------------------------------------------------------------------------
(* NativeTerminal.                                                         *)

NativePhases ==
  {"idle", "room", "spawned", "inserted", "read", "wait", "readRaw", "signal", "signalling", "close",
   "hangup", "ended", "closed"}
NativeOp == [at : NativePhases, on : Shells \cup {"none"}]
ShellTypes ==
  /\ shells \in [Shells -> {"none", "running", "zombie", "reaped"}]
  /\ life \in [Shells -> {"none", "running", "exited", "lost", "closed"}]
  /\ mapped \in SUBSET Shells /\ hung \in SUBSET Shells /\ op \in [Threads -> NativeOp]

\* A shell that runs is held by somebody, or was told to hang up; so was one that is not
\* recorded as running.
ShellOK(s) ==
  /\ shells[s] = "running" =>
       /\ Referenced(s, op, mapped) \/ s \in hung
       /\ life[s] = "running" \/ s \in hung
  /\ life[s] \in {"exited", "lost"} => shells[s] = "reaped"

\* What a call holds was spawned, and before it is closed it was told to hang up, or ended.
OpOK(t) ==
  /\ op[t].at \in {"idle", "room"} => op[t].on = "none"
  /\ op[t].at \notin {"idle", "room"} => op[t].on \in Shells /\ shells[op[t].on] # "none"
  /\ op[t].at \in {"ended", "closed"} => shells[op[t].on] # "running" \/ op[t].on \in hung

ShellInv ==
  /\ ShellTypes /\ (\A s \in Shells : ShellOK(s)) /\ (\A t \in Threads : OpOK(t))
  /\ \A s \in mapped : shells[s] # "none"

\* Those who have been told that there is room and have not inserted their session.
Admitted == {t \in Threads : op[t].at \in {"room", "spawned"}}
RoomOK ==
  /\ IsFiniteSet(mapped) /\ IsFiniteSet(Admitted)
  /\ Cardinality(mapped) + Cardinality(Admitted) <= Capacity + Cardinality(Threads) - 1

RawOK ==
  /\ raw \in [Shells -> Seq(Nat)] /\ base \in [Shells -> Nat] /\ total \in [Shells -> Nat]
  /\ reader \in [Shells -> Nat]
  /\ \A s \in Shells :
       /\ base[s] <= total[s] /\ raw[s] = [i \in 1 .. total[s] - base[s] |-> base[s] + i]
       /\ Len(raw[s]) <= RawLimit /\ reader[s] <= total[s]

NativeInv == ShellInv /\ RoomOK /\ RawOK
NativeSpec == NativeInit /\ [][NativeNext]_nativeVars

ShellMoves(s) ==
  /\ \/ shells'[s] = shells[s]
     \/ shells[s] = "running" /\ shells'[s] = "zombie"
     \/ shells[s] = "zombie" /\ shells'[s] = "reaped"
     \/ shells[s] = "none" /\ shells'[s] = "running" /\ life'[s] = "running" /\ Referenced(s, op', mapped')
  /\ \/ life'[s] = life[s]
     \/ life'[s] = "running" /\ shells'[s] = "running"
     \/ life'[s] = "closed" /\ (shells'[s] # "running" \/ s \in hung')
     \/ life'[s] \in {"exited", "lost"} /\ shells'[s] = "reaped"
  /\ \/ Referenced(s, op, mapped) => Referenced(s, op', mapped')
     \/ life[s] = "running" /\ shells[s] \in {"running", "zombie"} => s \in hung'
  /\ s \in mapped' => s \in mapped \/ shells'[s] # "none"
NativeStep ==
  /\ ShellTypes' /\ hung \subseteq hung' /\ (\A s \in Shells : ShellMoves(s))
  /\ \A t \in Threads : op'[t] = op[t] \/ OpOK(t)'

LEMMA NativeFrame ==
  ASSUME ShellInv, NativeStep
  PROVE  ShellInv'
<1>1. ShellTypes' /\ hung \subseteq hung' /\ ShellTypes
  BY DEF NativeStep, ShellInv
<1>2. ASSUME NEW s \in Shells
      PROVE  ShellOK(s)' /\ (s \in mapped' => shells'[s] # "none") /\ (shells[s] # "none" => shells'[s] # "none")
             /\ (shells'[s] = "running" => shells[s] \in {"running", "none"})
  <2>1. ShellMoves(s) /\ ShellOK(s) /\ (s \in mapped => shells[s] # "none")
    BY DEF NativeStep, ShellInv
  <2>2. shells[s] \in {"none", "running", "zombie", "reaped"} /\ shells'[s] \in {"none", "running", "zombie", "reaped"}
    BY <1>1 DEF ShellTypes
  <2>3. ASSUME shells'[s] = "running"
        PROVE  /\ Referenced(s, op', mapped') \/ s \in hung'
               /\ life'[s] = "running" \/ s \in hung'
    <3>1. CASE shells[s] = "none"
      BY <2>1, <2>3, <3>1 DEF ShellMoves
    <3>2. CASE shells[s] = "running"
      BY <1>1, <2>1, <2>3, <3>2 DEF ShellMoves, ShellOK
    <3> QED
      BY <3>1, <3>2, <2>1, <2>2, <2>3 DEF ShellMoves
  <2>4. life'[s] \in {"exited", "lost"} => shells'[s] = "reaped"
    BY <2>1, <2>2 DEF ShellMoves, ShellOK
  <2>5. (s \in mapped' => shells'[s] # "none") /\ (shells[s] # "none" => shells'[s] # "none")
        /\ (shells'[s] = "running" => shells[s] \in {"running", "none"})
    BY <2>1, <2>2 DEF ShellMoves
  <2> QED
    BY <2>3, <2>4, <2>5 DEF ShellOK, Referenced
<1>3. ASSUME NEW t \in Threads
      PROVE  OpOK(t)'
  <2>1. CASE op'[t] = op[t]
    <3>1. OpOK(t)
      BY DEF ShellInv
    <3> QED
      BY <2>1, <3>1, <1>1, <1>2 DEF OpOK
  <2> QED
    BY <2>1 DEF NativeStep
<1>4. \A s \in mapped' : shells'[s] # "none"
  BY <1>1, <1>2 DEF ShellTypes
<1> QED
  BY <1>1, <1>2, <1>3, <1>4 DEF ShellInv

-----------------------------------------------------------------------------
\* What the steps of the shells leave: the map and the calls admitted do not grow, and the
\* bytes are what they were.
RoomShrinks == mapped' \subseteq mapped /\ Admitted' \subseteq Admitted
NativeQuiet == NativeStep /\ RoomShrinks /\ UNCHANGED <<raw, base, total, reader>>

\* References are dropped, as Drop has it.
LEMMA DropsQuietly ==
  ASSUME ShellInv, ShellTypes', DropUnused(op', mapped'), UNCHANGED life,
         \A s \in Shells : shells'[s] = shells[s] \/ (shells[s] = "running" /\ shells'[s] = "zombie"),
         mapped' \subseteq mapped, \A t \in Threads : op'[t] = op[t] \/ op'[t] = NoOp
  PROVE  NativeStep /\ RoomShrinks
<1>1. hung \subseteq hung'
  BY DEF DropUnused
<1>2. ASSUME NEW s \in Shells
      PROVE  ShellMoves(s)
  <2>1. \/ Referenced(s, op, mapped) => Referenced(s, op', mapped')
        \/ life[s] = "running" /\ shells[s] \in {"running", "zombie"} => s \in hung'
    BY DEF DropUnused
  <2>2. life'[s] = life[s] /\ (s \in mapped' => s \in mapped)
    OBVIOUS
  <2> QED
    BY <2>1, <2>2 DEF ShellMoves
<1>3. ASSUME NEW t \in Threads
      PROVE  op'[t] = op[t] \/ OpOK(t)'
  BY DEF OpOK, NoOp
<1>4. Admitted' \subseteq Admitted
  BY DEF Admitted, NoOp
<1> QED
  BY <1>1, <1>2, <1>3, <1>4 DEF NativeStep, RoomShrinks

\* No reference is dropped.
LEMMA KeepsReferences ==
  ASSUME NEW s \in Shells, mapped \subseteq mapped', Referenced(s, op, mapped), NativeAssumption,
         \A t \in Threads : op'[t].on = op[t].on \/ op[t].on = "none"
  PROVE  Referenced(s, op', mapped')
BY NativeAssumption DEF Referenced, NativeAssumption

LEMMA OpGoes ==
  ASSUME NEW t \in Threads, NEW x \in NativeOp, op \in [Threads -> NativeOp], op' = Go(t, x)
  PROVE  /\ op' \in [Threads -> NativeOp] /\ op'[t] = x
         /\ \A u \in Threads : u # t => op'[u] = op[u]
BY DEF Go

\* A call goes on, and drops nothing.
LEMMA GoesOn ==
  ASSUME ShellInv, NativeAssumption, NEW t \in Threads, NEW x \in NativeOp, op' = Go(t, x),
         op[t].on \in {"none", x.on}, ShellTypes', hung \subseteq hung', mapped \subseteq mapped',
         OpOK(t)',
         \A s \in Shells :
           /\ \/ shells'[s] = shells[s]
              \/ shells[s] = "running" /\ shells'[s] = "zombie"
              \/ shells[s] = "none" /\ shells'[s] = "running" /\ life'[s] = "running" /\ s = x.on
           /\ \/ life'[s] = life[s]
              \/ life'[s] = "running" /\ shells'[s] = "running"
              \/ life'[s] = "closed" /\ (shells'[s] # "running" \/ s \in hung')
           /\ s \in mapped' => s \in mapped \/ shells'[s] # "none"
  PROVE  NativeStep
<1>1. op' \in [Threads -> NativeOp] /\ op'[t] = x /\ \A u \in Threads : u # t => op'[u] = op[u]
  BY OpGoes DEF ShellInv, ShellTypes
<1>2. \A u \in Threads : op'[u].on = op[u].on \/ op[u].on = "none"
  BY <1>1
<1>3. ASSUME NEW s \in Shells
      PROVE  ShellMoves(s)
  <2>1. Referenced(s, op, mapped) => Referenced(s, op', mapped')
    BY <1>2, KeepsReferences
  <2>2. s = x.on => Referenced(s, op', mapped')
    BY <1>1 DEF Referenced
  <2> QED
    BY <2>1, <2>2 DEF ShellMoves
<1>4. \A u \in Threads : op'[u] = op[u] \/ OpOK(u)'
  BY <1>1
<1> QED
  BY <1>3, <1>4 DEF NativeStep

-----------------------------------------------------------------------------
\* The calls of start.
LEMMA StartMoves ==
  ASSUME ShellInv, NativeAssumption, NEW t \in Threads
  PROVE  /\ CheckCapacity(t) => NativeStep
         /\ \A s \in Shells : SpawnShell(t, s) => NativeStep /\ RoomShrinks
         /\ InsertSession(t) => NativeStep
         /\ SpawnReader(t) \/ SpawnWaiter(t) => NativeQuiet
<1>1. ShellTypes /\ op[t] \in NativeOp /\ OpOK(t)
  BY DEF ShellInv, ShellTypes
<1>2. ASSUME CheckCapacity(t)
      PROVE  NativeStep
  <2> DEFINE x == [at |-> "room", on |-> "none"]
  <2>1. /\ x \in NativeOp /\ op' = Go(t, x) /\ op[t].on = "none" /\ x.at = "room" /\ x.on = "none"
        /\ UNCHANGED <<mapped, hung, shells, life>>
    BY <1>1, <1>2 DEF CheckCapacity, NativeOp, NativePhases, OpOK, processVars, stateVars
  <2> HIDE DEF x
  <2>2. ShellTypes' /\ op'[t] = x
    BY <1>1, <2>1, OpGoes DEF ShellTypes
  <2>3. OpOK(t)'
    BY <2>1, <2>2 DEF OpOK
  <2> QED
    BY <2>1, <2>2, <2>3, GoesOn
<1>3. ASSUME NEW s \in Shells, SpawnShell(t, s)
      PROVE  NativeStep /\ RoomShrinks
  <2> DEFINE x == [at |-> "spawned", on |-> s]
  <2>1. /\ x \in NativeOp /\ op' = Go(t, x) /\ op[t].on = "none" /\ x.at = "spawned" /\ x.on = s
        /\ UNCHANGED <<mapped, hung>> /\ op[t].at = "room" /\ shells[s] = "none"
        /\ shells' = [shells EXCEPT ![s] = "running"] /\ life' = [life EXCEPT ![s] = "running"]
    BY <1>1, <1>3 DEF SpawnShell, NativeOp, NativePhases, OpOK
  <2> HIDE DEF x
  <2>2. ShellTypes' /\ op'[t] = x /\ \A u \in Threads : u # t => op'[u] = op[u]
    BY <1>1, <2>1, OpGoes DEF ShellTypes
  <2>3. /\ shells'[s] = "running" /\ life'[s] = "running"
        /\ \A r \in Shells : r # s => shells'[r] = shells[r] /\ life'[r] = life[r]
    BY <2>1, <1>1 DEF ShellTypes
  <2>4. OpOK(t)'
    BY <2>1, <2>2, <2>3 DEF OpOK
  <2>5. NativeStep
    BY <2>1, <2>2, <2>3, <2>4, GoesOn
  <2>6. Admitted' \subseteq Admitted
    BY <2>1, <2>2 DEF Admitted
  <2> QED
    BY <2>1, <2>5, <2>6 DEF RoomShrinks
<1>4. ASSUME InsertSession(t)
      PROVE  NativeStep
  <2> DEFINE x == [op[t] EXCEPT !.at = "inserted"]
  <2>1. /\ x \in NativeOp /\ op' = Go(t, x) /\ x.on = op[t].on /\ x.at = "inserted"
        /\ op[t].on \in Shells /\ shells[op[t].on] # "none" /\ mapped' = mapped \cup {op[t].on}
        /\ UNCHANGED <<hung, shells, life>>
    BY <1>1, <1>4 DEF InsertSession, NativeOp, NativePhases, OpOK, processVars, stateVars
  <2> HIDE DEF x
  <2>2. ShellTypes' /\ op'[t] = x
    BY <1>1, <2>1, OpGoes DEF ShellTypes
  <2>3. OpOK(t)'
    BY <2>1, <2>2 DEF OpOK
  <2> QED
    BY <2>1, <2>2, <2>3, GoesOn
<1>5. ASSUME NEW from \in {"inserted", "read"}, NEW to \in {"read", "wait"}, NEW thread,
             SpawnThread(t, from, thread, to)
      PROVE  NativeQuiet
  <2> DEFINE x == [op[t] EXCEPT !.at = to]
  <2>1. /\ x \in NativeOp /\ op' = Go(t, x) /\ x.on = op[t].on /\ x.at = to
        /\ op[t].on \in Shells /\ shells[op[t].on] # "none"
        /\ UNCHANGED <<hung, shells, life, mapped, raw, base, total, reader>>
    BY <1>1, <1>5 DEF SpawnThread, NativeOp, NativePhases, OpOK, stateVars
  <2> HIDE DEF x
  <2>2. ShellTypes' /\ op'[t] = x /\ \A u \in Threads : u # t => op'[u] = op[u]
    BY <1>1, <2>1, OpGoes DEF ShellTypes
  <2>3. OpOK(t)'
    BY <2>1, <2>2 DEF OpOK
  <2>4. NativeStep
    BY <2>1, <2>2, <2>3, GoesOn
  <2>5. Admitted' \subseteq Admitted
    BY <2>1, <2>2 DEF Admitted
  <2> QED
    BY <2>1, <2>4, <2>5 DEF RoomShrinks, NativeQuiet
<1> QED
  BY <1>2, <1>3, <1>4, <1>5 DEF SpawnReader, SpawnWaiter

LEMMA DropMoves ==
  ASSUME ShellInv, NativeAssumption, NEW t \in Threads
  PROVE  /\ Returns(t) => NativeQuiet
         /\ ThreadFails(t) \/ RemoveClosed(t) => NativeQuiet
         /\ \A deadly \in BOOLEAN : SendSignal(t, deadly) => NativeQuiet
         /\ \A offset \in Nat : ReadRaw(t, offset) => NativeStep /\ RoomShrinks
         /\ HostDropped => NativeQuiet
<1>1. ShellTypes /\ op[t] \in NativeOp /\ OpOK(t) /\ NoOp \in NativeOp
  BY DEF ShellInv, ShellTypes, NoOp, NativeOp, NativePhases
<1>2. ASSUME op' = Go(t, NoOp), mapped' \subseteq mapped, DropUnused(op', mapped'), life' = life,
             \/ shells' = shells
             \/ \E s \in Shells : shells[s] = "running" /\ shells' = [shells EXCEPT ![s] = "zombie"]
      PROVE  NativeStep /\ RoomShrinks
  <2>1. op' \in [Threads -> NativeOp] /\ \A u \in Threads : op'[u] = op[u] \/ op'[u] = NoOp
    BY <1>1, <1>2, OpGoes DEF ShellTypes
  <2>2. hung' \in SUBSET Shells
    BY <1>1, <1>2 DEF DropUnused, ShellTypes
  <2>3. /\ shells' \in [Shells -> {"none", "running", "zombie", "reaped"}]
        /\ \A s \in Shells : shells'[s] = shells[s] \/ (shells[s] = "running" /\ shells'[s] = "zombie")
    BY <1>1, <1>2 DEF ShellTypes
  <2>4. ShellTypes'
    BY <1>1, <1>2, <2>1, <2>2, <2>3 DEF ShellTypes
  <2> QED
    BY <1>2, <2>1, <2>3, <2>4, DropsQuietly
<1>3. Returns(t) => NativeQuiet
  BY <1>2 DEF Returns, NativeQuiet, stateVars
<1>4. ThreadFails(t) \/ RemoveClosed(t) => NativeQuiet
  BY <1>2 DEF ThreadFails, RemoveClosed, NativeQuiet, stateVars
<1>5. ASSUME NEW deadly \in BOOLEAN, SendSignal(t, deadly)
      PROVE  NativeQuiet
  <2>1. op[t].on \in Shells /\ UNCHANGED <<mapped, life, raw, base, total, reader>> /\ op' = Go(t, NoOp)
        /\ DropUnused(op', mapped')
    BY <1>1, <1>5 DEF SendSignal, OpOK, stateVars
  <2>2. \/ shells' = shells
        \/ \E s \in Shells : shells[s] = "running" /\ shells' = [shells EXCEPT ![s] = "zombie"]
    BY <2>1, <1>5 DEF SendSignal
  <2> QED
    BY <1>2, <2>1, <2>2 DEF NativeQuiet
<1>6. ASSUME NEW offset \in Nat, ReadRaw(t, offset)
      PROVE  NativeStep /\ RoomShrinks
  BY <1>2, <1>6 DEF ReadRaw
<1>7. ASSUME HostDropped
      PROVE  NativeQuiet
  <2>1. /\ op' = op /\ mapped' = {} /\ DropUnused(op', mapped') /\ shells' = shells
        /\ UNCHANGED <<life, raw, base, total, reader>>
    BY <1>7 DEF HostDropped, stateVars, DropUnused
  <2>2. ShellTypes'
    BY <1>1, <2>1 DEF ShellTypes, DropUnused
  <2> QED
    BY <2>1, <2>2, DropsQuietly DEF NativeQuiet
<1> QED
  BY <1>3, <1>4, <1>5, <1>6, <1>7

\* The other calls, while they hold their session.
LEMMA CallMoves ==
  ASSUME ShellInv, NativeAssumption, NEW t \in Threads
  PROVE  /\ \A s \in Shells, kind \in {"wait", "readRaw", "signal", "close"} : Find(t, s, kind) => NativeQuiet
         /\ CheckSignal(t) => NativeQuiet
         /\ CheckClose(t) => NativeQuiet
         /\ \A deadly \in BOOLEAN : Hangup(t, deadly) => NativeQuiet
         /\ SetClosed(t) => NativeQuiet
<1>1. ShellTypes /\ op[t] \in NativeOp /\ OpOK(t) /\ (op[t].on \in Shells => ShellOK(op[t].on))
  BY DEF ShellInv, ShellTypes
<1>2. ASSUME NEW x \in NativeOp, op' = Go(t, x), op[t].on \in {"none", x.on}, ShellTypes', hung \subseteq hung',
             x.at \notin {"room", "spawned"}, UNCHANGED <<mapped, raw, base, total, reader>>,
             x.at \in NativePhases \ {"idle", "room"}, x.on \in Shells, shells'[x.on] # "none",
             x.at \in {"ended", "closed"} => shells'[x.on] # "running" \/ x.on \in hung',
             \A s \in Shells :
               /\ shells'[s] = shells[s] \/ (shells[s] = "running" /\ shells'[s] = "zombie")
               /\ life'[s] = life[s] \/ (life'[s] = "closed" /\ (shells'[s] # "running" \/ s \in hung'))
      PROVE  NativeQuiet
  <2>1. op'[t] = x /\ \A u \in Threads : u # t => op'[u] = op[u]
    BY <1>1, <1>2, OpGoes DEF ShellTypes
  <2>2. OpOK(t)'
    BY <1>2, <2>1 DEF OpOK
  <2>3. NativeStep
    BY <1>2, <2>2, GoesOn
  <2>4. Admitted' \subseteq Admitted
    BY <1>2, <2>1 DEF Admitted
  <2> QED
    BY <1>2, <2>3, <2>4 DEF RoomShrinks, NativeQuiet
<1>3. ASSUME NEW at \in {"signalling", "hangup", "ended"}, Continues(t, at), op[t].on \in Shells,
             shells[op[t].on] # "none", at = "ended" => shells[op[t].on] # "running" \/ op[t].on \in hung
      PROVE  NativeQuiet
  <2> DEFINE x == [op[t] EXCEPT !.at = at]
  <2>1. /\ x \in NativeOp /\ op' = Go(t, x) /\ x.on = op[t].on /\ x.at = at
        /\ UNCHANGED <<hung, shells, life, mapped, raw, base, total, reader>>
    BY <1>1, <1>3 DEF Continues, NativeOp, NativePhases, processVars, stateVars
  <2> HIDE DEF x
  <2>2. ShellTypes'
    BY <1>1, <2>1, OpGoes DEF ShellTypes
  <2> QED
    BY <1>2, <1>3, <2>1, <2>2 DEF NativePhases
<1>4. ASSUME NEW s \in Shells, NEW kind \in {"wait", "readRaw", "signal", "close"}, Find(t, s, kind)
      PROVE  NativeQuiet
  <2> DEFINE x == [at |-> kind, on |-> s]
  <2>1. /\ x \in NativeOp /\ op' = Go(t, x) /\ x.on = s /\ x.at = kind /\ op[t].on = "none" /\ s \in mapped
        /\ UNCHANGED <<hung, shells, life, mapped, raw, base, total, reader>>
    BY <1>1, <1>4 DEF Find, NativeOp, NativePhases, processVars, stateVars, OpOK
  <2> HIDE DEF x
  <2>2. ShellTypes'
    BY <1>1, <2>1, OpGoes DEF ShellTypes
  <2>3. shells[s] # "none"
    BY <2>1 DEF ShellInv
  <2> QED
    BY <1>2, <2>1, <2>2, <2>3 DEF NativePhases
<1>5. ASSUME CheckSignal(t)
      PROVE  NativeQuiet
  BY <1>1, <1>3, <1>5, DropMoves DEF CheckSignal, OpOK
<1>6. ASSUME CheckClose(t)
      PROVE  NativeQuiet
  <2>1. op[t].at = "close" /\ op[t].on \in Shells /\ shells[op[t].on] # "none"
    BY <1>1, <1>6 DEF CheckClose, OpOK
  <2>2. CASE life[op[t].on] = "running"
    BY <1>3, <1>6, <2>1, <2>2 DEF CheckClose
  <2>3. CASE life[op[t].on] # "running"
    <3>1. shells[op[t].on] # "running" \/ op[t].on \in hung
      BY <1>1, <2>1, <2>3 DEF ShellOK
    <3> QED
      BY <1>3, <1>6, <2>1, <2>3, <3>1 DEF CheckClose
  <2> QED
    BY <2>2, <2>3
<1>7. ASSUME NEW deadly \in BOOLEAN, Hangup(t, deadly)
      PROVE  NativeQuiet
  <2>1. op[t].at = "hangup" /\ op[t].on \in Shells /\ shells[op[t].on] # "none"
    BY <1>1, <1>7 DEF Hangup, OpOK
  <2>2. CASE shells[op[t].on] = "reaped"
    BY <1>7, <2>2, DropMoves DEF Hangup
  <2>3. CASE shells[op[t].on] # "reaped"
    <3> DEFINE x == [op[t] EXCEPT !.at = "ended"]
    <3>1. /\ x \in NativeOp /\ op' = Go(t, x) /\ x.on = op[t].on /\ x.at = "ended"
          /\ hung' = hung \cup {op[t].on} /\ UNCHANGED <<life, mapped, raw, base, total, reader>>
      BY <1>1, <1>7, <2>3 DEF Hangup, NativeOp, NativePhases, stateVars
    <3>2. shells' = shells \/ (shells[op[t].on] = "running" /\ shells' = [shells EXCEPT ![op[t].on] = "zombie"])
      BY <1>7, <2>3 DEF Hangup
    <3> HIDE DEF x
    <3>3. /\ shells' \in [Shells -> {"none", "running", "zombie", "reaped"}] /\ shells'[op[t].on] # "none"
          /\ \A s \in Shells : shells'[s] = shells[s] \/ (shells[s] = "running" /\ shells'[s] = "zombie")
      BY <1>1, <2>1, <3>2 DEF ShellTypes
    <3>4. ShellTypes'
      BY <1>1, <2>1, <3>1, <3>3, OpGoes DEF ShellTypes
    <3> QED
      BY <1>2, <2>1, <3>1, <3>3, <3>4 DEF NativePhases
  <2> QED
    BY <2>2, <2>3
<1>8. ASSUME SetClosed(t)
      PROVE  NativeQuiet
  <2> DEFINE x == [op[t] EXCEPT !.at = "closed"]
  <2>1. /\ x \in NativeOp /\ op' = Go(t, x) /\ x.on = op[t].on /\ x.at = "closed"
        /\ life' = [life EXCEPT ![op[t].on] = "closed"]
        /\ UNCHANGED <<hung, shells, mapped, raw, base, total, reader>>
    BY <1>1, <1>8 DEF SetClosed, NativeOp, NativePhases, processVars
  <2>2. op[t].on \in Shells /\ shells[op[t].on] # "none" /\ (shells[op[t].on] # "running" \/ op[t].on \in hung)
    BY <1>1, <1>8 DEF SetClosed, OpOK
  <2> HIDE DEF x
  <2>3. /\ life' \in [Shells -> {"none", "running", "exited", "lost", "closed"}]
        /\ \A s \in Shells : life'[s] = life[s] \/ (life'[s] = "closed" /\ s = op[t].on)
    BY <1>1, <2>1, <2>2 DEF ShellTypes
  <2>4. ShellTypes'
    BY <1>1, <2>1, <2>3, OpGoes DEF ShellTypes
  <2> QED
    BY <1>2, <2>1, <2>2, <2>3, <2>4 DEF NativePhases
<1> QED
  BY <1>4, <1>5, <1>6, <1>7, <1>8

\* The shell and its two threads.
LEMMA ThreadMoves ==
  ASSUME ShellInv, NativeAssumption, NEW s \in Shells
  PROVE  /\ ShellWrites(s) \/ ShellEnds(s) \/ WaiterReaps(s) => NativeQuiet
         /\ \A to \in 1 .. MaxTyped : ReaderReads(s, to) => NativeStep /\ RoomShrinks
         /\ \A end \in {"exited", "lost"} : WaiterRecords(s, end) => NativeQuiet
<1>1. ShellTypes /\ ShellOK(s)
  BY DEF ShellInv
<1>2. ASSUME op' = op, mapped' = mapped, hung' = hung, ShellTypes',
             \A r \in Shells :
               /\ \/ shells'[r] = shells[r]
                  \/ shells[r] = "running" /\ shells'[r] = "zombie"
                  \/ shells[r] = "zombie" /\ shells'[r] = "reaped"
               /\ life'[r] = life[r] \/ (life'[r] \in {"exited", "lost"} /\ shells'[r] = "reaped")
      PROVE  NativeStep /\ RoomShrinks
  <2>1. \A r \in Shells : ShellMoves(r)
    BY <1>2 DEF ShellMoves
  <2>2. \A t \in Threads : op'[t] = op[t]
    BY <1>2
  <2>3. Admitted' = Admitted
    BY <1>2 DEF Admitted
  <2> QED
    BY <1>2, <2>1, <2>2, <2>3 DEF NativeStep, RoomShrinks
<1>3. ASSUME ShellWrites(s) \/ ShellEnds(s) \/ WaiterReaps(s)
      PROVE  NativeQuiet
  <2>1. UNCHANGED <<op, mapped, hung, life, raw, base, total, reader>>
    BY <1>3 DEF ShellWrites, ShellEnds, WaiterReaps, stateVars
  <2>2. \/ shells' = shells
        \/ shells[s] = "running" /\ shells' = [shells EXCEPT ![s] = "zombie"]
        \/ shells[s] = "zombie" /\ shells' = [shells EXCEPT ![s] = "reaped"]
    BY <1>3 DEF ShellWrites, ShellEnds, WaiterReaps
  <2>3. /\ shells' \in [Shells -> {"none", "running", "zombie", "reaped"}]
        /\ \A r \in Shells :
             \/ shells'[r] = shells[r]
             \/ shells[r] = "running" /\ shells'[r] = "zombie"
             \/ shells[r] = "zombie" /\ shells'[r] = "reaped"
    BY <1>1, <2>2 DEF ShellTypes
  <2>4. ShellTypes'
    BY <1>1, <2>1, <2>3 DEF ShellTypes
  <2> QED
    BY <1>2, <2>1, <2>3, <2>4 DEF NativeQuiet
<1>4. ASSUME NEW to \in 1 .. MaxTyped, ReaderReads(s, to)
      PROVE  NativeStep /\ RoomShrinks
  <2>1. UNCHANGED <<op, mapped, hung, life, shells>>
    BY <1>4 DEF ReaderReads
  <2>2. ShellTypes'
    BY <1>1, <2>1 DEF ShellTypes
  <2> QED
    BY <1>2, <2>1, <2>2
<1>5. ASSUME NEW end \in {"exited", "lost"}, WaiterRecords(s, end)
      PROVE  NativeQuiet
  <2>1. UNCHANGED <<op, mapped, hung, shells, raw, base, total, reader>> /\ shells[s] = "reaped"
        /\ (life' = life \/ life' = [life EXCEPT ![s] = end])
    BY <1>5 DEF WaiterRecords
  <2>2. /\ life' \in [Shells -> {"none", "running", "exited", "lost", "closed"}]
        /\ \A r \in Shells : life'[r] = life[r] \/ (life'[r] \in {"exited", "lost"} /\ shells'[r] = "reaped")
    BY <1>1, <2>1 DEF ShellTypes
  <2>3. ShellTypes'
    BY <1>1, <2>1, <2>2 DEF ShellTypes
  <2> QED
    BY <1>2, <2>1, <2>2, <2>3 DEF NativeQuiet
<1> QED
  BY <1>3, <1>4, <1>5

-----------------------------------------------------------------------------
\* What a step does to the capacity and to the bytes.
LEMMA RoomLeft ==
  ASSUME RoomOK, RoomShrinks, NativeAssumption
  PROVE  RoomOK'
<1>1. /\ IsFiniteSet(mapped') /\ Cardinality(mapped') <= Cardinality(mapped)
      /\ IsFiniteSet(Admitted') /\ Cardinality(Admitted') <= Cardinality(Admitted)
  BY FS_Subset DEF RoomOK, RoomShrinks
<1>2. /\ Cardinality(mapped) \in Nat /\ Cardinality(mapped') \in Nat /\ Cardinality(Admitted) \in Nat
      /\ Cardinality(Admitted') \in Nat /\ Cardinality(Threads) \in Nat /\ Capacity \in Nat
  BY <1>1, FS_CardinalityType, NativeAssumption DEF RoomOK, NativeAssumption
<1> QED
  BY <1>1, <1>2 DEF RoomOK

LEMMA RoomTaken ==
  ASSUME ShellInv, RoomOK, NativeAssumption, NEW t \in Threads, CheckCapacity(t)
  PROVE  RoomOK'
<1>1. op \in [Threads -> NativeOp] /\ op[t].at = "idle" /\ mapped' = mapped /\ Cardinality(mapped) < Capacity
      /\ op' = Go(t, [at |-> "room", on |-> "none"])
  BY DEF ShellInv, ShellTypes, CheckCapacity
<1>2. Admitted' = Admitted \cup {t} /\ t \notin Admitted
  <2>1. op'[t].at = "room" /\ \A u \in Threads : u # t => op'[u] = op[u]
    BY <1>1 DEF Go
  <2> QED
    BY <1>1, <2>1 DEF Admitted
<1>3. Admitted \subseteq Threads /\ Admitted # Threads /\ IsFiniteSet(Threads) /\ IsFiniteSet(Admitted)
  BY <1>2, NativeAssumption DEF Admitted, NativeAssumption, RoomOK
<1>4. Cardinality(Admitted) < Cardinality(Threads)
  <2>1. Cardinality(Admitted) \in Nat /\ Cardinality(Threads) \in Nat
    BY <1>3, FS_CardinalityType
  <2>2. Cardinality(Admitted) <= Cardinality(Threads) /\ Cardinality(Admitted) # Cardinality(Threads)
    BY <1>3, FS_Subset, Zenon
  <2> QED
    BY <2>1, <2>2
<1>5. IsFiniteSet(Admitted') /\ Cardinality(Admitted') = Cardinality(Admitted) + 1
  BY <1>2, <1>3, FS_AddElement
<1>6. /\ Cardinality(mapped) \in Nat /\ Cardinality(Admitted) \in Nat /\ Cardinality(Threads) \in Nat
      /\ Capacity \in Nat /\ IsFiniteSet(mapped)
  BY <1>3, FS_CardinalityType, NativeAssumption DEF RoomOK, NativeAssumption
<1> QED
  BY <1>1, <1>4, <1>5, <1>6 DEF RoomOK

LEMMA RoomUsed ==
  ASSUME ShellInv, RoomOK, NativeAssumption, NEW t \in Threads, InsertSession(t)
  PROVE  RoomOK'
<1>1. op \in [Threads -> NativeOp] /\ op[t].at = "spawned" /\ mapped' = mapped \cup {op[t].on}
      /\ op' = Go(t, [op[t] EXCEPT !.at = "inserted"]) /\ op[t] \in NativeOp
  BY DEF ShellInv, ShellTypes, InsertSession
<1>2. Admitted' = Admitted \ {t} /\ t \in Admitted
  <2>1. op'[t].at = "inserted" /\ \A u \in Threads : u # t => op'[u] = op[u]
    BY <1>1 DEF Go, NativeOp
  <2> QED
    BY <1>1, <2>1 DEF Admitted
<1>3. IsFiniteSet(Admitted') /\ Cardinality(Admitted') = Cardinality(Admitted) - 1
  BY <1>2, FS_RemoveElement DEF RoomOK
<1>4. IsFiniteSet(mapped') /\ Cardinality(mapped') <= Cardinality(mapped) + 1
  <2>1. IsFiniteSet(mapped) /\ Cardinality(mapped) \in Nat
    BY FS_CardinalityType DEF RoomOK
  <2>2. CASE op[t].on \in mapped
    BY <1>1, <2>1, <2>2
  <2>3. CASE op[t].on \notin mapped
    <3>1. IsFiniteSet(mapped \cup {op[t].on}) /\ Cardinality(mapped \cup {op[t].on}) = Cardinality(mapped) + 1
      BY <2>1, <2>3, FS_AddElement, Zenon
    <3> QED
      BY <1>1, <2>1, <3>1
  <2> QED
    BY <2>2, <2>3
<1>5. /\ Cardinality(mapped) \in Nat /\ Cardinality(mapped') \in Nat /\ Cardinality(Admitted) \in Nat
      /\ Cardinality(Threads) \in Nat /\ Capacity \in Nat
  BY <1>4, FS_CardinalityType, NativeAssumption DEF RoomOK, NativeAssumption
<1> QED
  BY <1>3, <1>4, <1>5 DEF RoomOK

\* The bytes that a Session keeps are those from an offset to the end.
Kept(from, to) == [i \in 1 .. to - from |-> from + i]

LEMMA KeptIsSeq ==
  ASSUME NEW from \in Nat, NEW to \in Nat, from <= to
  PROVE  Kept(from, to) \in Seq(Nat) /\ Len(Kept(from, to)) = to - from
<1>1. to - from \in Nat /\ \A i \in 1 .. to - from : from + i \in Nat
  OBVIOUS
<1>2. Kept(from, to) \in [1 .. to - from -> Nat]
  BY <1>1 DEF Kept
<1> QED
  BY <1>1, <1>2, SeqDef, LenProperties

\* What SessionState::append keeps of the bytes it has and of those up to the one numbered to.
Joined(from, end, to) == Kept(from, end) \o [i \in 1 .. to - end |-> end + i]

KeepsTheEnd(from, end, to, remove) ==
  (from <= end) /\ (end <= to) /\ (remove <= to - from) =>
    SubSeq(Joined(from, end, to), remove + 1, Len(Joined(from, end, to))) = Kept(from + remove, to)

\* It keeps the end of what there is, for every cut.
LEMMA AppendKeepsTheEnd ==
  \A from \in Nat, end \in Nat, to \in Nat, remove \in Nat : KeepsTheEnd(from, end, to, remove)
<1> SUFFICES ASSUME NEW from \in Nat, NEW end \in Nat, NEW to \in Nat, NEW remove \in Nat
             PROVE  KeepsTheEnd(from, end, to, remove)
  OBVIOUS
<1> SUFFICES ASSUME from <= end, end <= to, remove <= to - from
             PROVE  SubSeq(Joined(from, end, to), remove + 1, Len(Joined(from, end, to)))
                      = Kept(from + remove, to)
  BY DEF KeepsTheEnd
<1> DEFINE old == Kept(from, end)
           new == [i \in 1 .. to - end |-> end + i]
           bytes == old \o new
           cut == SubSeq(bytes, remove + 1, Len(bytes))
<1>1. new = Kept(end, to)
  BY DEF Kept
<1>2. /\ old \in Seq(Nat) /\ Len(old) = end - from
      /\ new \in Seq(Nat) /\ Len(new) = to - end
  BY <1>1, KeptIsSeq
<1>3. ASSUME NEW i \in 1 .. end - from
      PROVE  old[i] = from + i
  BY <1>3 DEF Kept
<1>4. ASSUME NEW i \in 1 .. to - end
      PROVE  new[i] = end + i
  BY <1>4
<1> HIDE DEF old, new
<1>0. /\ bytes \in Seq(Nat) /\ Len(bytes) = Len(old) + Len(new)
      /\ \A i \in 1 .. Len(old) + Len(new) : bytes[i] = IF i <= Len(old) THEN old[i] ELSE new[i - Len(old)]
  BY <1>2, ConcatProperties, Zenon
<1> HIDE DEF bytes
<1>5. bytes \in Seq(Nat) /\ Len(bytes) = to - from
  BY <1>0, <1>2
<1>6. ASSUME NEW i \in 1 .. to - from
      PROVE  bytes[i] = from + i
  <2>1. CASE i <= end - from
    BY <1>0, <1>2, <1>3, <1>6, <2>1
  <2>2. CASE i > end - from
    <3>1. bytes[i] = new[i - (end - from)]
      <4>1. i \in 1 .. Len(old) + Len(new) /\ ~(i <= Len(old)) /\ i - Len(old) = i - (end - from)
        BY <1>2, <1>6, <2>2
      <4>2. bytes[i] = IF i <= Len(old) THEN old[i] ELSE new[i - Len(old)]
        BY <1>0, <4>1, Zenon
      <4> QED
        BY <4>1, <4>2, Zenon
    <3>2. i - (end - from) \in 1 .. to - end
      BY <2>2
    <3> QED
      BY <1>4, <3>1, <3>2
  <2> QED
    BY <2>1, <2>2
<1>7. remove + 1 \in 1 .. Len(bytes) + 1 /\ Len(bytes) \in remove .. Len(bytes)
  BY <1>5
<1>8. /\ cut \in Seq(Nat) /\ Len(cut) = to - from - remove
      /\ \A i \in 1 .. Len(bytes) - (remove + 1) + 1 : cut[i] = bytes[remove + 1 + i - 1]
  <2>1. \A i \in remove + 1 .. Len(bytes) : bytes[i] \in Nat
    BY <1>5
  <2>2. remove + 1 \in Int /\ Len(bytes) \in Int
    BY <1>5
  <2>3. /\ cut \in Seq(Nat)
        /\ Len(cut) = IF remove + 1 <= Len(bytes) THEN Len(bytes) - (remove + 1) + 1 ELSE 0
        /\ \A i \in 1 .. Len(bytes) - (remove + 1) + 1 : cut[i] = bytes[remove + 1 + i - 1]
    BY <2>1, <2>2, SubSeqProperties, SMTT(30)
  <2> HIDE DEF cut
  <2> QED
    BY <1>5, <2>3
<1>9. ASSUME NEW i \in 1 .. Len(cut)
      PROVE  cut[i] = from + remove + i
  <2> HIDE DEF cut
  <2>1. cut[i] = bytes[remove + i]
    <3>1. i \in 1 .. Len(bytes) - (remove + 1) + 1 /\ remove + 1 + i - 1 = remove + i
      BY <1>5, <1>8
    <3> QED
      BY <1>8, <3>1
  <2>2. remove + i \in 1 .. to - from
    BY <1>8
  <2> QED
    BY <1>6, <2>1, <2>2
<1>10. /\ Kept(from + remove, to) \in Seq(Nat) /\ Len(Kept(from + remove, to)) = Len(cut)
       /\ \A i \in 1 .. Len(cut) : Kept(from + remove, to)[i] = from + remove + i
  <2>1. from + remove \in Nat /\ from + remove <= to /\ to - (from + remove) = Len(cut)
    BY <1>8
  <2> QED
    BY <2>1, KeptIsSeq DEF Kept
<1>11. cut = Kept(from + remove, to)
  BY <1>8, <1>9, <1>10, SeqEqual
<1> QED
  BY <1>11 DEF bytes, old, new, Joined

LEMMA RawAppended ==
  ASSUME RawOK, NativeAssumption, NEW s \in Shells, NEW to \in Nat, total[s] < to, AppendRaw(s, to), UNCHANGED reader
  PROVE  RawOK'
<1> DEFINE bytes == raw[s] \o [i \in 1 .. to - total[s] |-> total[s] + i]
           remove == IF Len(bytes) > RawLimit THEN Len(bytes) - RawLimit ELSE 0
<1>1. /\ base[s] \in Nat /\ total[s] \in Nat /\ base[s] <= total[s] /\ raw[s] = Kept(base[s], total[s])
      /\ reader[s] \in Nat /\ reader[s] <= total[s] /\ RawLimit \in Nat
  BY NativeAssumption DEF RawOK, Kept, NativeAssumption
<1>2. bytes \in Seq(Nat) /\ Len(bytes) = to - base[s]
  <2> DEFINE new == [i \in 1 .. to - total[s] |-> total[s] + i]
  <2>1. raw[s] \in Seq(Nat) /\ Len(raw[s]) = total[s] - base[s]
    BY <1>1, KeptIsSeq
  <2>2. new = Kept(total[s], to) /\ new \in Seq(Nat) /\ Len(new) = to - total[s]
    <3>1. new = Kept(total[s], to)
      BY DEF Kept
    <3> HIDE DEF new
    <3>2. total[s] <= to
      BY <1>1
    <3> QED
      BY <1>1, <3>1, <3>2, KeptIsSeq, Zenon
  <2> HIDE DEF new
  <2>3. raw[s] \o new \in Seq(Nat) /\ Len(raw[s] \o new) = Len(raw[s]) + Len(new)
    BY <2>1, <2>2, ConcatProperties
  <2>4. raw[s] \o new \in Seq(Nat) /\ Len(raw[s] \o new) = to - base[s]
    <3>1. (total[s] - base[s]) + (to - total[s]) = to - base[s]
      BY <1>1
    <3> QED
      BY <2>1, <2>2, <2>3, <3>1, Zenon
  <2> QED
    BY <2>4 DEF new
<1>3. /\ raw' = [raw EXCEPT ![s] = SubSeq(bytes, remove + 1, Len(bytes))]
      /\ base' = [base EXCEPT ![s] = @ + remove] /\ total' = [total EXCEPT ![s] = to]
  BY DEF AppendRaw
<1>4. SubSeq(bytes, remove + 1, Len(bytes)) = Kept(base[s] + remove, to) /\ remove \in Nat
      /\ remove <= to - base[s] /\ to - (base[s] + remove) <= RawLimit
  <2> HIDE DEF bytes
  <2>1. remove \in Nat /\ remove <= to - base[s] /\ to - (base[s] + remove) <= RawLimit
    <3>1. PICK b \in Nat, n \in Nat : b = base[s] /\ n = to - base[s] /\ n = Len(bytes)
      <4>1. to - base[s] \in Nat
        BY <1>1
      <4> QED
        BY <1>1, <1>2, <4>1, Zenon
    <3>2. remove = IF n > RawLimit THEN n - RawLimit ELSE 0
      BY <3>1, Zenon
    <3>3. RawLimit \in Nat /\ n = to - b
      BY <1>1, <3>1, Zenon
    <3> HIDE DEF remove
    <3>4. remove \in Nat /\ remove <= to - b /\ to - (b + remove) <= RawLimit
      BY <3>2, <3>3
    <3> QED
      BY <3>1, <3>4, Zenon
  <2> HIDE DEF remove
  <2>2. SubSeq(bytes, remove + 1, Len(bytes)) = Kept(base[s] + remove, to)
    <3>1. raw[s] = Kept(base[s], total[s])
      BY <1>1
    <3> HIDE DEF Kept
    <3>2. total[s] <= to
      BY <1>1
    <3>3. SubSeq(Joined(base[s], total[s], to), remove + 1, Len(Joined(base[s], total[s], to)))
            = Kept(base[s] + remove, to)
      <4>1. base[s] \in Nat /\ total[s] \in Nat /\ remove \in Nat
        BY <1>1, <2>1
      <4>2. KeepsTheEnd(base[s], total[s], to, remove)
        BY <4>1, AppendKeepsTheEnd
      <4> QED
        BY <1>1, <2>1, <3>2, <4>2, Zenon DEF KeepsTheEnd
    <3>4. bytes = Joined(base[s], total[s], to)
      BY <3>1 DEF bytes, Joined
    <3> QED
      BY <3>3, <3>4
  <2> QED
    BY <2>1, <2>2
<1> HIDE DEF bytes, remove
<1>5. base[s] + remove \in Nat /\ base[s] + remove <= to
  BY <1>1, <1>4
<1>6. /\ Kept(base[s] + remove, to) \in Seq(Nat) /\ Len(Kept(base[s] + remove, to)) = to - (base[s] + remove)
  BY <1>5, KeptIsSeq
<1>7. /\ raw' \in [Shells -> Seq(Nat)] /\ base' \in [Shells -> Nat] /\ total' \in [Shells -> Nat]
      /\ reader' \in [Shells -> Nat]
  BY <1>3, <1>4, <1>5, <1>6 DEF RawOK
<1>8. /\ raw'[s] = Kept(base[s] + remove, to) /\ base'[s] = base[s] + remove /\ total'[s] = to
      /\ \A r \in Shells : r # s => raw'[r] = raw[r] /\ base'[r] = base[r] /\ total'[r] = total[r]
  BY <1>3, <1>4 DEF RawOK
<1>9. ASSUME NEW r \in Shells
      PROVE  /\ base'[r] <= total'[r] /\ raw'[r] = [i \in 1 .. total'[r] - base'[r] |-> base'[r] + i]
             /\ Len(raw'[r]) <= RawLimit /\ reader'[r] <= total'[r]
  <2>1. CASE r = s
    <3>1. raw'[s] = [i \in 1 .. total'[s] - base'[s] |-> base'[s] + i]
      BY <1>8 DEF Kept
    <3>2. reader'[s] <= to
      BY <1>1
    <3> QED
      BY <2>1, <1>4, <1>5, <1>6, <1>8, <3>1, <3>2
  <2>2. CASE r # s
    <3>1. raw'[r] = raw[r] /\ base'[r] = base[r] /\ total'[r] = total[r] /\ reader'[r] = reader[r]
      BY <2>2, <1>8
    <3>2. /\ base[r] <= total[r] /\ raw[r] = [i \in 1 .. total[r] - base[r] |-> base[r] + i]
          /\ Len(raw[r]) <= RawLimit /\ reader[r] <= total[r]
      BY DEF RawOK
    <3> QED
      BY <3>1, <3>2
  <2> QED
    BY <2>1, <2>2
<1> QED
  BY <1>7, <1>9 DEF RawOK

LEMMA RawRead ==
  ASSUME RawOK, ShellInv, NEW t \in Threads, NEW offset, ReadRaw(t, offset)
  PROVE  RawOK'
<1>1. op[t].on \in Shells /\ UNCHANGED <<raw, base, total>> /\ reader' = [reader EXCEPT ![op[t].on] = total[op[t].on]]
  BY DEF ReadRaw, ShellInv, OpOK
<1>2. reader' \in [Shells -> Nat] /\ \A s \in Shells : reader'[s] \in {reader[s], total[s]}
  BY <1>1 DEF RawOK
<1>3. \A s \in Shells : reader'[s] <= total[s]
  BY <1>2 DEF RawOK
<1> QED
  BY <1>1, <1>2, <1>3 DEF RawOK

-----------------------------------------------------------------------------
LEMMA NativeSteps ==
  ASSUME NativeAssumption, NativeInv, [NativeNext]_nativeVars
  PROVE  NativeInv'
<1>1. ShellInv /\ RoomOK /\ RawOK
  BY DEF NativeInv
<1>2. NativeQuiet => NativeInv'
  <2>1. ASSUME UNCHANGED <<raw, base, total, reader>>
        PROVE  RawOK'
    BY <1>1, <2>1 DEF RawOK
  <2> QED
    BY <1>1, <2>1, NativeFrame, RoomLeft DEF NativeQuiet, NativeInv
<1>3. NativeStep => ShellInv'
  BY <1>1, NativeFrame
<1>4. ASSUME UNCHANGED <<raw, base, total, reader>>
      PROVE  RawOK'
  BY <1>1, <1>4 DEF RawOK
<1>5. ASSUME NEW t \in Threads
      PROVE  /\ CheckCapacity(t) => NativeInv'
             /\ InsertSession(t) => NativeInv'
             /\ \A s \in Shells : SpawnShell(t, s) => NativeInv'
             /\ \A offset \in 0 .. MaxTyped : ReadRaw(t, offset) => NativeInv'
  <2>1. CheckCapacity(t) => NativeInv'
    BY <1>1, <1>3, <1>4, StartMoves, RoomTaken DEF CheckCapacity, stateVars, NativeInv
  <2>2. InsertSession(t) => NativeInv'
    BY <1>1, <1>3, <1>4, StartMoves, RoomUsed DEF InsertSession, stateVars, NativeInv
  <2>3. ASSUME NEW s \in Shells, SpawnShell(t, s)
        PROVE  NativeInv'
    BY <1>1, <1>3, <1>4, <2>3, StartMoves, RoomLeft DEF SpawnShell, NativeInv
  <2>4. ASSUME NEW offset \in 0 .. MaxTyped, ReadRaw(t, offset)
        PROVE  NativeInv'
    <3>1. offset \in Nat
      BY NativeAssumption DEF NativeAssumption
    <3> QED
      BY <1>1, <1>3, <2>4, <3>1, DropMoves, RoomLeft, RawRead DEF NativeInv
  <2> QED
    BY <2>1, <2>2, <2>3, <2>4
<1>6. ASSUME NEW s \in Shells, NEW to \in 1 .. MaxTyped, ReaderReads(s, to)
      PROVE  NativeInv'
  <2>1. ShellInv' /\ RoomOK'
    BY <1>1, <1>3, <1>6, ThreadMoves, RoomLeft
  <2>2. CASE Referenced(s, op, mapped)
    <3>1. AppendRaw(s, to) /\ UNCHANGED reader
      BY <1>6, <2>2 DEF ReaderReads
    <3>2. to \in Nat /\ total[s] \in Nat /\ to \in total[s] + 1 .. typed[s]
      BY <1>1, <1>6, NativeAssumption DEF ReaderReads, NativeAssumption, RawOK
    <3>3. total[s] < to
      BY <3>2
    <3> QED
      BY <1>1, <2>1, <3>1, <3>2, <3>3, RawAppended DEF NativeInv
  <2>3. CASE ~Referenced(s, op, mapped)
    BY <1>4, <1>6, <2>1, <2>3 DEF ReaderReads, NativeInv
  <2> QED
    BY <2>2, <2>3
<1>7. ASSUME NEW t \in Threads,
             \/ SpawnFails(t) \/ SpawnReader(t) \/ SpawnWaiter(t) \/ ThreadFails(t) \/ WaitReturns(t)
             \/ CheckSignal(t) \/ CheckClose(t) \/ SetClosed(t) \/ RemoveClosed(t)
      PROVE  NativeInv'
  BY <1>1, <1>2, <1>7, StartMoves, DropMoves, CallMoves DEF SpawnFails, WaitReturns
<1>8. ASSUME NEW t \in Threads, NEW deadly \in BOOLEAN, SendSignal(t, deadly) \/ Hangup(t, deadly)
      PROVE  NativeInv'
  BY <1>1, <1>2, <1>8, DropMoves, CallMoves
<1>9. ASSUME NEW t \in Threads, NEW s \in Shells, NEW kind \in {"wait", "readRaw", "signal", "close"}, Find(t, s, kind)
      PROVE  NativeInv'
  BY <1>1, <1>2, <1>9, CallMoves
<1>10. ASSUME NEW s \in Shells, ShellWrites(s) \/ ShellEnds(s) \/ WaiterReaps(s)
       PROVE  NativeInv'
  BY <1>1, <1>2, <1>10, ThreadMoves
<1>11. ASSUME NEW s \in Shells, NEW end \in {"exited", "lost"}, WaiterRecords(s, end)
       PROVE  NativeInv'
  BY <1>1, <1>2, <1>11, ThreadMoves
<1>12. HostDropped => NativeInv'
  <2>1. ASSUME NEW t \in Threads, HostDropped
        PROVE  NativeInv'
    BY <1>1, <1>2, <2>1, DropMoves
  <2>2. ASSUME Threads = {}, HostDropped
        PROVE  NativeInv'
    <3>1. /\ op' = op /\ mapped' = {} /\ DropUnused(op', mapped') /\ shells' = shells
          /\ UNCHANGED <<life, raw, base, total, reader>>
      BY <2>2 DEF HostDropped, stateVars, DropUnused
    <3>2. ShellTypes'
      BY <1>1, <3>1 DEF ShellInv, ShellTypes, DropUnused
    <3> QED
      BY <1>1, <1>2, <3>1, <3>2, DropsQuietly DEF NativeQuiet
  <2> QED
    BY <2>1, <2>2
<1>13. CASE UNCHANGED nativeVars
  <2>1. UNCHANGED <<shells, life, mapped, hung, op, raw, base, total, reader>>
    BY <1>13 DEF nativeVars
  <2>2. RoomOK'
    BY <1>1, <2>1 DEF RoomOK, Admitted
  <2>3. ShellInv'
    BY <1>1, <2>1 DEF ShellInv, ShellTypes, ShellOK, OpOK, Referenced
  <2> QED
    BY <1>4, <2>1, <2>2, <2>3 DEF NativeInv
<1>14. CASE NativeNext
  BY <1>5, <1>6, <1>7, <1>8, <1>9, <1>10, <1>11, <1>12, <1>14, Zenon DEF NativeNext
<1> QED
  BY <1>13, <1>14

LEMMA NativeHolds == NativeSpec => []NativeInv
<1>1. NativeInit => NativeInv
  <2>1. SUFFICES ASSUME NativeInit
                 PROVE  NativeInv
    OBVIOUS
  <2>2. ShellInv
    BY <2>1 DEF NativeInit, ShellInv, ShellTypes, ShellOK, OpOK, NoOp, NativeOp, NativePhases
  <2>3. mapped = {} /\ Admitted = {}
    BY <2>1 DEF NativeInit, Admitted, NoOp
  <2>4. RoomOK
    <3>1. Cardinality(Threads) \in Nat /\ Capacity \in Nat /\ Capacity > 0
      BY NativeAssumption, FS_CardinalityType DEF NativeAssumption
    <3>2. IsFiniteSet({}) /\ Cardinality({}) = 0
      BY FS_EmptySet
    <3> QED
      BY <2>3, <3>1, <3>2 DEF RoomOK
  <2>5. RawOK
    <3>1. /\ raw = [s \in Shells |-> <<>>] /\ base = [s \in Shells |-> 0] /\ total = [s \in Shells |-> 0]
          /\ reader = [s \in Shells |-> 0]
      BY <2>1 DEF NativeInit
    <3>2. <<>> \in Seq(Nat) /\ Len(<<>>) = 0 /\ <<>> = Kept(0, 0)
      BY KeptIsSeq, EmptySeq
    <3>3. RawLimit \in Nat
      BY NativeAssumption DEF NativeAssumption
    <3>4. ASSUME NEW s \in Shells
          PROVE  base[s] = 0 /\ total[s] = 0 /\ reader[s] = 0 /\ raw[s] = Kept(0, 0) /\ Len(raw[s]) = 0
      BY <3>1, <3>2
    <3>5. ASSUME NEW s \in Shells
          PROVE  raw[s] = [i \in 1 .. total[s] - base[s] |-> base[s] + i]
      BY <3>4 DEF Kept
    <3>6. /\ raw \in [Shells -> Seq(Nat)] /\ base \in [Shells -> Nat] /\ total \in [Shells -> Nat]
          /\ reader \in [Shells -> Nat]
      BY <3>1, <3>2
    <3> QED
      BY <3>3, <3>4, <3>5, <3>6 DEF RawOK
  <2> QED
    BY <2>2, <2>4, <2>5 DEF NativeInv
<1>2. NativeInv /\ [NativeNext]_nativeVars => NativeInv'
  BY NativeSteps, NativeAssumption
<1> QED
  BY <1>1, <1>2, PTL DEF NativeSpec

\* No shell is left behind, races of start go over the capacity by a session each at most,
\* and what is retained is the end of what was read.
THEOREM NativeIsSound == NativeSpec => []NativeSound
<1>1. NativeInv => NativeSound
  <2>1. SUFFICES ASSUME NativeInv
                 PROVE  NativeSound
    OBVIOUS
  <2>2. Cardinality(mapped) <= Capacity + Cardinality(Threads) - 1
    <3>1. /\ Cardinality(mapped) \in Nat /\ Cardinality(Admitted) \in Nat /\ Cardinality(Threads) \in Nat
          /\ Capacity \in Nat
      BY <2>1, NativeAssumption, FS_CardinalityType DEF NativeInv, RoomOK, NativeAssumption
    <3> QED
      BY <2>1, <3>1 DEF NativeInv, RoomOK
  <2>3. \A s \in Shells : shells[s] = "running" => Referenced(s, op, mapped) \/ s \in hung
    BY <2>1 DEF NativeInv, ShellInv, ShellOK
  <2>4. \A s \in Shells : life[s] \in {"exited", "lost"} => shells[s] = "reaped"
    BY <2>1 DEF NativeInv, ShellInv, ShellOK
  <2>5. RawOK
    BY <2>1 DEF NativeInv
  <2> QED
    BY <2>2, <2>3, <2>4, <2>5 DEF NativeSound, RawOK
<1> QED
  BY <1>1, NativeHolds, PTL

-----------------------------------------------------------------------------
(* Memories and SkillStore.                                                *)

MemoryRecord ==
  [at : {"idle", "waiting", "locked", "loaded"}, action : {"none", "save", "list", "clear"},
   fact : Facts \cup {"none"}, facts : Seq(Facts)]
MemoryTypes ==
  /\ memories \in Seq(Facts) /\ remembered \in SUBSET Facts /\ memoryLock \in Users \cup {"free"}
  /\ memoryCall \in [Users -> MemoryRecord]

\* Who has gone past the lock holds it, and what it has loaded is what is in the file.
HoldsLock(u) ==
  /\ memoryCall[u].at \in {"locked", "loaded"} => memoryLock = u
  /\ memoryCall[u].action = "save" => memoryCall[u].fact \in Facts
  /\ memoryCall[u].at = "loaded" => memoryCall[u].action = "save" /\ memoryCall[u].facts = memories
MemoryInv == MemoryTypes /\ (\A u \in Users : HoldsLock(u)) /\ MemoryKept

MemorySpec == MemoryInit /\ [][MemoryNext]_memoryVars

Trees == [install : Nat, whole : BOOLEAN]
WorkStages == {"idle", "fetching", "ready", "copying", "staged", "locked", "aside"}
WorkRecord == [at : WorkStages, todo : Seq(Skills), install : Nat, staged : Trees, backup : Trees]
SkillTypes ==
  /\ managed \in [Skills -> Trees] /\ work \in [Installers -> WorkRecord]
  /\ skillLock \in [Skills -> Installers \cup {"free"}] /\ loaded \in [Installers -> Trees]
  /\ had \in SUBSET Skills /\ installs \in Nat

\* A session that replaces a skill holds its lock, has a whole tree to put in its place, and
\* what it has moved aside was one.
WorkOK(i) ==
  /\ work[i].at \in {"copying", "staged", "locked", "aside"} => work[i].todo # <<>>
  /\ work[i].at \in {"staged", "locked", "aside"} => work[i].staged.whole
  /\ work[i].at \in {"locked", "aside"} => skillLock[Current(i)] = i
  /\ work[i].at = "aside" => managed[Current(i)] = NoTree
  /\ work[i].at # "aside" => work[i].backup = NoTree
  /\ work[i].backup # NoTree => work[i].backup.whole
Backs(i, skill) == work[i].backup # NoTree /\ Current(i) = skill
SkillOK(skill) ==
  /\ skill \in had => \/ managed[skill] # NoTree
                      \/ \E i \in Installers : Backs(i, skill)
                      \/ \E l \in left : l.skill = skill
  /\ managed[skill] # NoTree => managed[skill].whole
SkillsInv ==
  /\ SkillTypes /\ (\A i \in Installers : WorkOK(i) /\ (loaded[i] # NoTree => loaded[i].whole))
  /\ \A skill \in Skills : SkillOK(skill)

SkillsSpec == SkillsInit /\ [][SkillsNext]_skillVars

-----------------------------------------------------------------------------
\* The call of u goes on or ends, and the lock is taken or released by it only.
MemoryMoves(u) ==
  /\ memoryCall' \in [Users -> MemoryRecord] /\ memoryLock' \in Users \cup {"free"}
  /\ \A v \in Users : v # u => memoryCall'[v] = memoryCall[v]
  /\ memoryLock' = memoryLock \/ memoryLock \in {u, "free"}
  /\ HoldsLock(u)'

\* A step of u that changes the file is that of the holder of the lock.
LEMMA MemoryFrame ==
  ASSUME MemoryInv, MemoryAssumption, NEW u \in Users, MemoryMoves(u),
         memories' \in Seq(Facts), remembered' \in SUBSET Facts,
         memories' = memories \/ memoryLock = u, MemoryKept'
  PROVE  MemoryInv'
<1>1. MemoryTypes'
  BY DEF MemoryTypes, MemoryMoves
<1>2. ASSUME NEW v \in Users, v # u
      PROVE  HoldsLock(v)'
  <2>1. memoryCall'[v] = memoryCall[v] /\ HoldsLock(v)
    BY <1>2 DEF MemoryMoves, MemoryInv
  <2>2. memoryLock = v => memoryLock' = v /\ memories' = memories
    BY <1>2, MemoryAssumption DEF MemoryMoves, MemoryAssumption
  <2> QED
    BY <2>1, <2>2 DEF HoldsLock
<1>3. HoldsLock(u)'
  BY DEF MemoryMoves
<1> QED
  BY <1>1, <1>2, <1>3 DEF MemoryInv

LEMMA MemoryLeaves ==
  ASSUME MemoryInv, MemoryAssumption, NEW u \in Users, Leave(u)
  PROVE  MemoryMoves(u)
<1>1. Ready \in MemoryRecord /\ Ready.at = "idle" /\ Ready.action = "none"
  <2>1. <<>> \in Seq(Facts)
    OBVIOUS
  <2> QED
    BY <2>1 DEF Ready, MemoryRecord
<1>2. memoryCall \in [Users -> MemoryRecord] /\ memoryLock \in Users \cup {"free"}
  BY DEF MemoryInv, MemoryTypes
<1> HIDE DEF Ready
<1>3. /\ memoryCall' \in [Users -> MemoryRecord] /\ memoryCall'[u] = Ready
      /\ \A v \in Users : v # u => memoryCall'[v] = memoryCall[v]
  BY <1>1, <1>2 DEF Leave
<1>4. memoryLock' \in Users \cup {"free"} /\ (memoryLock' = memoryLock \/ memoryLock = u)
  BY <1>2 DEF Leave
<1> QED
  BY <1>1, <1>3, <1>4 DEF MemoryMoves, HoldsLock

\* A call that goes on, as r.
LEMMA MemoryGoes ==
  ASSUME MemoryInv, NEW u \in Users, NEW r \in MemoryRecord, memoryCall' = [memoryCall EXCEPT ![u] = r]
  PROVE  /\ memoryCall' \in [Users -> MemoryRecord] /\ memoryCall'[u] = r
         /\ \A v \in Users : v # u => memoryCall'[v] = memoryCall[v]
BY DEF MemoryInv, MemoryTypes

LEMMA MemoryStep ==
  ASSUME MemoryInv, MemoryAssumption, [MemoryNext]_memoryVars
  PROVE  MemoryInv'
<1>0. MemoryTypes /\ MemoryKept /\ \A u \in Users : HoldsLock(u) /\ memoryCall[u] \in MemoryRecord
  BY DEF MemoryInv, MemoryTypes
<1>1. ASSUME UNCHANGED <<memories, remembered>>
      PROVE  memories' \in Seq(Facts) /\ remembered' \in SUBSET Facts /\ memories' = memories /\ MemoryKept'
  BY <1>0, <1>1 DEF MemoryTypes, MemoryKept
<1>2. ASSUME NEW u \in Users, UNCHANGED <<memories, remembered>>, MemoryMoves(u)
      PROVE  MemoryInv'
  BY <1>1, <1>2, MemoryFrame
<1>3. ASSUME NEW u \in Users, NEW action \in {"save", "list", "clear"}, NEW fact \in Facts \cup {"none"},
             action = "save" => fact \in Facts, CallMemory(u, action, fact)
      PROVE  MemoryInv'
  <2> DEFINE r == [at |-> "waiting", action |-> action, fact |-> fact, facts |-> <<>>]
  <2>1. r \in MemoryRecord /\ r.at = "waiting" /\ r.action = action /\ r.fact = fact
    <3>1. <<>> \in Seq(Facts)
      OBVIOUS
    <3> QED
      BY <1>3, <3>1 DEF MemoryRecord
  <2>2. memoryCall' = [memoryCall EXCEPT ![u] = r] /\ UNCHANGED <<memories, memoryLock, remembered>>
    BY <1>3 DEF CallMemory
  <2> HIDE DEF r
  <2>3. MemoryMoves(u)
    BY <1>0, <1>3, <2>1, <2>2, MemoryGoes DEF MemoryMoves, HoldsLock, MemoryTypes
  <2> QED
    BY <1>2, <2>2, <2>3
<1>4. ASSUME NEW u \in Users, LockMemory(u)
      PROVE  MemoryInv'
  <2> DEFINE r == [memoryCall[u] EXCEPT !.at = "locked"]
  <2>1. r \in MemoryRecord /\ r.at = "locked" /\ r.action = memoryCall[u].action /\ r.fact = memoryCall[u].fact
    BY <1>0 DEF MemoryRecord
  <2>2. /\ memoryCall' = [memoryCall EXCEPT ![u] = r] /\ memoryLock = "free" /\ memoryLock' = u
        /\ UNCHANGED <<memories, remembered>>
    BY <1>4 DEF LockMemory
  <2> HIDE DEF r
  <2>3. MemoryMoves(u)
    BY <1>0, <2>1, <2>2, MemoryGoes DEF MemoryMoves, HoldsLock
  <2> QED
    BY <1>2, <2>2, <2>3
<1>5. ASSUME NEW u \in Users, LockMemoryTimeout(u) \/ MemoryFails(u)
      PROVE  MemoryInv'
  BY <1>2, <1>5, MemoryLeaves DEF LockMemoryTimeout, MemoryFails
<1>6. ASSUME NEW u \in Users, LoadMemories(u)
      PROVE  MemoryInv'
  <2>1. CASE memoryCall[u].action = "list"
    BY <1>2, <1>6, <2>1, MemoryLeaves DEF LoadMemories
  <2>2. CASE memoryCall[u].action # "list"
    <3> DEFINE r == [memoryCall[u] EXCEPT !.at = "loaded", !.facts = memories]
    <3>1. /\ r \in MemoryRecord /\ r.at = "loaded" /\ r.action = memoryCall[u].action
          /\ r.fact = memoryCall[u].fact /\ r.facts = memories
      BY <1>0 DEF MemoryRecord, MemoryTypes
    <3>2. /\ memoryCall' = [memoryCall EXCEPT ![u] = r] /\ memoryCall[u].at = "locked"
          /\ memoryCall[u].action = "save" /\ UNCHANGED <<memories, memoryLock, remembered>>
      BY <1>6, <2>2 DEF LoadMemories
    <3> HIDE DEF r
    <3>3. MemoryMoves(u)
      BY <1>0, <3>1, <3>2, MemoryGoes DEF MemoryMoves, HoldsLock, MemoryTypes
    <3> QED
      BY <1>2, <3>2, <3>3
  <2> QED
    BY <2>1, <2>2
<1>7. ASSUME NEW u \in Users, SaveMemory(u)
      PROVE  MemoryInv'
  <2> DEFINE fact == memoryCall[u].fact
             known == memoryCall[u].facts
  <2>1. /\ fact \in Facts /\ known = memories /\ memoryLock = u
    BY <1>0, <1>7 DEF SaveMemory, HoldsLock
  <2>2. MemoryMoves(u)
    BY <1>7, MemoryLeaves DEF SaveMemory
  <2>3. CASE ~Contains(known, fact) /\ Len(known) >= MaxFacts
    BY <1>2, <1>7, <2>2, <2>3 DEF SaveMemory
  <2>4. CASE Contains(known, fact)
    <3>1. memories' = memories /\ remembered' = remembered \cup {fact}
      BY <1>7, <2>4 DEF SaveMemory
    <3>2. fact \in ToSet(memories)
      BY <1>0, <2>1, <2>4 DEF Contains, ToSet, MemoryTypes
    <3> HIDE DEF fact
    <3>3. MemoryKept'
      BY <1>0, <3>1, <3>2 DEF MemoryKept
    <3> QED
      BY <1>0, <2>1, <2>2, <3>1, <3>3, MemoryFrame DEF MemoryTypes
  <2>5. CASE ~Contains(known, fact) /\ Len(known) < MaxFacts
    <3>1. memories' = Append(memories, fact) /\ remembered' = remembered \cup {fact}
      <4>1. Len(known) \in Nat
        BY <1>0, <2>1 DEF MemoryTypes
      <4> QED
        BY <1>7, <2>1, <2>5, <4>1, MemoryAssumption DEF SaveMemory, MemoryAssumption
    <3>2. \A i \in 1 .. Len(memories) : memories[i] # fact
      BY <2>1, <2>5 DEF Contains
    <3>3. memories \in Seq(Facts) /\ Len(memories) < MaxFacts
      BY <1>0, <2>1, <2>5 DEF MemoryTypes
    <3> HIDE DEF fact, known
    <3>4. /\ memories' \in Seq(Facts) /\ Len(memories') = Len(memories) + 1 /\ memories'[Len(memories) + 1] = fact
          /\ \A i \in 1 .. Len(memories) : memories'[i] = memories[i]
      BY <2>1, <3>1, <3>3, AppendProperties
    <3>5. ToSet(memories) \cup {fact} \subseteq ToSet(memories')
      <4>1. DOMAIN memories = 1 .. Len(memories) /\ DOMAIN memories' = 1 .. Len(memories) + 1
        BY <3>3, <3>4
      <4>2. Len(memories) + 1 \in 1 .. Len(memories) + 1 /\ 1 .. Len(memories) \subseteq 1 .. Len(memories) + 1
        BY <3>3
      <4> QED
        BY <3>4, <4>1, <4>2 DEF ToSet
    <3>6. IsInjective(memories')
      <4>1. DOMAIN memories = 1 .. Len(memories) /\ DOMAIN memories' = 1 .. Len(memories) + 1 /\ Len(memories) \in Nat
        BY <3>3, <3>4
      <4>2. IsInjective(memories)
        BY <1>0 DEF MemoryKept
      <4>3. ASSUME NEW i \in 1 .. Len(memories) + 1, NEW j \in 1 .. Len(memories) + 1, memories'[i] = memories'[j]
            PROVE  i = j
        <5>1. i \in 1 .. Len(memories) \/ i = Len(memories) + 1
          BY <4>1
        <5>2. j \in 1 .. Len(memories) \/ j = Len(memories) + 1
          BY <4>1
        <5> QED
          BY <3>2, <3>4, <4>1, <4>2, <4>3, <5>1, <5>2 DEF IsInjective
      <4> QED
        BY <4>1, <4>3 DEF IsInjective
    <3>7. Len(memories') <= MaxFacts
      BY <3>3, <3>4, MemoryAssumption DEF MemoryAssumption
    <3>8. MemoryKept'
      BY <1>0, <3>1, <3>5, <3>6, <3>7 DEF MemoryKept
    <3> QED
      BY <1>0, <2>1, <2>2, <3>1, <3>4, <3>8, MemoryFrame DEF MemoryTypes
  <2> QED
    <3>1. Len(known) \in Nat /\ MaxFacts \in Nat
      BY <1>0, <2>1, MemoryAssumption DEF MemoryTypes, MemoryAssumption
    <3>2. Len(known) >= MaxFacts \/ Len(known) < MaxFacts
      BY <3>1
    <3> QED
      BY <2>3, <2>4, <2>5, <3>2
<1>8. ASSUME NEW u \in Users, ClearMemories(u)
      PROVE  MemoryInv'
  <2>1. /\ memories' = <<>> /\ remembered' = {} /\ MemoryMoves(u) /\ memoryLock = u
    BY <1>0, <1>8, MemoryLeaves DEF ClearMemories, HoldsLock
  <2>2. <<>> \in Seq(Facts) /\ Len(<<>>) = 0 /\ IsInjective(<<>>)
    BY DEF IsInjective
  <2>3. MemoryKept'
    BY <2>1, <2>2, MemoryAssumption DEF MemoryKept, MemoryAssumption
  <2> QED
    BY <2>1, <2>2, <2>3, MemoryFrame
<1>9. CASE UNCHANGED memoryVars
  BY <1>0, <1>9 DEF memoryVars, MemoryInv, MemoryTypes, HoldsLock, MemoryKept
<1>10. CASE MemoryNext
  <2>1. PICK u \in Users :
          \/ \E fact \in Facts : CallMemory(u, "save", fact)
          \/ \E action \in {"list", "clear"} : CallMemory(u, action, "none")
          \/ LockMemory(u) \/ LockMemoryTimeout(u) \/ LoadMemories(u) \/ SaveMemory(u)
          \/ ClearMemories(u) \/ MemoryFails(u)
    BY <1>10 DEF MemoryNext
  <2> QED
    BY <1>3, <1>4, <1>5, <1>6, <1>7, <1>8, <2>1
<1> QED
  BY <1>9, <1>10

LEMMA MemoryHolds == MemorySpec => []MemoryInv
<1>1. MemoryInit => MemoryInv
  <2>1. SUFFICES ASSUME MemoryInit
                 PROVE  MemoryInv
    OBVIOUS
  <2>2. <<>> \in Seq(Facts) /\ Len(<<>>) = 0 /\ IsInjective(<<>>)
    BY DEF IsInjective
  <2>3. Ready \in MemoryRecord /\ Ready.at = "idle" /\ Ready.action = "none"
    BY <2>2 DEF Ready, MemoryRecord
  <2> HIDE DEF Ready
  <2> QED
    BY <2>1, <2>2, <2>3, MemoryAssumption
    DEF MemoryInit, MemoryInv, MemoryTypes, HoldsLock, MemoryKept, MemoryAssumption
<1>2. MemoryInv /\ [MemoryNext]_memoryVars => MemoryInv'
  BY MemoryStep, MemoryAssumption
<1> QED
  BY <1>1, <1>2, PTL DEF MemorySpec

\* A fact that was reported as remembered is in the file until the facts are cleared.
THEOREM MemoryIsKept == MemorySpec => []MemoryKept
<1>1. MemoryInv => MemoryKept
  BY DEF MemoryInv
<1> QED
  BY <1>1, MemoryHolds, PTL

-----------------------------------------------------------------------------
(* SkillStore.                                                             *)

LEMMA NoTreeType == NoTree \in Trees /\ ~NoTree.whole
BY DEF NoTree, Trees

\* A step of the install of i: it gets or gives up locks of its own, and changes what is in
\* place of the skill whose lock it holds.
InstallMoves(i) ==
  /\ SkillTypes' /\ WorkOK(i)' /\ (loaded'[i] # NoTree => loaded'[i].whole)
  /\ \A j \in Installers : j # i => work'[j] = work[j] /\ loaded'[j] = loaded[j]
  /\ \A skill \in Skills : skillLock'[skill] = skillLock[skill] \/ skillLock[skill] \in {i, "free"}
  /\ \A skill \in Skills :
       \/ managed'[skill] = managed[skill]
       \/ skillLock[skill] = i /\ (managed'[skill] = NoTree \/ managed'[skill].whole)
  /\ had \subseteq had' /\ left \subseteq left'
  /\ \A skill \in had' \ had : managed'[skill] # NoTree
  /\ \A skill \in Skills :
       /\ managed[skill] # NoTree => managed'[skill] # NoTree \/ Backs(i, skill)'
       /\ Backs(i, skill) => managed'[skill] # NoTree \/ Backs(i, skill)' \/ \E l \in left' : l.skill = skill

LEMMA SkillsFrame ==
  ASSUME SkillsInv, SkillsAssumption, NEW i \in Installers, InstallMoves(i)
  PROVE  SkillsInv'
<1>1. ASSUME NEW j \in Installers
      PROVE  WorkOK(j)' /\ (loaded'[j] # NoTree => loaded'[j].whole)
  <2>1. CASE j = i
    BY <2>1 DEF InstallMoves
  <2>2. CASE j # i
    <3>1. work'[j] = work[j] /\ loaded'[j] = loaded[j] /\ WorkOK(j) /\ (loaded[j] # NoTree => loaded[j].whole)
      BY <2>2 DEF InstallMoves, SkillsInv
    <3>2. work[j] \in WorkRecord
      BY DEF SkillsInv, SkillTypes
    <3>3. ASSUME work[j].at \in {"locked", "aside"}
          PROVE  skillLock'[Current(j)] = j /\ managed'[Current(j)] = managed[Current(j)]
      <4>1. Current(j) \in Skills
        BY <3>1, <3>2, <3>3, HeadTailProperties DEF Current, WorkOK, WorkRecord
      <4>2. skillLock[Current(j)] = j /\ j \notin {i, "free"}
        BY <2>2, <3>1, <3>3, SkillsAssumption DEF WorkOK, SkillsAssumption
      <4> QED
        BY <4>1, <4>2 DEF InstallMoves
    <3>4. Current(j)' = Current(j)
      BY <3>1 DEF Current
    <3> QED
      BY <3>1, <3>3, <3>4 DEF WorkOK
  <2> QED
    BY <2>1, <2>2
<1>2. ASSUME NEW skill \in Skills
      PROVE  SkillOK(skill)'
  <2>1. SkillOK(skill)
    BY DEF SkillsInv
  <2>2. managed'[skill] # NoTree => managed'[skill].whole
    BY <2>1 DEF InstallMoves, SkillOK
  <2>3. ASSUME skill \in had'
        PROVE  \/ managed'[skill] # NoTree
               \/ \E j \in Installers : Backs(j, skill)'
               \/ \E l \in left' : l.skill = skill
    <3>1. CASE skill \notin had
      BY <2>3, <3>1 DEF InstallMoves
    <3>2. CASE skill \in had /\ managed[skill] # NoTree
      BY <3>2 DEF InstallMoves
    <3>3. CASE \E j \in Installers : Backs(j, skill)
      <4>1. PICK j \in Installers : Backs(j, skill)
        BY <3>3
      <4>2. CASE j = i
        BY <4>1, <4>2 DEF InstallMoves
      <4>3. CASE j # i
        <5>1. work'[j] = work[j]
          BY <4>3 DEF InstallMoves
        <5>2. Backs(j, skill)'
          BY <4>1, <5>1 DEF Backs, Current
        <5> QED
          BY <5>2
      <4> QED
        BY <4>2, <4>3
    <3>4. CASE \E l \in left : l.skill = skill
      BY <3>4 DEF InstallMoves
    <3> QED
      BY <2>1, <3>1, <3>2, <3>3, <3>4 DEF SkillOK
  <2> QED
    BY <2>2, <2>3 DEF SkillOK
<1>3. SkillTypes'
  BY DEF InstallMoves
<1> QED
  BY <1>1, <1>2, <1>3 DEF SkillsInv

\* The install of i goes on, as r.
LEMMA WorkGoes ==
  ASSUME SkillTypes, NEW i \in Installers, NEW r \in WorkRecord, work' = [work EXCEPT ![i] = r]
  PROVE  /\ work' \in [Installers -> WorkRecord] /\ work'[i] = r
         /\ \A j \in Installers : j # i => work'[j] = work[j]
BY DEF SkillTypes

LEMMA RestingType ==
  /\ Resting \in WorkRecord /\ Resting.at = "idle" /\ Resting.todo = <<>>
  /\ Resting.staged = NoTree /\ Resting.backup = NoTree
<1>1. <<>> \in Seq(Skills)
  OBVIOUS
<1> QED
  BY <1>1, NoTreeType DEF Resting, WorkRecord, WorkStages

\* What a step that leaves the directory and the backups has to be.
LEMMA WorkStep ==
  ASSUME SkillsInv, SkillsAssumption, NEW i \in Installers, NEW r \in WorkRecord,
         work' = [work EXCEPT ![i] = r], UNCHANGED <<managed, had>>, left \subseteq left', installs' \in Nat,
         skillLock' \in [Skills -> Installers \cup {"free"}],
         \A skill \in Skills : skillLock'[skill] = skillLock[skill] \/ skillLock[skill] \in {i, "free"},
         WorkOK(i)', UNCHANGED loaded, work[i].backup = NoTree
  PROVE  SkillsInv'
<1>1. SkillTypes /\ (loaded[i] # NoTree => loaded[i].whole)
  BY DEF SkillsInv
<1>2. /\ work' \in [Installers -> WorkRecord] /\ \A j \in Installers : j # i => work'[j] = work[j]
  BY <1>1, WorkGoes
<1>3. SkillTypes'
  BY <1>1, <1>2 DEF SkillTypes
<1>4. InstallMoves(i)
  BY <1>1, <1>2, <1>3 DEF InstallMoves, Backs
<1> QED
  BY <1>4, SkillsFrame

\* The locks that Abandon and PutInPlace release.
LEMMA UnlockedType ==
  ASSUME SkillTypes, NEW i \in Installers, skillLock' = Unlocked(i)
  PROVE  /\ skillLock' \in [Skills -> Installers \cup {"free"}]
         /\ \A skill \in Skills : skillLock'[skill] = skillLock[skill] \/ skillLock[skill] \in {i, "free"}
BY DEF SkillTypes, Unlocked

LEMMA AbandonMoves ==
  ASSUME SkillsInv, NEW i \in Installers, Abandon(i), UNCHANGED loaded, installs' \in Nat,
         managed' \in [Skills -> Trees], had' \in SUBSET Skills
  PROVE  /\ SkillTypes' /\ WorkOK(i)' /\ (loaded'[i] # NoTree => loaded'[i].whole)
         /\ \A j \in Installers : j # i => work'[j] = work[j] /\ loaded'[j] = loaded[j]
         /\ \A skill \in Skills : skillLock'[skill] = skillLock[skill] \/ skillLock[skill] \in {i, "free"}
<1>1. SkillTypes /\ (loaded[i] # NoTree => loaded[i].whole)
  BY DEF SkillsInv
<1>2. /\ work' \in [Installers -> WorkRecord] /\ work'[i] = Resting
      /\ \A j \in Installers : j # i => work'[j] = work[j]
  BY <1>1, RestingType, WorkGoes DEF Abandon
<1>3. /\ skillLock' \in [Skills -> Installers \cup {"free"}]
      /\ \A skill \in Skills : skillLock'[skill] = skillLock[skill] \/ skillLock[skill] \in {i, "free"}
  BY <1>1, UnlockedType DEF Abandon
<1>4. SkillTypes'
  BY <1>1, <1>2, <1>3 DEF SkillTypes
<1>5. WorkOK(i)'
  BY <1>2, RestingType DEF WorkOK
<1> QED
  BY <1>1, <1>2, <1>3, <1>4, <1>5

LEMMA InstallSteps ==
  ASSUME SkillsInv, SkillsAssumption, NEW i \in Installers,
         \/ \E source \in Sources : InstallSkill(i, source)
         \/ Fetch(i) \/ CopyBegins(i) \/ CopyEnds(i) \/ LockSkill(i)
  PROVE  SkillsInv'
<1>1. SkillTypes /\ WorkOK(i) /\ work[i] \in WorkRecord /\ installs \in Nat
      /\ skillLock \in [Skills -> Installers \cup {"free"}]
  BY DEF SkillsInv, SkillTypes
<1>2. ASSUME NEW source \in Sources, InstallSkill(i, source)
      PROVE  SkillsInv'
  <2> DEFINE r == [Resting EXCEPT !.at = "fetching", !.todo = source, !.install = installs + 1]
  <2>1. r \in WorkRecord /\ r.at = "fetching" /\ r.backup = NoTree
    <3>1. source \in Seq(Skills) /\ installs + 1 \in Nat
      BY <1>1, SkillsAssumption DEF SkillsAssumption
    <3> QED
      BY <3>1, RestingType DEF WorkRecord, WorkStages
  <2>2. /\ work' = [work EXCEPT ![i] = r] /\ UNCHANGED <<managed, skillLock, left, loaded, had>>
        /\ work[i].backup = NoTree /\ installs' \in Nat
    <3>1. work' = [work EXCEPT ![i] = r] /\ UNCHANGED <<managed, skillLock, left, loaded, had>>
      BY <1>2, Zenon DEF InstallSkill
    <3>2. work[i].at = "idle" /\ installs' = installs + 1
      BY <1>2, Zenon DEF InstallSkill
    <3> HIDE DEF r
    <3> QED
      BY <1>1, <3>1, <3>2 DEF WorkOK
  <2> HIDE DEF r
  <2>3. WorkOK(i)'
    BY <1>1, <2>1, <2>2, WorkGoes DEF WorkOK
  <2> QED
    BY <1>1, <2>1, <2>2, <2>3, WorkStep
<1>3. ASSUME Fetch(i)
      PROVE  SkillsInv'
  <2> DEFINE r == [work[i] EXCEPT !.at = "ready"]
  <2>1. r \in WorkRecord /\ r.at = "ready" /\ r.backup = work[i].backup
    BY <1>1 DEF WorkRecord, WorkStages
  <2>2. /\ work' = [work EXCEPT ![i] = r] /\ UNCHANGED <<managed, skillLock, left, loaded, had, installs>>
        /\ work[i].backup = NoTree
    BY <1>1, <1>3 DEF Fetch, WorkOK
  <2> HIDE DEF r
  <2>3. WorkOK(i)'
    BY <1>1, <2>1, <2>2, WorkGoes DEF WorkOK
  <2> QED
    BY <1>1, <2>1, <2>2, <2>3, WorkStep
<1>4. ASSUME CopyBegins(i)
      PROVE  SkillsInv'
  <2> DEFINE r == [work[i] EXCEPT !.at = "copying", !.staged = [install |-> work[i].install, whole |-> FALSE]]
  <2>1. r \in WorkRecord /\ r.at = "copying" /\ r.backup = work[i].backup /\ r.todo = work[i].todo
    BY <1>1 DEF WorkRecord, WorkStages, Trees
  <2>2. /\ work' = [work EXCEPT ![i] = r] /\ UNCHANGED <<managed, skillLock, left, loaded, had, installs>>
        /\ work[i].backup = NoTree /\ work[i].todo # <<>>
    BY <1>1, <1>4 DEF CopyBegins, WorkOK
  <2> HIDE DEF r
  <2>3. WorkOK(i)'
    BY <1>1, <2>1, <2>2, WorkGoes DEF WorkOK
  <2> QED
    BY <1>1, <2>1, <2>2, <2>3, WorkStep
<1>5. ASSUME CopyEnds(i)
      PROVE  SkillsInv'
  <2> DEFINE r == [work[i] EXCEPT !.at = "staged", !.staged.whole = TRUE]
  <2>1. r \in WorkRecord /\ r.at = "staged" /\ r.backup = work[i].backup /\ r.todo = work[i].todo /\ r.staged.whole
    BY <1>1 DEF WorkRecord, WorkStages, Trees
  <2>2. /\ work' = [work EXCEPT ![i] = r] /\ UNCHANGED <<managed, skillLock, left, loaded, had, installs>>
        /\ work[i].backup = NoTree /\ work[i].todo # <<>>
    BY <1>1, <1>5 DEF CopyEnds, WorkOK
  <2> HIDE DEF r
  <2>3. WorkOK(i)'
    BY <1>1, <2>1, <2>2, WorkGoes DEF WorkOK
  <2> QED
    BY <1>1, <2>1, <2>2, <2>3, WorkStep
<1>6. ASSUME LockSkill(i)
      PROVE  SkillsInv'
  <2> DEFINE r == [work[i] EXCEPT !.at = "locked"]
  <2>1. /\ r \in WorkRecord /\ r.at = "locked" /\ r.backup = work[i].backup /\ r.todo = work[i].todo
        /\ r.staged = work[i].staged
    BY <1>1 DEF WorkRecord, WorkStages
  <2>2. /\ work' = [work EXCEPT ![i] = r] /\ UNCHANGED <<managed, left, loaded, had, installs>>
        /\ work[i].backup = NoTree /\ work[i].todo # <<>> /\ work[i].staged.whole
        /\ skillLock[Current(i)] = "free" /\ skillLock' = [skillLock EXCEPT ![Current(i)] = i]
    BY <1>1, <1>6 DEF LockSkill, WorkOK
  <2>3. Current(i) \in Skills
    BY <1>1, <2>2, HeadTailProperties DEF Current, WorkRecord
  <2> HIDE DEF r
  <2>4. work'[i] = r
    BY <1>1, <2>1, <2>2, WorkGoes
  <2>5. Current(i)' = Current(i)
    BY <2>1, <2>4 DEF Current
  <2>6. /\ skillLock' \in [Skills -> Installers \cup {"free"}] /\ skillLock'[Current(i)] = i
        /\ \A skill \in Skills : skillLock'[skill] = skillLock[skill] \/ skillLock[skill] \in {i, "free"}
    BY <1>1, <2>2, <2>3
  <2>7. WorkOK(i)'
    BY <2>1, <2>2, <2>4, <2>5, <2>6 DEF WorkOK
  <2> QED
    BY <1>1, <2>1, <2>2, <2>6, <2>7, WorkStep
<1> QED
  BY <1>2, <1>3, <1>4, <1>5, <1>6

LEMMA DirectorySteps ==
  ASSUME SkillsInv, SkillsAssumption, NEW i \in Installers, MoveAside(i) \/ PutInPlace(i)
  PROVE  SkillsInv'
<1> DEFINE skill == Current(i)
<1>1. /\ SkillTypes /\ WorkOK(i) /\ work[i] \in WorkRecord /\ installs \in Nat
      /\ skillLock \in [Skills -> Installers \cup {"free"}] /\ managed \in [Skills -> Trees]
      /\ (loaded[i] # NoTree => loaded[i].whole)
  BY DEF SkillsInv, SkillTypes
<1>2. work[i].todo # <<>> /\ work[i].staged.whole /\ skillLock[skill] = i /\ skill \in Skills
  <2>1. work[i].at \in {"locked", "aside"}
    BY DEF MoveAside, PutInPlace
  <2>2. work[i].todo # <<>> /\ work[i].staged.whole /\ skillLock[skill] = i
    BY <1>1, <2>1 DEF WorkOK
  <2> QED
    BY <1>1, <2>2, HeadTailProperties DEF Current, WorkRecord
<1>3. managed[skill] # NoTree => managed[skill].whole
  BY <1>2 DEF SkillsInv, SkillOK
<1>4. CASE MoveAside(i)
  <2> DEFINE r == [work[i] EXCEPT !.at = "aside", !.backup = managed[skill]]
  <2>1. /\ r \in WorkRecord /\ r.at = "aside" /\ r.backup = managed[skill] /\ r.todo = work[i].todo
        /\ r.staged = work[i].staged
    BY <1>1, <1>2 DEF WorkRecord, WorkStages
  <2>2. /\ work' = [work EXCEPT ![i] = r] /\ UNCHANGED <<skillLock, left, loaded, had, installs>>
        /\ work[i].backup = NoTree /\ managed' = [managed EXCEPT ![skill] = NoTree]
    BY <1>1, <1>4 DEF MoveAside, WorkOK
  <2> HIDE DEF r
  <2>3. work'[i] = r /\ work' \in [Installers -> WorkRecord] /\ \A j \in Installers : j # i => work'[j] = work[j]
    BY <1>1, <2>1, <2>2, WorkGoes
  <2>4. Current(i)' = skill
    BY <2>1, <2>3 DEF Current
  <2> HIDE DEF skill
  <2>5. /\ managed' \in [Skills -> Trees] /\ managed'[skill] = NoTree
        /\ \A other \in Skills : other # skill => managed'[other] = managed[other]
    BY <1>1, <1>2, <2>2, NoTreeType
  <2>6. WorkOK(i)'
    BY <1>2, <1>3, <2>1, <2>2, <2>3, <2>4, <2>5 DEF WorkOK
  <2>7. SkillTypes'
    BY <1>1, <2>2, <2>3, <2>5 DEF SkillTypes
  <2>8. ASSUME NEW other \in Skills
        PROVE  /\ managed[other] # NoTree => managed'[other] # NoTree \/ Backs(i, other)'
               /\ ~Backs(i, other)
    <3>1. other = skill /\ managed[other] # NoTree => Backs(i, other)'
      BY <2>1, <2>3, <2>4 DEF Backs
    <3>2. ~Backs(i, other)
      BY <2>2 DEF Backs
    <3> QED
      BY <2>5, <3>1, <3>2
  <2>9. InstallMoves(i)
    BY <1>1, <1>2, <2>2, <2>3, <2>5, <2>6, <2>7, <2>8 DEF InstallMoves
  <2> QED
    BY <2>9, SkillsFrame
<1>5. CASE PutInPlace(i)
  <2> DEFINE r == [work[i] EXCEPT !.at = "ready", !.todo = Tail(@), !.staged = NoTree, !.backup = NoTree]
  <2>1. r \in WorkRecord /\ r.at = "ready" /\ r.backup = NoTree
    <3>1. Tail(work[i].todo) \in Seq(Skills)
      BY <1>1, <1>2, HeadTailProperties DEF WorkRecord
    <3> QED
      BY <1>1, <3>1, NoTreeType DEF WorkRecord, WorkStages
  <2>2. /\ work' = [work EXCEPT ![i] = r] /\ UNCHANGED <<left, loaded, installs>> /\ skillLock' = Unlocked(i)
        /\ managed' = [managed EXCEPT ![skill] = work[i].staged] /\ had' = had \cup {skill}
    BY <1>5 DEF PutInPlace
  <2> HIDE DEF r, skill
  <2>3. work'[i] = r /\ work' \in [Installers -> WorkRecord] /\ \A j \in Installers : j # i => work'[j] = work[j]
    BY <1>1, <2>1, <2>2, WorkGoes
  <2>4. work[i].staged \in Trees /\ work[i].staged # NoTree
    BY <1>1, <1>2, NoTreeType DEF WorkRecord
  <2>5. /\ managed' \in [Skills -> Trees] /\ managed'[skill] = work[i].staged
        /\ \A other \in Skills : other # skill => managed'[other] = managed[other]
    BY <1>1, <1>2, <2>2, <2>4
  <2>6. WorkOK(i)'
    BY <2>1, <2>3 DEF WorkOK
  <2>7. /\ skillLock' \in [Skills -> Installers \cup {"free"}]
        /\ \A other \in Skills : skillLock'[other] = skillLock[other] \/ skillLock[other] \in {i, "free"}
    BY <1>1, <2>2, UnlockedType
  <2>8. SkillTypes'
    BY <1>1, <1>2, <2>2, <2>3, <2>5, <2>7 DEF SkillTypes
  <2>9. ASSUME NEW other \in Skills
        PROVE  /\ managed'[other] = managed[other] \/ (skillLock[other] = i /\ managed'[other].whole)
               /\ managed[other] # NoTree => managed'[other] # NoTree
               /\ Backs(i, other) => managed'[other] # NoTree
    <3>1. Backs(i, other) => other = skill
      BY DEF Backs, skill
    <3> QED
      BY <1>2, <2>4, <2>5, <3>1
  <2>10. \A other \in had' \ had : managed'[other] # NoTree
    BY <2>2, <2>4, <2>5
  <2>11. InstallMoves(i)
    BY <1>1, <2>2, <2>3, <2>6, <2>7, <2>8, <2>9, <2>10 DEF InstallMoves
  <2> QED
    BY <2>11, SkillsFrame
<1> QED
  BY <1>4, <1>5

LEMMA EndSteps ==
  ASSUME SkillsInv, SkillsAssumption, NEW i \in Installers,
         \/ InstallFails(i) \/ MoveAsideFails(i) \/ RollBack(i) \/ RollBackFails(i) \/ Refresh(i)
         \/ InstallerCrash(i) \/ \E skill \in Skills : LoadSkill(i, skill)
  PROVE  SkillsInv'
<1>1. /\ SkillTypes /\ WorkOK(i) /\ work[i] \in WorkRecord /\ installs \in Nat /\ managed \in [Skills -> Trees]
      /\ had \in SUBSET Skills /\ (loaded[i] # NoTree => loaded[i].whole)
  BY DEF SkillsInv, SkillTypes
<1>2. \A skill \in Skills : managed[skill] # NoTree => managed[skill].whole
  BY DEF SkillsInv, SkillOK
<1>3. ASSUME Abandon(i), UNCHANGED <<managed, loaded, had, installs>>, left \subseteq left', Backup(i) \subseteq left'
      PROVE  SkillsInv'
  <2>1. /\ SkillTypes' /\ WorkOK(i)' /\ (loaded'[i] # NoTree => loaded'[i].whole)
        /\ \A j \in Installers : j # i => work'[j] = work[j] /\ loaded'[j] = loaded[j]
        /\ \A skill \in Skills : skillLock'[skill] = skillLock[skill] \/ skillLock[skill] \in {i, "free"}
    BY <1>1, <1>3, AbandonMoves
  <2>2. ASSUME NEW skill \in Skills, Backs(i, skill)
        PROVE  \E l \in left' : l.skill = skill
    <3>1. [skill |-> skill, tree |-> work[i].backup] \in left'
      BY <1>3, <2>2 DEF Backs, Backup
    <3> QED
      BY <3>1
  <2>3. InstallMoves(i)
    BY <1>3, <2>1, <2>2 DEF InstallMoves
  <2> QED
    BY <2>3, SkillsFrame
<1>4. CASE InstallFails(i) \/ MoveAsideFails(i)
  <2>1. work[i].backup = NoTree
    BY <1>1, <1>4 DEF InstallFails, MoveAsideFails, WorkOK
  <2> QED
    BY <1>3, <1>4, <2>1 DEF InstallFails, MoveAsideFails, Backup
<1>5. CASE RollBackFails(i) \/ InstallerCrash(i)
  BY <1>3, <1>5 DEF RollBackFails, InstallerCrash
<1>6. CASE RollBack(i)
  <2> DEFINE skill == Current(i)
  <2>1. skill \in Skills /\ skillLock[skill] = i /\ work[i].backup \in Trees /\ managed[skill] = NoTree
        /\ (work[i].backup # NoTree => work[i].backup.whole)
    <3>1. /\ work[i].todo # <<>> /\ skillLock[skill] = i /\ managed[skill] = NoTree
          /\ (work[i].backup # NoTree => work[i].backup.whole)
      BY <1>1, <1>6 DEF RollBack, WorkOK
    <3> QED
      BY <1>1, <3>1, HeadTailProperties DEF Current, WorkRecord
  <2>2. managed' = [managed EXCEPT ![skill] = work[i].backup] /\ UNCHANGED <<left, loaded, had, installs>> /\ Abandon(i)
    BY <1>6 DEF RollBack
  <2> HIDE DEF skill
  <2>3. /\ managed' \in [Skills -> Trees] /\ managed'[skill] = work[i].backup
        /\ \A other \in Skills : other # skill => managed'[other] = managed[other]
    BY <1>1, <2>1, <2>2
  <2>4. /\ SkillTypes' /\ WorkOK(i)' /\ (loaded'[i] # NoTree => loaded'[i].whole)
        /\ \A j \in Installers : j # i => work'[j] = work[j] /\ loaded'[j] = loaded[j]
        /\ \A other \in Skills : skillLock'[other] = skillLock[other] \/ skillLock[other] \in {i, "free"}
    BY <1>1, <2>2, <2>3, AbandonMoves
  <2>5. ASSUME NEW other \in Skills
        PROVE  /\ \/ managed'[other] = managed[other]
                  \/ skillLock[other] = i /\ (managed'[other] = NoTree \/ managed'[other].whole)
               /\ managed[other] # NoTree => managed'[other] # NoTree
               /\ Backs(i, other) => managed'[other] # NoTree
    BY <1>1, <2>1, <2>3 DEF Backs, skill
  <2>6. InstallMoves(i)
    BY <2>2, <2>4, <2>5 DEF InstallMoves
  <2> QED
    BY <2>6, SkillsFrame
<1>7. CASE Refresh(i)
  <2>1. /\ work' = [work EXCEPT ![i] = Resting] /\ UNCHANGED <<managed, skillLock, left, loaded, had, installs>>
        /\ work[i].backup = NoTree
    BY <1>1, <1>7 DEF Refresh, WorkOK
  <2>2. WorkOK(i)'
    BY <1>1, <2>1, RestingType, WorkGoes DEF WorkOK
  <2>3. skillLock \in [Skills -> Installers \cup {"free"}]
    BY <1>1 DEF SkillTypes
  <2> QED
    BY <1>1, <2>1, <2>2, <2>3, RestingType, WorkStep
<1>8. ASSUME NEW skill \in Skills, LoadSkill(i, skill)
      PROVE  SkillsInv'
  <2>1. /\ UNCHANGED <<managed, work, skillLock, left, had, installs>> /\ managed[skill] # NoTree
        /\ loaded' = [loaded EXCEPT ![i] = managed[skill]]
    BY <1>8 DEF LoadSkill
  <2>2. /\ loaded' \in [Installers -> Trees] /\ loaded'[i].whole
        /\ \A j \in Installers : j # i => loaded'[j] = loaded[j]
    BY <1>1, <1>2, <2>1 DEF SkillTypes
  <2>3. SkillTypes'
    BY <1>1, <2>1, <2>2 DEF SkillTypes
  <2>4. WorkOK(i)'
    BY <1>1, <2>1 DEF WorkOK, Current
  <2>5. \A other \in Skills : Backs(i, other) => Backs(i, other)'
    BY <2>1 DEF Backs, Current
  <2>6. InstallMoves(i)
    BY <2>1, <2>2, <2>3, <2>4, <2>5 DEF InstallMoves
  <2> QED
    BY <2>6, SkillsFrame
<1> QED
  BY <1>4, <1>5, <1>6, <1>7, <1>8

LEMMA SkillsHold == SkillsSpec => []SkillsInv
<1>1. SkillsInit => SkillsInv
  <2>1. SUFFICES ASSUME SkillsInit
                 PROVE  SkillsInv
    OBVIOUS
  <2>2. [install |-> 0, whole |-> TRUE] \in Trees
    BY DEF Trees
  <2>3. \A skill \in Skills : managed[skill] \in {NoTree, [install |-> 0, whole |-> TRUE]}
    BY <2>1 DEF SkillsInit
  <2>4. managed \in [Skills -> Trees]
    BY <2>1, <2>2, NoTreeType DEF SkillsInit
  <2>5. \A i \in Installers : work[i] = Resting /\ loaded[i] = NoTree
    BY <2>1 DEF SkillsInit
  <2>6. SkillTypes
    BY <2>1, <2>4, NoTreeType, RestingType DEF SkillsInit, SkillTypes, InPlace
  <2>7. \A i \in Installers : WorkOK(i)
    BY <2>5, RestingType DEF WorkOK
  <2>8. \A skill \in Skills : SkillOK(skill)
    BY <2>1, <2>3 DEF SkillOK, SkillsInit, InPlace
  <2> QED
    BY <2>5, <2>6, <2>7, <2>8 DEF SkillsInv
<1>2. SkillsInv /\ [SkillsNext]_skillVars => SkillsInv'
  <2>1. SUFFICES ASSUME SkillsInv, [SkillsNext]_skillVars
                 PROVE  SkillsInv'
    OBVIOUS
  <2>2. CASE SkillsNext
    BY <2>1, <2>2, SkillsAssumption, InstallSteps, DirectorySteps, EndSteps DEF SkillsNext
  <2>3. CASE UNCHANGED skillVars
    BY <2>1, <2>3 DEF skillVars, SkillsInv, SkillTypes, WorkOK, SkillOK, Backs, Current
  <2> QED
    BY <2>1, <2>2, <2>3
<1> QED
  BY <1>1, <1>2, PTL DEF SkillsSpec

\* Whatever fails in an install, a skill that was in place once is in place or kept, and what
\* is in place or was loaded is whole.
THEOREM SkillsAreKept == SkillsSpec => []SkillsKept
<1>1. SkillsInv => SkillsKept
  <2>1. SUFFICES ASSUME SkillsInv
                 PROVE  SkillsKept
    OBVIOUS
  <2>2. had \subseteq Skills
    BY <2>1 DEF SkillsInv, SkillTypes
  <2>3. ASSUME NEW skill \in Skills, NEW i \in Installers, Backs(i, skill)
        PROVE  [skill |-> skill, tree |-> work[i].backup] \in Backup(i)
    BY <2>3 DEF Backs, Backup
  <2> QED
    BY <2>1, <2>2, <2>3 DEF SkillsInv, SkillOK, SkillsKept, InPlace
<1> QED
  BY <1>1, SkillsHold, PTL

-----------------------------------------------------------------------------
(* ForegroundExec: stretches of a stream.                                  *)

\* A stretch has its length, its bytes in their order.
Stretch(s, a, b) ==
  /\ s \in Seq(Int) /\ Len(s) = b - a + 1 /\ \A i \in 1 .. b - a + 1 : s[i] = a + i - 1

LEMMA IntervalValue ==
  ASSUME NEW a \in Int, NEW b \in Int, a <= b + 1
  PROVE  Stretch(Interval(a, b), a, b)
<1>1. (IF b < a THEN 0 ELSE b - a + 1) = b - a + 1
  OBVIOUS
<1>2. Interval(a, b) = [i \in 1 .. b - a + 1 |-> a + i - 1]
  BY <1>1 DEF Interval
<1>3. b - a + 1 \in Nat
  OBVIOUS
<1> QED
  BY <1>2, <1>3 DEF Stretch

\* A stretch of a stretch.
Part(a, b, m, n, c, d) == SubSeq(Interval(a, b), m, n) = Interval(c, d)

LEMMA IntervalPart ==
  ASSUME NEW a \in Int, NEW b \in Int, NEW m \in Int, NEW n \in Int, NEW c \in Int, NEW d \in Int,
         a <= b + 1, 1 <= m, m <= n + 1, n <= b - a + 1, c = a + m - 1, d = a + n - 1
  PROVE  Part(a, b, m, n, c, d)
<1> DEFINE s == Interval(a, b)
           r == Interval(c, d)
<1>0. c <= d + 1
  OBVIOUS
<1>1. Stretch(s, a, b)
  BY IntervalValue
<1>2. Stretch(r, c, d)
  BY <1>0, IntervalValue
<1> HIDE DEF s, r
<1>3. s \in Seq(Int) /\ m \in 1 .. Len(s) + 1 /\ n \in m - 1 .. Len(s)
  BY <1>1 DEF Stretch
<1>4. /\ SubSeq(s, m, n) \in Seq(Int) /\ Len(SubSeq(s, m, n)) = n - m + 1
      /\ \A i \in 1 .. n - m + 1 : SubSeq(s, m, n)[i] = s[m + i - 1]
  BY <1>3, SubSeqProperties
<1>5. /\ r \in Seq(Int) /\ Len(r) = n - m + 1
      /\ \A i \in 1 .. n - m + 1 : r[i] = a + m - 1 + i - 1
  BY <1>2 DEF Stretch
<1>6. \A i \in 1 .. n - m + 1 : s[m + i - 1] = a + m - 1 + i - 1
  BY <1>1 DEF Stretch
<1>7. \A i \in 1 .. Len(r) : SubSeq(s, m, n)[i] = r[i]
  BY <1>4, <1>5, <1>6
<1>8. SubSeq(s, m, n) = r
  BY <1>4, <1>5, <1>7, SeqEqual
<1> QED
  BY <1>8 DEF Part, s, r

\* Two stretches that meet are one.
Meet(a, b, c, d) == Interval(a, b) \o Interval(c, d) = Interval(a, d)

LEMMA IntervalsMeet ==
  ASSUME NEW a \in Int, NEW b \in Int, NEW c \in Int, NEW d \in Int, a <= b + 1, b <= d, c = b + 1
  PROVE  Meet(a, b, c, d)
<1> DEFINE s == Interval(a, b)
           r == Interval(c, d)
           q == Interval(a, d)
<1>0. c <= d + 1 /\ a <= d + 1
  OBVIOUS
<1>1. Stretch(s, a, b)
  BY IntervalValue
<1>2. Stretch(r, c, d)
  BY <1>0, IntervalValue
<1>3. Stretch(q, a, d)
  BY <1>0, IntervalValue
<1> HIDE DEF s, r, q
<1>4. s \in Seq(Int) /\ r \in Seq(Int) /\ q \in Seq(Int)
  BY <1>1, <1>2, <1>3 DEF Stretch
<1>5. /\ s \o r \in Seq(Int) /\ Len(s \o r) = Len(s) + Len(r)
      /\ \A i \in 1 .. Len(s) + Len(r) :
           (s \o r)[i] = IF i <= Len(s) THEN s[i] ELSE r[i - Len(s)]
  BY <1>4, ConcatProperties
<1>6. Len(s) = b - a + 1 /\ Len(r) = d - b /\ Len(q) = d - a + 1
  BY <1>1, <1>2, <1>3 DEF Stretch
<1>7. ASSUME NEW i \in 1 .. Len(q)
      PROVE  (s \o r)[i] = q[i]
  <2>1. q[i] = a + i - 1
    BY <1>3, <1>6 DEF Stretch
  <2>2. CASE i <= Len(s)
    BY <1>1, <1>5, <1>6, <2>1, <2>2 DEF Stretch
  <2>3. CASE ~(i <= Len(s))
    <3>1. i - Len(s) \in 1 .. d - c + 1
      BY <1>6, <2>3
    <3>2. r[i - Len(s)] = c + (i - Len(s)) - 1
      BY <1>2, <3>1 DEF Stretch
    <3> QED
      BY <1>5, <1>6, <2>1, <2>3, <3>2
  <2> QED
    BY <2>2, <2>3
<1>8. s \o r = q
  <2>1. Len(s \o r) = Len(q)
    BY <1>5, <1>6
  <2>2. \A i \in 1 .. Len(s \o r) : (s \o r)[i] = q[i]
    BY <1>7, <2>1
  <2>3. s \o r \in Seq(Int)
    BY <1>5
  <2> QED
    BY <1>4, <2>1, <2>2, <2>3, SeqEqual, Zenon
<1> QED
  BY <1>8 DEF Meet, s, r, q

\* A stretch of nothing.
LEMMA IntervalEmpty ==
  ASSUME NEW a \in Int, NEW b \in Int, a = b + 1
  PROVE  Interval(a, b) = <<>>
<1>1. Stretch(Interval(a, b), a, b)
  BY IntervalValue
<1>2. Interval(a, b) \in Seq(Int) /\ Len(Interval(a, b)) = 0
  BY <1>1 DEF Stretch
<1> QED
  BY <1>2, EmptySeq

\* The halves of a limit.
LEMMA Halves ==
  ASSUME NEW b \in Nat, NEW l \in Nat, b <= l
  PROVE  /\ HeadLimit(b) \in Nat /\ b - HeadLimit(b) \in Nat /\ HeadLimit(b) <= b
         /\ HeadLimit(b) <= HeadLimit(l) /\ b - HeadLimit(b) <= l - HeadLimit(l)
  BY DEF HeadLimit

\* The end of a stretch.
End(a, b, n, c) == LastOf(Interval(a, b), n) = Interval(c, b)

LEMMA IntervalEnd ==
  ASSUME NEW a \in Int, NEW b \in Int, a <= b + 1, NEW n \in Nat, NEW c \in Int,
         c = b - Lower(n, b - a + 1) + 1
  PROVE  End(a, b, n, c)
<1>1. PICK k \in Int : k = Lower(n, b - a + 1)
  BY b - a + 1 \in Int DEF Lower
<1>2. 0 <= k /\ k <= b - a + 1
  BY <1>1 DEF Lower
<1>3. Stretch(Interval(a, b), a, b)
  BY IntervalValue
<1>4. Len(Interval(a, b)) = b - a + 1
  BY <1>3 DEF Stretch
<1>5. PICK m \in Int, e \in Int : m = b - a + 1 - k + 1 /\ e = b - a + 1
  BY <1>2
<1>6. LastOf(Interval(a, b), n) = SubSeq(Interval(a, b), m, e)
  <2>1. LastOf(Interval(a, b), n) = SubSeq(Interval(a, b), (b - a + 1) - k + 1, b - a + 1)
    BY <1>1, <1>4, Zenon DEF LastOf
  <2> QED
    BY <1>5, <2>1
<1>7. 1 <= m /\ m <= e + 1 /\ e <= b - a + 1 /\ c = a + m - 1 /\ b = a + e - 1
  BY <1>1, <1>2, <1>5
<1>8. Part(a, b, m, e, c, b)
  BY <1>7, IntervalPart
<1> QED
  BY <1>6, <1>8 DEF End, Part

-----------------------------------------------------------------------------
(* What is captured, and what is shown of it.                              *)

\* The head and the tail of the first t bytes.
HeldBytes(limit, t) ==
  [total |-> t,
   head  |-> Interval(1, Lower(HeadLimit(limit), t)),
   tail  |-> Interval(t - Lower(limit - HeadLimit(limit), t) + 1, t)]

\* Their lengths, and the names of what they are made of.
LEMMA HeldParts ==
  ASSUME NEW l \in Nat, NEW t \in Nat
  PROVE  \E h \in Nat, w \in Nat, v \in Int :
           /\ h = Lower(HeadLimit(l), t) /\ w = Lower(l - HeadLimit(l), t) /\ v = t - w + 1
           /\ h <= t /\ (h = t \/ h = HeadLimit(l)) /\ h <= HeadLimit(l)
           /\ w <= t /\ (w = t \/ w = l - HeadLimit(l)) /\ w <= l - HeadLimit(l)
           /\ HeldBytes(l, t) = [total |-> t, head |-> Interval(1, h), tail |-> Interval(v, t)]
           /\ Len(Interval(1, h)) = h /\ Len(Interval(v, t)) = w
           /\ Interval(1, h) \in Seq(Int) /\ Interval(v, t) \in Seq(Int)
<1>1. HeadLimit(l) \in Nat /\ l - HeadLimit(l) \in Nat
  BY Halves
<1>2. PICK h \in Nat, w \in Nat, v \in Int :
        h = Lower(HeadLimit(l), t) /\ w = Lower(l - HeadLimit(l), t) /\ v = t - w + 1
  BY <1>1 DEF Lower
<1>3. /\ h <= t /\ (h = t \/ h = HeadLimit(l)) /\ h <= HeadLimit(l)
      /\ w <= t /\ (w = t \/ w = l - HeadLimit(l)) /\ w <= l - HeadLimit(l)
  BY <1>1, <1>2 DEF Lower
<1>4. HeldBytes(l, t) = [total |-> t, head |-> Interval(1, h), tail |-> Interval(v, t)]
  BY <1>2 DEF HeldBytes
<1>5. Stretch(Interval(1, h), 1, h)
  BY IntervalValue
<1>6. v <= t + 1
  BY <1>2
<1>7. Stretch(Interval(v, t), v, t)
  BY <1>6, IntervalValue
<1>8. /\ Len(Interval(1, h)) = h /\ Len(Interval(v, t)) = w
      /\ Interval(1, h) \in Seq(Int) /\ Interval(v, t) \in Seq(Int)
  <2>1. Interval(1, h) \in Seq(Int) /\ Len(Interval(1, h)) = h - 1 + 1
    BY <1>5, Zenon DEF Stretch
  <2>2. Interval(v, t) \in Seq(Int) /\ Len(Interval(v, t)) = t - v + 1
    BY <1>7, Zenon DEF Stretch
  <2>3. h - 1 + 1 = h /\ t - v + 1 = w
    BY <1>2
  <2> QED
    BY <2>1, <2>2, <2>3, Zenon
<1> QED
  BY <1>2, <1>3, <1>4, <1>8

\* append keeps that of more bytes.
LEMMA HeldGrows ==
  ASSUME maxBytes \in Nat, NEW t \in Nat, NEW n \in Nat, NEW a \in Int, NEW e \in Nat,
         a = t + 1, e = t + n
  PROVE  AppendChunk(HeldBytes(maxBytes, t), Interval(a, e)) = HeldBytes(maxBytes, e)
<1>1. PICK hl \in Nat, tl \in Nat : hl = HeadLimit(maxBytes) /\ tl = maxBytes - HeadLimit(maxBytes)
  BY Halves
<1>2. PICK h \in Nat, w \in Nat, v \in Int :
        /\ h = Lower(hl, t) /\ w = Lower(tl, t) /\ v = t - w + 1
        /\ h <= t /\ (h = t \/ h = hl) /\ h <= hl
        /\ w <= t /\ (w = t \/ w = tl) /\ w <= tl
        /\ HeldBytes(maxBytes, t) = [total |-> t, head |-> Interval(1, h), tail |-> Interval(v, t)]
        /\ Len(Interval(1, h)) = h /\ Len(Interval(v, t)) = w
        /\ Interval(1, h) \in Seq(Int) /\ Interval(v, t) \in Seq(Int)
  BY <1>1, HeldParts
<1>3. Stretch(Interval(a, e), a, e)
  BY IntervalValue
<1>4. Len(Interval(a, e)) = n
  BY <1>3 DEF Stretch
<1>5. PICK m \in Nat, d \in Nat, u \in Int :
        m = Lower(hl - h, n) /\ d = t + m /\ u = e - Lower(tl, e) + 1
  <2>0. h \in Nat /\ h <= hl
    BY <1>2
  <2>1. PICK m \in Nat : m = Lower(hl - h, n)
    BY <2>0 DEF Lower
  <2>2. Lower(tl, e) \in Nat
    BY DEF Lower
  <2>3. t + m \in Nat /\ e - Lower(tl, e) + 1 \in Int
    BY <2>1, <2>2
  <2> QED
    BY <2>1, <2>3
<1> DEFINE newTail == IF tl = 0 THEN Interval(v, t)
                      ELSE IF n >= tl THEN LastOf(Interval(a, e), tl)
                      ELSE LastOf(Interval(v, t) \o Interval(a, e), tl)
<1>6. AppendChunk(HeldBytes(maxBytes, t), Interval(a, e))
        = [total |-> e, head |-> Interval(1, h) \o SubSeq(Interval(a, e), 1, m), tail |-> newTail]
  <2> DEFINE c == [total |-> t, head |-> Interval(1, h), tail |-> Interval(v, t)]
  <2>1. c.total = t /\ c.head = Interval(1, h) /\ c.tail = Interval(v, t)
    OBVIOUS
  <2> HIDE DEF c
  <2>2. AppendChunk(c, Interval(a, e))
          = [total |-> t + n, head |-> Interval(1, h) \o SubSeq(Interval(a, e), 1, m),
             tail |-> newTail]
    BY <1>1, <1>2, <1>4, <1>5, <2>1, Zenon DEF AppendChunk
  <2> QED
    BY <1>2, <2>2, Zenon DEF c
<1>7. Interval(1, h) \o SubSeq(Interval(a, e), 1, m) = Interval(1, Lower(hl, e))
  <2>1. m <= n /\ (h = t \/ m = 0) /\ h + m = Lower(hl, e) /\ d = a + m - 1
    BY <1>2, <1>5 DEF Lower
  <2>2. SubSeq(Interval(a, e), 1, m) = Interval(a, d)
    <3>1. a <= e + 1 /\ 1 <= m + 1 /\ m <= e - a + 1 /\ a = a + 1 - 1
      BY <2>1
    <3>2. Part(a, e, 1, m, a, d)
      BY <2>1, <3>1, IntervalPart
    <3> QED
      BY <3>2 DEF Part
  <2>3. CASE h = t
    <3>1. Meet(1, t, a, d)
      BY <1>5, <2>1, IntervalsMeet
    <3> QED
      BY <1>5, <2>1, <2>2, <2>3, <3>1 DEF Meet
  <2>4. CASE m = 0
    <3>1. a = d + 1
      BY <1>5, <2>4
    <3>2. Interval(a, d) = <<>>
      BY <3>1, IntervalEmpty
    <3>3. Interval(1, h) \o <<>> = Interval(1, h)
      BY <1>2, ConcatEmptySeq
    <3>4. Lower(hl, e) = h
      BY <2>1, <2>4
    <3> QED
      BY <2>2, <3>2, <3>3, <3>4
  <2> QED
    BY <2>1, <2>3, <2>4
<1>8. newTail = Interval(u, e)
  <2>1. CASE tl = 0
    <3>1. w = 0 /\ v = t + 1 /\ u = e + 1
      BY <1>2, <1>5, <2>1 DEF Lower
    <3>2. Interval(v, t) = <<>> /\ Interval(u, e) = <<>>
      BY <3>1, IntervalEmpty
    <3> QED
      BY <2>1, <3>2
  <2>2. CASE tl # 0 /\ n >= tl
    <3>1. a <= e + 1 /\ u = e - Lower(tl, e - a + 1) + 1
      BY <1>5, <2>2 DEF Lower
    <3>2. End(a, e, tl, u)
      BY <3>1, IntervalEnd
    <3> QED
      BY <2>2, <3>2 DEF End
  <2>3. CASE tl # 0 /\ ~(n >= tl)
    <3>1. v <= t + 1 /\ t <= e /\ v <= e + 1 /\ u = e - Lower(tl, e - v + 1) + 1
      BY <1>2, <1>5, <2>3 DEF Lower
    <3>2. Meet(v, t, a, e)
      BY <3>1, IntervalsMeet
    <3>3. End(v, e, tl, u)
      BY <3>1, IntervalEnd
    <3> QED
      BY <2>3, <3>2, <3>3 DEF Meet, End
  <2> QED
    BY <2>1, <2>2, <2>3
<1>9. HeldBytes(maxBytes, e) = [total |-> e, head |-> Interval(1, Lower(hl, e)), tail |-> Interval(u, e)]
  BY <1>1, <1>5 DEF HeldBytes
<1> QED
  BY <1>6, <1>7, <1>8, <1>9

\* What is shown of a stream of n bytes within a budget.
Shown(n, b) ==
  IF n <= b THEN Interval(1, n)
  ELSE Interval(1, HeadLimit(b)) \o Interval(n - (b - HeadLimit(b)) + 1, n)

\* render shows all, or the beginning and the end.
LEMMA RenderShows ==
  ASSUME NEW l \in Nat, NEW b \in Nat, b <= l, NEW t \in Nat
  PROVE  Render(HeldBytes(l, t), b) = Shown(t, b)
<1>0. PICK hl \in Nat, tl \in Nat : hl = HeadLimit(l) /\ tl = l - HeadLimit(l) /\ hl + tl = l
  BY Halves
<1>1. PICK h \in Nat, w \in Nat, v \in Int :
        /\ h = Lower(hl, t) /\ w = Lower(tl, t) /\ v = t - w + 1
        /\ h <= t /\ (h = t \/ h = hl) /\ h <= hl
        /\ w <= t /\ (w = t \/ w = tl) /\ w <= tl
        /\ HeldBytes(l, t) = [total |-> t, head |-> Interval(1, h), tail |-> Interval(v, t)]
        /\ Len(Interval(1, h)) = h /\ Len(Interval(v, t)) = w
        /\ Interval(1, h) \in Seq(Int) /\ Interval(v, t) \in Seq(Int)
  BY <1>0, HeldParts
<1> DEFINE c == [total |-> t, head |-> Interval(1, h), tail |-> Interval(v, t)]
<1>a. /\ h \in Nat /\ w \in Nat /\ v \in Int /\ v = t - w + 1 /\ hl + tl = l
      /\ h <= t /\ (h = t \/ h = hl) /\ w <= t /\ (w = t \/ w = tl)
  BY <1>0, <1>1
<1>2. PICK hb \in Nat, tb \in Nat, u \in Int :
        hb = HeadLimit(b) /\ tb = b - HeadLimit(b) /\ u = t - tb + 1
  BY Halves
<1>3. hb <= b /\ hb <= hl /\ tb <= tl /\ hb + tb = b
  BY <1>0, <1>2, Halves
<1>4. CASE t = 0
  <2>1. Render(c, b) = <<>>
    BY <1>4 DEF Render
  <2>2. Interval(1, 0) = <<>>
    BY IntervalEmpty
  <2> QED
    BY <1>1, <1>4, <2>1, <2>2 DEF Shown
<1>5. CASE t # 0 /\ t <= b
  <2>1. PICK o \in Int, p \in Int, g \in Int : o = h + w - t /\ p = o + 1 /\ g = h + 1
    OBVIOUS
  <2>2. 0 <= o /\ o <= w
    BY <1>a, <1>5, <2>1
  <2>3. Render(c, b) = Interval(1, h) \o SubSeq(Interval(v, t), p, w)
    BY <1>1, <1>5, <2>1 DEF Render
  <2>4. v <= t + 1 /\ 1 <= p /\ p <= w + 1 /\ w <= t - v + 1 /\ g = v + p - 1 /\ t = v + w - 1
    BY <1>a, <2>1, <2>2
  <2>5. Part(v, t, p, w, g, t)
    BY <2>4, IntervalPart
  <2>6. Meet(1, h, g, t)
    BY <1>1, <2>1, IntervalsMeet
  <2> QED
    BY <1>1, <1>5, <2>3, <2>5, <2>6 DEF Shown, Part, Meet
<1>6. CASE t # 0 /\ ~(t <= b)
  <2>1. hb <= h /\ tb <= w /\ Lower(h, hb) = hb
    BY <1>a, <1>3, <1>6 DEF Lower
  <2>2. Render(c, b) = SubSeq(Interval(1, h), 1, hb) \o LastOf(Interval(v, t), tb)
    BY <1>1, <1>2, <1>6, <2>1 DEF Render
  <2>3. SubSeq(Interval(1, h), 1, hb) = Interval(1, hb)
    <3>1. 1 <= h + 1 /\ 1 <= hb + 1 /\ hb <= h - 1 + 1 /\ 1 = 1 + 1 - 1 /\ hb = 1 + hb - 1
      BY <2>1
    <3>2. Part(1, h, 1, hb, 1, hb)
      BY <3>1, IntervalPart
    <3> QED
      BY <3>2 DEF Part
  <2>4. LastOf(Interval(v, t), tb) = Interval(u, t)
    <3>1. v <= t + 1 /\ u = t - Lower(tb, t - v + 1) + 1
      <4>1. t - v + 1 = w /\ v <= t + 1
        BY <1>a
      <4>2. Lower(tb, w) = tb
        BY <1>a, <2>1 DEF Lower
      <4> QED
        BY <1>2, <4>1, <4>2
    <3>2. End(v, t, tb, u)
      BY <3>1, IntervalEnd
    <3> QED
      BY <3>2 DEF End
  <2> QED
    BY <1>1, <1>2, <1>6, <2>2, <2>3, <2>4 DEF Shown
<1> QED
  BY <1>4, <1>5, <1>6

\* It is not longer than the stream or the budget.
LEMMA ShownLength ==
  ASSUME NEW n \in Nat, NEW b \in Nat
  PROVE  Len(Shown(n, b)) = Lower(n, b)
<1>1. PICK hb \in Nat, tb \in Nat, u \in Int :
        hb = HeadLimit(b) /\ tb = b - HeadLimit(b) /\ u = n - tb + 1
  BY Halves
<1>2. CASE n <= b
  <2>1. Stretch(Interval(1, n), 1, n)
    BY IntervalValue
  <2> QED
    BY <1>2, <2>1 DEF Shown, Lower, Stretch
<1>3. CASE ~(n <= b)
  <2>1. u <= n + 1 /\ hb + tb = b
    BY <1>1
  <2>2. Stretch(Interval(1, hb), 1, hb) /\ Stretch(Interval(u, n), u, n)
    BY <2>1, IntervalValue
  <2>3. /\ Interval(1, hb) \in Seq(Int) /\ Len(Interval(1, hb)) = hb
        /\ Interval(u, n) \in Seq(Int) /\ Len(Interval(u, n)) = tb
    <3>1. Interval(1, hb) \in Seq(Int) /\ Len(Interval(1, hb)) = hb - 1 + 1
      BY <2>2 DEF Stretch
    <3>2. Interval(u, n) \in Seq(Int) /\ Len(Interval(u, n)) = n - u + 1
      BY <2>2 DEF Stretch
    <3>3. hb - 1 + 1 = hb /\ n - u + 1 = tb
      BY <1>1
    <3> QED
      BY <3>1, <3>2, <3>3
  <2>4. Shown(n, b) = Interval(1, hb) \o Interval(u, n)
    BY <1>1, <1>3 DEF Shown
  <2>5. Len(Interval(1, hb) \o Interval(u, n)) = Len(Interval(1, hb)) + Len(Interval(u, n))
    BY <2>3, ConcatProperties
  <2> QED
    <3>1. Len(Shown(n, b)) = hb + tb
      BY <2>3, <2>4, <2>5
    <3>2. Lower(n, b) = b
      BY <1>3 DEF Lower
    <3> QED
      BY <2>1, <3>1, <3>2
<1> QED
  BY <1>2, <1>3

-----------------------------------------------------------------------------
(* The inductive invariant of a command.                                   *)

ExecNumbers ==
  maxBytes \in Nat /\ written \in [Streams -> Nat] /\ finished \subseteq Streams

ExecTypes ==
  /\ ExecNumbers
  /\ shell \in {"running", "exited", "killed"}
  /\ background \in {"none", "holding", "detached", "ended"}
  /\ command \in {"waiting", "natural", "cancelled", "timed out", "ended"}

\* A reader has the head and the tail of what it has read.
ReadersOK ==
  \E read \in [Streams -> Nat] :
    /\ captured = [s \in Streams |-> HeldBytes(maxBytes, read[s])]
    /\ \A s \in Streams : /\ read[s] <= written[s]
                          /\ s \in finished => ~Holding /\ read[s] = written[s]

\* Why a command ends, and that nothing of it runs when it was ended.
ReasonOK(reason) ==
  /\ reason = "cancelled" => cancelled
  /\ reason = "timed out" => late
  /\ reason \in {"cancelled", "timed out"} => shell # "running" /\ background \in {"none", "ended"}

CommandOK ==
  /\ command # "waiting" => ReasonOK(command)
  /\ command = "ended" =>
       finished = Streams /\ outcome \in {"natural", "cancelled", "timed out"} /\ ReasonOK(outcome)

ExecInv == ExecTypes /\ ReadersOK /\ CommandOK

LEMMA ExecBegins ==
  ASSUME ExecInit PROVE ExecInv
<1>0. ExecNumbers
  BY ExecAssumption DEF ExecInit, ExecNumbers
<1>1. ExecTypes
  BY <1>0 DEF ExecInit, ExecTypes
<1>2. CommandOK
  BY DEF ExecInit, CommandOK
<1>3. NoCapture = HeldBytes(maxBytes, 0)
  <2>1. HeadLimit(maxBytes) \in Nat /\ maxBytes - HeadLimit(maxBytes) \in Nat
    BY <1>0, Halves DEF ExecNumbers
  <2>2. Lower(HeadLimit(maxBytes), 0) = 0 /\ Lower(maxBytes - HeadLimit(maxBytes), 0) = 0
    BY <2>1 DEF Lower
  <2>3. Interval(1, 0) = <<>>
    BY IntervalEmpty
  <2>4. 0 - 0 + 1 = 1
    OBVIOUS
  <2> QED
    BY <2>2, <2>3, <2>4 DEF NoCapture, HeldBytes
<1>4. ReadersOK
  <2> DEFINE read == [s \in Streams |-> 0]
  <2>1. read \in [Streams -> Nat] /\ \A s \in Streams : read[s] = 0
    OBVIOUS
  <2>2. captured = [s \in Streams |-> HeldBytes(maxBytes, read[s])]
    BY <1>3, <2>1 DEF ExecInit
  <2>3. \A s \in Streams : /\ read[s] <= written[s]
                           /\ s \in finished => ~Holding /\ read[s] = written[s]
    BY <2>1 DEF ExecInit
  <2> QED
    BY <2>1, <2>2, <2>3 DEF ReadersOK
<1> QED
  BY <1>1, <1>2, <1>4 DEF ExecInv

\* A step that reads nothing.
LEMMA ReadersStay ==
  ASSUME ReadersOK, ExecTypes, ExecTypes', maxBytes' = maxBytes, captured' = captured, finished' = finished,
         \A s \in Streams : written[s] <= written'[s],
         Holding' => Holding,
         written' = written \/ Holding
  PROVE  ReadersOK'
<1>1. PICK read \in [Streams -> Nat] :
        /\ captured = [s \in Streams |-> HeldBytes(maxBytes, read[s])]
        /\ \A s \in Streams : /\ read[s] <= written[s]
                              /\ s \in finished => ~Holding /\ read[s] = written[s]
  BY DEF ReadersOK
<1>2. captured' = [s \in Streams |-> HeldBytes(maxBytes', read[s])]
  BY <1>1
<1>3. ASSUME NEW s \in Streams
      PROVE  /\ read[s] <= written'[s]
             /\ s \in finished' => ~Holding' /\ read[s] = written'[s]
  <2>1. read[s] \in Nat /\ written[s] \in Nat /\ written'[s] \in Nat
    BY DEF ExecTypes, ExecNumbers
  <2> QED
    BY <1>1, <2>1
<1> QED
  BY <1>2, <1>3 DEF ReadersOK

\* A step that moves neither the command, nor takes back a reason, nor starts anything.
LEMMA CommandStays ==
  ASSUME CommandOK, UNCHANGED <<command, outcome, finished>>, cancelled => cancelled', late => late',
         shell # "running" => shell' # "running" /\ (background' = background \/ background' = "ended")
  PROVE  CommandOK'
  BY DEF CommandOK, ReasonOK

LEMMA ExecSteps ==
  ASSUME ExecInv, [ExecNext]_execVars
  PROVE  ExecInv'
<1>0. ExecTypes /\ ReadersOK /\ CommandOK
  BY DEF ExecInv
<1>n. ExecNumbers
  BY <1>0 DEF ExecTypes
<1> USE DEF ExecInv
<1>1. ASSUME NEW s \in Streams, Writes(s)
      PROVE  ExecInv'
  <2>0. ExecNumbers'
    BY <1>n, <1>1 DEF Writes, ExecNumbers
  <2>1. ExecTypes'
    BY <1>0, <2>0, <1>1 DEF Writes, ExecTypes
  <2>2. CommandOK'
    BY <1>0, <1>1, CommandStays DEF Writes
  <2>3. \A r \in Streams : written[r] <= written'[r]
    <3>1. ASSUME NEW r \in Streams PROVE written[r] <= written'[r]
      <4>1. written[r] \in Nat /\ written'[r] = IF r = s THEN written[s] + 1 ELSE written[r]
        BY <1>n, <1>1 DEF Writes, ExecNumbers
      <4> QED
        BY <4>1
    <3> QED
      BY <3>1
  <2>4. ReadersOK'
    BY <1>0, <1>1, <2>1, <2>3, ReadersStay DEF Writes, Holding
  <2> QED
    BY <2>1, <2>2, <2>4
<1>2. ASSUME NEW s \in Streams, NEW n \in 1 .. MaxChunk, Capture(s, n)
      PROVE  ExecInv'
  <2>1. ExecTypes'
    BY <1>0, <1>2 DEF Capture, ExecTypes, ExecNumbers
  <2>2. CommandOK'
    BY <1>0, <1>2, CommandStays DEF Capture
  <2>3. PICK read \in [Streams -> Nat] :
          /\ captured = [r \in Streams |-> HeldBytes(maxBytes, read[r])]
          /\ \A r \in Streams : /\ read[r] <= written[r]
                                /\ r \in finished => ~Holding /\ read[r] = written[r]
    BY <1>0 DEF ReadersOK
  <2>4. PICK t \in Nat, e \in Nat, a \in Int : t = read[s] /\ e = t + n /\ a = t + 1
    BY ExecAssumption
  <2>5. captured[s] = HeldBytes(maxBytes, t) /\ captured[s].total = t
    BY <2>3, <2>4 DEF HeldBytes
  <2>6. n <= written[s] - t /\ n >= 1 /\ n \in Nat /\ written[s] \in Nat
    <3>1. written[s] \in Nat /\ MaxChunk \in Nat
      BY <1>n, ExecAssumption DEF ExecNumbers
    <3>2. n \in 1 .. Lower(MaxChunk, written[s] - t)
      BY <1>2, <2>5 DEF Capture
    <3>3. Lower(MaxChunk, written[s] - t) <= written[s] - t /\ Lower(MaxChunk, written[s] - t) \in Int
      BY <3>1 DEF Lower
    <3> QED
      BY <3>1, <3>2, <3>3
  <2>7. AppendChunk(HeldBytes(maxBytes, t), Interval(a, e)) = HeldBytes(maxBytes, e)
    BY <1>n, <2>4, <2>6, HeldGrows DEF ExecNumbers
  <2>8. captured' = [captured EXCEPT ![s] = HeldBytes(maxBytes, e)]
    <3>1. captured' = [captured EXCEPT ![s] = AppendChunk(captured[s], Interval(captured[s].total + 1, captured[s].total + n))]
      BY <1>2 DEF Capture
    <3>2. captured[s].total + 1 = a /\ captured[s].total + n = e
      BY <2>4, <2>5
    <3> QED
      BY <2>5, <2>7, <3>1, <3>2
  <2> DEFINE next == [read EXCEPT ![s] = e]
  <2>9. next \in [Streams -> Nat] /\ \A r \in Streams : next[r] = IF r = s THEN e ELSE read[r]
    BY <2>4
  <2> HIDE DEF next
  <2>10. captured' = [r \in Streams |-> HeldBytes(maxBytes', next[r])]
    <3>1. maxBytes' = maxBytes
      BY <1>2 DEF Capture
    <3>2. \A r \in Streams : captured'[r] = HeldBytes(maxBytes, next[r])
      BY <2>3, <2>8, <2>9
    <3>3. captured' = [r \in Streams |-> captured'[r]]
      BY <2>3, <2>8
    <3> QED
      BY <3>1, <3>2, <3>3
  <2>11. ASSUME NEW r \in Streams
         PROVE  /\ next[r] <= written'[r]
                /\ r \in finished' => ~Holding' /\ next[r] = written'[r]
    <3>1. written' = written /\ finished' = finished /\ Holding' = Holding
      BY <1>2 DEF Capture, Holding
    <3>2. CASE r = s
      BY <2>3, <2>4, <2>6, <2>9, <3>1, <3>2
    <3>3. CASE r # s
      BY <2>3, <2>9, <3>1, <3>3
    <3> QED
      BY <3>2, <3>3
  <2>12. ReadersOK'
    BY <2>9, <2>10, <2>11 DEF ReadersOK
  <2> QED
    BY <2>1, <2>2, <2>12
<1>3. ASSUME NEW s \in Streams, StreamEnds(s)
      PROVE  ExecInv'
  <2>1. ExecTypes'
    BY <1>0, <1>3 DEF StreamEnds, ExecTypes, ExecNumbers
  <2>2. CommandOK'
    <3>1. command = "ended" => finished' = Streams
      BY <1>0, <1>3 DEF StreamEnds, CommandOK
    <3> QED
      BY <1>0, <1>3, <3>1 DEF StreamEnds, CommandOK, ReasonOK
  <2>3. PICK read \in [Streams -> Nat] :
          /\ captured = [r \in Streams |-> HeldBytes(maxBytes, read[r])]
          /\ \A r \in Streams : /\ read[r] <= written[r]
                                /\ r \in finished => ~Holding /\ read[r] = written[r]
    BY <1>0 DEF ReadersOK
  <2>4. captured[s].total = read[s]
    BY <2>3 DEF HeldBytes
  <2>5. captured' = [r \in Streams |-> HeldBytes(maxBytes', read[r])]
    BY <1>3, <2>3 DEF StreamEnds
  <2>6. \A r \in Streams : /\ read[r] <= written'[r]
                           /\ r \in finished' => ~Holding' /\ read[r] = written'[r]
    BY <1>3, <2>3, <2>4 DEF StreamEnds, Holding
  <2> QED
    BY <2>1, <2>2, <2>5, <2>6 DEF ReadersOK
<1>4. ASSUME NEW how \in {"holding", "detached"}, LeavesInBackground(how)
      PROVE  ExecInv'
  <2>1. ExecTypes'
    BY <1>0, <1>4, Zenon DEF LeavesInBackground, ExecTypes, ExecNumbers
  <2>2. CommandOK'
    BY <1>0, <1>4, CommandStays DEF LeavesInBackground
  <2>3. written' = written /\ \A s \in Streams : written[s] <= written'[s]
    <3>1. written' = written
      BY <1>4, Zenon DEF LeavesInBackground
    <3> QED
      BY <1>n, <3>1 DEF ExecNumbers
  <2>4. ReadersOK'
    BY <1>0, <1>4, <2>1, <2>3, ReadersStay DEF LeavesInBackground, Holding
  <2> QED
    BY <2>1, <2>2, <2>4
<1>5. ASSUME ShellExits \/ BackgroundEnds \/ CancelExec \/ TimeIsOver
      PROVE  ExecInv'
  <2> USE DEF ShellExits, BackgroundEnds, CancelExec, TimeIsOver
  <2>1. ExecTypes'
    BY <1>0, <1>5, Zenon DEF ExecTypes, ExecNumbers
  <2>2. CommandOK'
    BY <1>0, <1>5, CommandStays
  <2>3. written' = written /\ \A s \in Streams : written[s] <= written'[s]
    <3>1. written' = written
      BY <1>5, Zenon
    <3> QED
      BY <1>n, <3>1 DEF ExecNumbers
  <2>4. ReadersOK'
    BY <1>0, <1>5, <2>1, <2>3, ReadersStay DEF Holding
  <2> QED
    BY <2>1, <2>2, <2>4
<1>6. ASSUME Natural
      PROVE  ExecInv'
  <2>1. ExecTypes'
    BY <1>0, <1>6, Zenon DEF Natural, ExecTypes, ExecNumbers
  <2>2. CommandOK'
    BY <1>0, <1>6 DEF Natural, CommandOK, ReasonOK
  <2>3. written' = written /\ \A s \in Streams : written[s] <= written'[s]
    <3>1. written' = written
      BY <1>6, Zenon DEF Natural
    <3> QED
      BY <1>n, <3>1 DEF ExecNumbers
  <2>4. ReadersOK'
    BY <1>0, <1>6, <2>1, <2>3, ReadersStay DEF Natural, Holding
  <2> QED
    BY <2>1, <2>2, <2>4
<1>7. ASSUME Poll
      PROVE  ExecInv'
  <2>1. ExecTypes'
    BY <1>0, <1>7, Zenon DEF Poll, ExecTypes, ExecNumbers
  <2>2. CommandOK'
    BY <1>0, <1>7 DEF Poll, CommandOK, ReasonOK, ExecTypes
  <2>3. written' = written /\ \A s \in Streams : written[s] <= written'[s]
    <3>1. written' = written
      BY <1>7, Zenon DEF Poll
    <3> QED
      BY <1>n, <3>1 DEF ExecNumbers
  <2>4. ReadersOK'
    BY <1>0, <1>7, <2>1, <2>3, ReadersStay DEF Poll, Holding
  <2> QED
    BY <2>1, <2>2, <2>4
<1>8. ASSUME Answer
      PROVE  ExecInv'
  <2>1. ExecTypes'
    BY <1>0, <1>8, Zenon DEF Answer, ExecTypes, ExecNumbers
  <2>2. CommandOK'
    BY <1>0, <1>8 DEF Answer, CommandOK, ReasonOK
  <2>3. written' = written /\ \A s \in Streams : written[s] <= written'[s]
    <3>1. written' = written
      BY <1>8, Zenon DEF Answer
    <3> QED
      BY <1>n, <3>1 DEF ExecNumbers
  <2>4. ReadersOK'
    BY <1>0, <1>8, <2>1, <2>3, ReadersStay DEF Answer, Holding
  <2> QED
    BY <2>1, <2>2, <2>4
<1>9. ASSUME UNCHANGED execVars
      PROVE  ExecInv'
  BY <1>0, <1>9 DEF execVars, ExecTypes, ExecNumbers, ReadersOK, CommandOK, ReasonOK, Holding
<1> QED
  BY <1>1, <1>2, <1>3, <1>4, <1>5, <1>6, <1>7, <1>8, <1>9 DEF ExecNext

\* The answer shows of each stream what its budget allows, and the budgets keep to the limit.
LEMMA ExecAnswers ==
  ASSUME ExecInv
  PROVE  ExecSound
<1> SUFFICES ASSUME command = "ended"
             PROVE  /\ \A s \in Streams : Render(captured[s], Budget(s)) = Shown(written[s], Budget(s))
                    /\ Len(Render(captured["stdout"], Budget("stdout")))
                         + Len(Render(captured["stderr"], Budget("stderr"))) <= maxBytes
                    /\ outcome = "cancelled" => cancelled
                    /\ outcome = "timed out" => late
                    /\ outcome # "natural" => shell # "running" /\ background \in {"none", "ended"}
  BY Zenon DEF ExecSound, Shown
<1>1. /\ finished = Streams /\ outcome \in {"natural", "cancelled", "timed out"}
      /\ ReasonOK(outcome)
  BY DEF ExecInv, CommandOK
<1>2. PICK read \in [Streams -> Nat] :
        /\ captured = [s \in Streams |-> HeldBytes(maxBytes, read[s])]
        /\ \A s \in Streams : s \in finished => read[s] = written[s]
  BY DEF ExecInv, ReadersOK
<1>3. \A s \in Streams : captured[s] = HeldBytes(maxBytes, written[s]) /\ captured[s].total = written[s]
  BY <1>1, <1>2 DEF HeldBytes
<1>4. PICK out \in Nat, err \in Nat, l \in Nat, hl \in Nat, tl \in Nat :
        /\ out = written["stdout"] /\ err = written["stderr"] /\ l = maxBytes
        /\ hl = HeadLimit(maxBytes) /\ tl = maxBytes - HeadLimit(maxBytes) /\ hl + tl = l
  <2>1. maxBytes \in Nat /\ written["stdout"] \in Nat /\ written["stderr"] \in Nat
    BY DEF ExecInv, ExecTypes, ExecNumbers, Streams
  <2>2. HeadLimit(maxBytes) \in Nat /\ maxBytes - HeadLimit(maxBytes) \in Nat
    BY <2>1, Halves
  <2>3. HeadLimit(maxBytes) + (maxBytes - HeadLimit(maxBytes)) = maxBytes
    BY <2>1, <2>2
  <2> QED
    BY <2>1, <2>2, <2>3
<1>5. captured["stdout"].total = out /\ captured["stderr"].total = err
  BY <1>3, <1>4 DEF Streams
<1> DEFINE first == IF out + err <= l \/ err = 0 THEN l ELSE IF out = 0 THEN 0 ELSE hl
           second == IF out + err <= l \/ out = 0 THEN l ELSE IF err = 0 THEN 0 ELSE tl
<1>6. Budget("stdout") = first
  BY <1>4, <1>5 DEF Budget
<1>7. Budget("stderr") = second
  BY <1>4, <1>5 DEF Budget
<1>d. /\ captured["stdout"] = HeldBytes(l, out) /\ captured["stderr"] = HeldBytes(l, err)
  BY <1>3, <1>4 DEF Streams
<1>8. /\ first \in Nat /\ first <= l /\ second \in Nat /\ second <= l
      /\ Lower(out, first) + Lower(err, second) <= l
  BY <1>4 DEF Lower
<1> HIDE DEF first, second
<1>9. Render(captured["stdout"], first) = Shown(out, first)
  BY <1>d, <1>8, RenderShows
<1>10. Render(captured["stderr"], second) = Shown(err, second)
  BY <1>d, <1>8, RenderShows
<1>11. Len(Shown(out, first)) = Lower(out, first) /\ Len(Shown(err, second)) = Lower(err, second)
  BY <1>8, ShownLength
<1>12. \A s \in Streams : Render(captured[s], Budget(s)) = Shown(written[s], Budget(s))
  BY <1>4, <1>6, <1>7, <1>9, <1>10 DEF Streams
<1>13. Len(Render(captured["stdout"], Budget("stdout")))
         + Len(Render(captured["stderr"], Budget("stderr"))) <= maxBytes
  BY <1>4, <1>6, <1>7, <1>8, <1>9, <1>10, <1>11
<1> QED
  BY <1>1, <1>12, <1>13 DEF ReasonOK

\* A command by itself.
ExecSpec == ExecInit /\ [][ExecNext]_execVars

\* The answer of a command shows all that fits of what it wrote, from the beginning and from
\* the end, keeps to the limit with both streams, and says truly how the command ended:
\* whatever the sizes of the reads, whoever else holds the pipes, and whenever it is cancelled.
THEOREM AnswersShowTheOutput == ExecSpec => []ExecSound
<1>1. ExecInit => ExecInv
  BY ExecBegins
<1>2. ExecInv /\ [ExecNext]_execVars => ExecInv'
  BY ExecSteps
<1>3. ExecInv => ExecSound
  BY ExecAnswers
<1> QED
  BY <1>1, <1>2, <1>3, PTL DEF ExecSpec

-----------------------------------------------------------------------------
(* TuiApp.                                                                 *)

TuiTypes ==
  /\ phase \in {"idle", "running", "cancelling", "working"} /\ session \in 0 .. MaxOperations
  /\ inflight \subseteq [prompt : Prompts, to : 0 .. MaxOperations] /\ queued \in Seq(Prompts)
  /\ operations \subseteq [kind : Settings \cup Switches, number : 1 .. MaxOperations]
  /\ dialog \in 0 .. MaxRequests /\ asked \subseteq 1 .. MaxRequests
  /\ entered \in 0 .. MaxPrompts /\ begun \in 0 .. MaxOperations /\ requests \in 0 .. MaxRequests
  /\ sent \in [Prompts -> Nat]

\* What waits has something to wait for.
PhaseOK ==
  /\ Busy \/ queued # <<>> => inflight # {}
  /\ phase = "working" => operations # {}
  /\ asked = IF dialog = 0 THEN {} ELSE {dialog}

\* The prompts that were entered and not sent are those of the queue, in their order.
QueueOK ==
  /\ \A i \in 1 .. Len(queued) : queued[i] <= entered
  /\ \A i, j \in 1 .. Len(queued) : i < j => queued[i] < queued[j]
  /\ \A p \in Prompts : sent[p] = IF p > entered \/ \E i \in 1 .. Len(queued) : queued[i] = p
                                  THEN 0 ELSE 1

TuiInv == TuiTypes /\ PhaseOK /\ QueueOK

LEMMA TuiBegins ==
  ASSUME TuiInit PROVE TuiInv
<1>1. queued \in Seq(Prompts) /\ Len(queued) = 0 /\ sent \in [Prompts -> Nat]
  BY DEF TuiInit
<1>2. TuiTypes
  BY <1>1, TuiAssumption DEF TuiInit, TuiTypes
<1>3. PhaseOK
  BY DEF TuiInit, PhaseOK, Busy
<1>4. QueueOK
  BY <1>1 DEF TuiInit, QueueOK, Prompts
<1> QED
  BY <1>2, <1>3, <1>4 DEF TuiInv

\* Steps that leave the queue and what was sent.
LEMMA QueueStays ==
  ASSUME QueueOK, UNCHANGED <<queued, entered, sent>>
  PROVE  QueueOK'
  BY DEF QueueOK

\* The queue holds numbers of prompts.
LEMMA QueueNumbers ==
  ASSUME TuiTypes, QueueOK
  PROVE  \A i \in 1 .. Len(queued) : queued[i] \in Nat /\ queued[i] <= entered
<1>1. queued \in Seq(Prompts)
  BY DEF TuiTypes
<1>2. \A i \in 1 .. Len(queued) : queued[i] \in Prompts
  BY <1>1, ElementOfSeq
<1> QED
  BY <1>2 DEF QueueOK, Prompts

LEMMA EnterPromptKeeps ==
  ASSUME TuiInv, EnterPrompt
  PROVE  TuiInv'
<1>0. TuiTypes /\ PhaseOK /\ QueueOK
  BY DEF TuiInv
<1>1. PICK e \in Nat : e = entered + 1 /\ e \in Prompts /\ entered' = e /\ entered \in Nat
  BY <1>0, TuiAssumption DEF TuiTypes, EnterPrompt, Prompts
<1>2. CASE Busy
  <2>1. /\ queued' = Append(queued, e) /\ entered' = e
        /\ UNCHANGED <<phase, inflight, sent, session, operations, asked, dialog, begun, requests>>
    BY <1>1, <1>2 DEF EnterPrompt
  <2>2. queued \in Seq(Prompts) /\ Len(queued) \in Nat
    BY <1>0 DEF TuiTypes
  <2>3. /\ Append(queued, e) \in Seq(Prompts) /\ Len(Append(queued, e)) = Len(queued) + 1
        /\ \A i \in 1 .. Len(queued) : Append(queued, e)[i] = queued[i]
        /\ Append(queued, e)[Len(queued) + 1] = e
    BY <1>1, <2>2, AppendProperties
  <2>4. /\ queued' \in Seq(Prompts) /\ Len(queued') = Len(queued) + 1
        /\ \A i \in 1 .. Len(queued) : queued'[i] = queued[i]
        /\ queued'[Len(queued) + 1] = e
    BY <2>1, <2>3
  <2>5. \A i \in 1 .. Len(queued) : queued[i] \in Nat /\ queued[i] < e
    BY <1>0, <1>1, QueueNumbers
  <2>6. TuiTypes'
    BY <1>0, <1>1, <2>1, <2>4, TuiAssumption DEF TuiTypes, Prompts
  <2>7. PhaseOK'
    BY <1>0, <1>2, <2>1 DEF PhaseOK, Busy
  <2>8. \A i \in 1 .. Len(queued') : queued'[i] <= entered'
    BY <1>1, <2>2, <2>4, <2>5
  <2>9. \A i, j \in 1 .. Len(queued') : i < j => queued'[i] < queued'[j]
    <3>1. \A i, j \in 1 .. Len(queued) : i < j => queued[i] < queued[j]
      BY <1>0, Zenon DEF QueueOK
    <3>2. ASSUME NEW i \in 1 .. Len(queued'), NEW j \in 1 .. Len(queued'), i < j
          PROVE  queued'[i] < queued'[j]
      <4>1. i \in 1 .. Len(queued) /\ (j \in 1 .. Len(queued) \/ j = Len(queued) + 1)
        BY <2>2, <2>4, <3>2
      <4>2. queued'[i] = queued[i]
        BY <2>4, <4>1, Zenon
      <4>3. CASE j \in 1 .. Len(queued)
        <5>1. queued'[j] = queued[j]
          BY <2>4, <4>3, Zenon
        <5>2. queued[i] < queued[j]
          BY <3>1, <3>2, <4>1, <4>3, Zenon
        <5> QED
          BY <4>2, <5>1, <5>2, Zenon
      <4>4. CASE j = Len(queued) + 1
        <5>1. queued'[j] = e
          BY <2>4, <4>4, Zenon
        <5>2. queued[i] < e
          BY <2>5, <4>1, Zenon
        <5> QED
          BY <4>2, <5>1, <5>2, Zenon
      <4> QED
        BY <4>1, <4>3, <4>4, Zenon
    <3> QED
      BY <3>2, Zenon
  <2>10. ASSUME NEW p \in Prompts
         PROVE  sent'[p] = IF p > entered' \/ \E i \in 1 .. Len(queued') : queued'[i] = p
                           THEN 0 ELSE 1
    <3>1. sent'[p] = sent[p] /\ p \in Nat
      BY <2>1 DEF Prompts
    <3>2. p > entered <=> p > e \/ p = e
      BY <1>1, <3>1
    <3>3. (\E i \in 1 .. Len(queued') : queued'[i] = p)
            <=> p = e \/ \E i \in 1 .. Len(queued) : queued[i] = p
      <4>1. \A i \in 1 .. Len(queued') : i \in 1 .. Len(queued) \/ i = Len(queued) + 1
        BY <2>2, <2>4
      <4>2. /\ Len(queued) + 1 \in 1 .. Len(queued')
            /\ \A i \in 1 .. Len(queued) : i \in 1 .. Len(queued')
        BY <2>2, <2>4
      <4> QED
        BY <2>4, <4>1, <4>2
    <3>4. sent[p] = IF p > entered \/ \E i \in 1 .. Len(queued) : queued[i] = p THEN 0 ELSE 1
      BY <1>0 DEF QueueOK
    <3> QED
      BY <1>1, <3>1, <3>2, <3>3, <3>4
  <2>11. QueueOK'
    BY <2>8, <2>9, <2>10 DEF QueueOK
  <2> QED
    BY <2>6, <2>7, <2>11 DEF TuiInv
<1>3. CASE ~Busy
  <2>1. /\ inflight' = inflight \cup {[prompt |-> e, to |-> session]}
        /\ sent' = [sent EXCEPT ![e] = @ + 1] /\ phase' = "running"
        /\ UNCHANGED <<queued, session, operations, asked, dialog, begun, requests>>
    BY <1>1, <1>3 DEF EnterPrompt, Send
  <2>2. /\ sent' \in [Prompts -> Nat]
        /\ \A p \in Prompts : sent'[p] = IF p = e THEN sent[e] + 1 ELSE sent[p]
    BY <1>0, <1>1, <2>1 DEF TuiTypes
  <2>3. TuiTypes'
    BY <1>0, <1>1, <2>1, <2>2, TuiAssumption DEF TuiTypes, Prompts
  <2>4. PhaseOK'
    BY <1>0, <2>1 DEF PhaseOK, Busy
  <2>5. queued \in Seq(Prompts) /\ \A i \in 1 .. Len(queued) : queued[i] \in Nat /\ queued[i] < e
    <3>1. queued \in Seq(Prompts)
      BY <1>0 DEF TuiTypes
    <3> QED
      BY <1>0, <1>1, <3>1, QueueNumbers
  <2>6. ASSUME NEW p \in Prompts
        PROVE  sent'[p] = IF p > entered' \/ \E i \in 1 .. Len(queued') : queued'[i] = p
                          THEN 0 ELSE 1
    <3>1. p \in Nat /\ e > entered
      BY <1>1 DEF Prompts
    <3>2. sent[p] = IF p > entered \/ \E i \in 1 .. Len(queued) : queued[i] = p THEN 0 ELSE 1
      BY <1>0 DEF QueueOK
    <3>3. CASE p = e
      <4>1. sent[p] = 0
        BY <3>1, <3>2, <3>3
      <4>2. ~(p > entered') /\ ~ \E i \in 1 .. Len(queued') : queued'[i] = p
        BY <1>1, <2>1, <2>5, <3>1, <3>3
      <4> QED
        BY <2>2, <3>3, <4>1, <4>2
    <3>4. CASE p # e
      <4>1. p > entered <=> p > entered'
        BY <1>1, <3>1, <3>4
      <4> QED
        BY <2>1, <2>2, <3>2, <3>4, <4>1
    <3> QED
      BY <3>3, <3>4
  <2>7. QueueOK'
    <3>1. \A i \in 1 .. Len(queued') : queued'[i] <= entered'
      BY <1>1, <2>1, <2>5
    <3>2. \A i, j \in 1 .. Len(queued') : i < j => queued'[i] < queued'[j]
      BY <1>0, <2>1 DEF QueueOK
    <3> QED
      BY <2>6, <3>1, <3>2 DEF QueueOK
  <2> QED
    BY <2>3, <2>4, <2>7 DEF TuiInv
<1> QED
  BY <1>2, <1>3

LEMMA PromptFinishedKeeps ==
  ASSUME TuiInv, NEW q \in inflight, NEW failed \in BOOLEAN, PromptFinished(q, failed)
  PROVE  TuiInv'
<1>0. TuiTypes /\ PhaseOK /\ QueueOK
  BY DEF TuiInv
<1>1. CASE queued = <<>>
  <2>1. /\ phase' = "idle" /\ inflight' = inflight \ {q}
        /\ UNCHANGED <<queued, sent, session, operations, asked, dialog, entered, begun, requests>>
    BY <1>1 DEF PromptFinished, counts
  <2>2. TuiTypes'
    BY <1>0, <2>1 DEF TuiTypes
  <2>3. PhaseOK'
    BY <1>0, <1>1, <2>1 DEF PhaseOK, Busy
  <2>4. QueueOK'
    BY <1>0, <2>1, QueueStays
  <2> QED
    BY <2>2, <2>3, <2>4 DEF TuiInv
<1>2. CASE queued # <<>>
  <2>1. queued \in Seq(Prompts)
    BY <1>0 DEF TuiTypes
  <2>2. PICK h \in Prompts : h = Head(queued)
    BY <1>2, <2>1, HeadTailProperties
  <2>3. /\ phase' = "running" /\ queued' = Tail(queued)
        /\ inflight' = (inflight \ {q}) \cup {[prompt |-> h, to |-> session]}
        /\ sent' = [sent EXCEPT ![h] = @ + 1]
        /\ UNCHANGED <<session, operations, asked, dialog, entered, begun, requests>>
    BY <1>2, <2>2 DEF PromptFinished, counts
  <2>4. /\ Tail(queued) \in Seq(Prompts) /\ Len(queued) \in Nat \ {0}
        /\ Len(Tail(queued)) = Len(queued) - 1
        /\ \A i \in 1 .. Len(Tail(queued)) : Tail(queued)[i] = queued[i + 1]
    BY <1>2, <2>1, HeadTailProperties
  <2>5. /\ queued' \in Seq(Prompts) /\ Len(queued') = Len(queued) - 1
        /\ \A i \in 1 .. Len(queued') : queued'[i] = queued[i + 1]
    BY <2>3, <2>4
  <2>6. h = queued[1] /\ h \in Nat /\ entered \in Nat
    BY <1>0, <1>2, <2>1, <2>2 DEF TuiTypes, Prompts
  <2>7. /\ sent' \in [Prompts -> Nat]
        /\ \A p \in Prompts : sent'[p] = IF p = h THEN sent[h] + 1 ELSE sent[p]
    BY <1>0, <2>3 DEF TuiTypes
  <2>8. TuiTypes'
    BY <1>0, <2>3, <2>5, <2>7 DEF TuiTypes
  <2>9. PhaseOK'
    BY <1>0, <2>3 DEF PhaseOK, Busy
  <2>10. \A i \in 1 .. Len(queued) : queued[i] \in Nat /\ queued[i] <= entered
    BY <1>0, QueueNumbers
  <2>11. \A i, j \in 1 .. Len(queued) : i < j => queued[i] < queued[j]
    BY <1>0 DEF QueueOK
  <2>12. /\ \A i \in 1 .. Len(queued') : queued'[i] <= entered'
         /\ \A i, j \in 1 .. Len(queued') : i < j => queued'[i] < queued'[j]
    BY <2>3, <2>4, <2>5, <2>10, <2>11
  <2>13. ASSUME NEW p \in Prompts
         PROVE  sent'[p] = IF p > entered' \/ \E i \in 1 .. Len(queued') : queued'[i] = p
                           THEN 0 ELSE 1
    <3>1. p \in Nat /\ entered' = entered
      BY <2>3 DEF Prompts
    <3>2. sent[p] = IF p > entered \/ \E i \in 1 .. Len(queued) : queued[i] = p THEN 0 ELSE 1
      BY <1>0 DEF QueueOK
    <3>3. CASE p = h
      <4>1. 1 \in 1 .. Len(queued)
        BY <2>4
      <4>2. sent[p] = 0 /\ ~(p > entered)
        BY <2>6, <2>10, <3>2, <3>3, <4>1
      <4>3. \A i \in 1 .. Len(queued') : i + 1 \in 1 .. Len(queued) /\ 1 < i + 1
        BY <2>4, <2>5
      <4>4. \A i \in 1 .. Len(queued') : h < queued'[i] /\ queued'[i] \in Nat
        BY <2>5, <2>6, <2>10, <2>11, <4>1, <4>3
      <4>5. ~ \E i \in 1 .. Len(queued') : queued'[i] = p
        BY <2>6, <3>3, <4>4
      <4> QED
        BY <2>7, <3>1, <3>3, <4>2, <4>5
    <3>4. CASE p # h
      <4>1. ASSUME NEW i \in 1 .. Len(queued), queued[i] = p
            PROVE  \E j \in 1 .. Len(queued') : queued'[j] = p
        <5>1. i # 1
          BY <2>6, <3>4, <4>1
        <5>2. i - 1 \in 1 .. Len(queued') /\ (i - 1) + 1 = i
          BY <2>4, <2>5, <5>1
        <5>3. queued'[i - 1] = queued[i]
          BY <2>5, <5>2
        <5> QED
          BY <4>1, <5>2, <5>3
      <4>2. ASSUME NEW j \in 1 .. Len(queued'), queued'[j] = p
            PROVE  \E i \in 1 .. Len(queued) : queued[i] = p
        <5>1. j + 1 \in 1 .. Len(queued)
          BY <2>4, <2>5
        <5> QED
          BY <2>5, <4>2, <5>1
      <4> QED
        BY <2>7, <3>1, <3>2, <3>4, <4>1, <4>2
    <3> QED
      BY <3>3, <3>4
  <2>14. QueueOK'
    BY <2>12, <2>13 DEF QueueOK
  <2> QED
    BY <2>8, <2>9, <2>14 DEF TuiInv
<1> QED
  BY <1>1, <1>2

LEMMA TuiSteps ==
  ASSUME TuiInv, [TuiNext]_tuiVars
  PROVE  TuiInv'
<1>0. TuiTypes /\ PhaseOK /\ QueueOK
  BY DEF TuiInv
<1>1. ASSUME NEW kind \in Settings \cup Switches, BeginOperation(kind)
      PROVE  TuiInv'
  <2>1. begun + 1 \in 1 .. MaxOperations
    BY <1>0, <1>1, TuiAssumption DEF TuiTypes, BeginOperation
  <2>2. TuiTypes'
    BY <1>0, <1>1, <2>1, TuiAssumption DEF TuiTypes, BeginOperation
  <2>3. PhaseOK'
    BY <1>0, <1>1 DEF PhaseOK, BeginOperation, Busy
  <2>4. QueueOK'
    BY <1>0, <1>1, QueueStays DEF BeginOperation
  <2> QED
    BY <2>2, <2>3, <2>4 DEF TuiInv
<1>2. ASSUME NEW delivered \in BOOLEAN, CancelPrompt(delivered)
      PROVE  TuiInv'
  <2>1. TuiTypes'
    BY <1>0, <1>2 DEF TuiTypes, CancelPrompt, counts
  <2>2. PhaseOK'
    BY <1>0, <1>2 DEF PhaseOK, CancelPrompt, Busy
  <2>3. QueueOK'
    BY <1>0, <1>2, QueueStays DEF CancelPrompt, counts
  <2> QED
    BY <2>1, <2>2, <2>3 DEF TuiInv
<1>3. ASSUME Park \/ TransportClosed
      PROVE  TuiInv'
  <2>1. TuiTypes'
    BY <1>0, <1>3 DEF TuiTypes, Park, TransportClosed, counts
  <2>2. PhaseOK'
    BY <1>0, <1>3 DEF PhaseOK, Park, TransportClosed, Busy
  <2>3. QueueOK'
    BY <1>0, <1>3, QueueStays DEF Park, TransportClosed, counts
  <2> QED
    BY <2>1, <2>2, <2>3 DEF TuiInv
<1>4. ASSUME Choose
      PROVE  TuiInv'
  <2>1. TuiTypes'
    BY <1>0, <1>4, TuiAssumption DEF TuiTypes, Choose, Resolved, counts
  <2>2. PhaseOK'
    BY <1>0, <1>4 DEF PhaseOK, Choose, Resolved, Modal, Busy
  <2>3. QueueOK'
    BY <1>0, <1>4, QueueStays DEF Choose, counts
  <2> QED
    BY <2>1, <2>2, <2>3 DEF TuiInv
<1>5. ASSUME AskPermission
      PROVE  TuiInv'
  <2>1. requests + 1 \in 1 .. MaxRequests /\ requests + 1 # 0
    BY <1>0, <1>5, TuiAssumption DEF TuiTypes, AskPermission
  <2>2. TuiTypes'
    BY <1>0, <1>5, <2>1, TuiAssumption DEF TuiTypes, AskPermission, Resolved
  <2>3. PhaseOK'
    BY <1>0, <1>5, <2>1 DEF PhaseOK, AskPermission, Resolved, Busy
  <2>4. QueueOK'
    BY <1>0, <1>5, QueueStays DEF AskPermission
  <2> QED
    BY <2>2, <2>3, <2>4 DEF TuiInv
<1>6. ASSUME NEW o \in operations, NEW ok \in BOOLEAN, OperationFinished(o, ok)
      PROVE  TuiInv'
  <2>1. o.number \in 0 .. MaxOperations
    BY <1>0, TuiAssumption DEF TuiTypes
  <2>2. TuiTypes'
    BY <1>0, <1>6, <2>1 DEF TuiTypes, OperationFinished, counts
  <2>3. PhaseOK'
    BY <1>0, <1>6 DEF PhaseOK, OperationFinished, Busy
  <2>4. QueueOK'
    BY <1>0, <1>6, QueueStays DEF OperationFinished, counts
  <2> QED
    BY <2>2, <2>3, <2>4 DEF TuiInv
<1>7. ASSUME UNCHANGED tuiVars
      PROVE  TuiInv'
  BY <1>0, <1>7 DEF tuiVars, TuiInv, TuiTypes, PhaseOK, QueueOK, Busy
<1> QED
  BY <1>1, <1>2, <1>3, <1>4, <1>5, <1>6, <1>7, EnterPromptKeeps, PromptFinishedKeeps
  DEF TuiNext, ChangeSetting, SwitchSession

LEMMA TuiIsWaited ==
  ASSUME TuiInv
  PROVE  TuiSound /\ TuiTypeOK
<1>1. TuiTypes /\ PhaseOK /\ QueueOK
  BY DEF TuiInv
<1>2. TuiTypeOK
  BY <1>1 DEF TuiTypes, TuiTypeOK
<1>3. \A p \in 1 .. entered : IF Contains(queued, p) THEN sent[p] = 0 ELSE sent[p] = 1
  <2>1. ASSUME NEW p \in 1 .. entered
        PROVE  p \in Prompts /\ ~(p > entered)
    BY <1>1, TuiAssumption DEF TuiTypes, Prompts
  <2> QED
    BY <1>1, <2>1 DEF QueueOK, Contains
<1> QED
  BY <1>1, <1>2, <1>3 DEF TuiSound, PhaseOK, QueueOK

\* The user interface by itself.
TuiSpec == TuiInit /\ [][TuiNext]_tuiVars

LEMMA TuiHolds == TuiSpec => []TuiInv
<1>1. TuiInit => TuiInv
  BY TuiBegins
<1>2. TuiInv /\ [TuiNext]_tuiVars => TuiInv'
  BY TuiSteps
<1> QED
  BY <1>1, <1>2, PTL DEF TuiSpec

\* The interface waits for nothing that will not come, sends each prompt that was entered
\* once, in order, and leaves the agent no question open but the one it shows: with one phase
\* for whatever prompts, operations and requests are under way at once.
THEOREM InterfaceWaits == TuiSpec => []TuiSound
<1>1. TuiInv => TuiSound
  BY TuiIsWaited
<1> QED
  BY <1>1, TuiHolds, PTL

-----------------------------------------------------------------------------
(* Transcript: the bytes of a list of entries.                             *)

EntryKinds == {"assistant", "thought", "tool", "plan", "notice"}
EntryRecord == [kind : EntryKinds, key : MessageKeys \cup ToolKeys \cup {"none"}, bytes : Nat]

IsSum(f, es, k) == f = [n \in 0 .. k |-> IF n = 0 THEN 0 ELSE f[n - 1] + es[n].bytes]

\* f adds up the bytes.
Sums(f, es) ==
  /\ f[0] = 0
  /\ \A n \in Nat : n < Len(es) => f[n + 1] = f[n] + es[n + 1].bytes
  /\ \A n \in 0 .. Len(es) : f[n] \in Nat

LEMMA SumExists ==
  ASSUME NEW es, NEW k \in Nat
  PROVE  \E f : IsSum(f, es, k)
<1> DEFINE T == {j \in Nat : \E f : IsSum(f, es, j)}
<1>1. 0 \in T
  <2> DEFINE f == [n \in 0 .. 0 |-> 0]
  <2>1. IsSum(f, es, 0)
    BY DEF IsSum
  <2> QED
    BY <2>1
<1>2. ASSUME NEW j \in T
      PROVE  j + 1 \in T
  <2>1. PICK f : IsSum(f, es, j)
    OBVIOUS
  <2>2. j \in Nat
    OBVIOUS
  <2> DEFINE g == [n \in 0 .. (j + 1) |-> IF n <= j THEN f[n] ELSE f[n - 1] + es[n].bytes]
             G == [n \in 0 .. (j + 1) |-> IF n = 0 THEN 0 ELSE g[n - 1] + es[n].bytes]
  <2>3. ASSUME NEW n \in 0 .. (j + 1)
        PROVE  g[n] = G[n]
    <3>1. CASE n = 0
      BY <2>1, <2>2, <3>1 DEF IsSum
    <3>2. CASE n \in 1 .. j
      <4>1. n - 1 \in 0 .. j /\ n - 1 \in 0 .. (j + 1) /\ n \in 0 .. j /\ n <= j /\ n # 0 /\ n - 1 <= j
        BY <2>2, <3>2
      <4>2. f[n] = f[n - 1] + es[n].bytes
        BY <2>1, <4>1 DEF IsSum
      <4>3. g[n] = f[n] /\ g[n - 1] = f[n - 1]
        BY <4>1
      <4> QED
        BY <4>1, <4>2, <4>3
    <3>3. CASE n = j + 1
      <4>1. n - 1 = j /\ ~(n <= j) /\ n # 0 /\ j <= j /\ j \in 0 .. (j + 1)
        BY <2>2, <3>3
      <4>2. g[j] = f[j] /\ g[n] = f[j] + es[n].bytes
        BY <4>1
      <4> QED
        BY <4>1, <4>2
    <3> QED
      BY <2>2, <3>1, <3>2, <3>3
  <2>4. g = G
    BY <2>3
  <2>5. IsSum(g, es, j + 1)
    BY <2>4 DEF IsSum
  <2> QED
    BY <2>2, <2>5
<1>3. T = Nat
  <2> HIDE DEF T
  <2>1. T \in SUBSET Nat
    BY DEF T
  <2> QED
    BY <1>1, <1>2, <2>1, SetInduction
<1> QED
  BY <1>3

LEMMA BytesSum ==
  ASSUME NEW es \in Seq(EntryRecord)
  PROVE  \E f : Sums(f, es) /\ Bytes(es) = f[Len(es)]
<1> DEFINE f == CHOOSE g : IsSum(g, es, Len(es))
<1>0. Len(es) \in Nat
  OBVIOUS
<1>1. IsSum(f, es, Len(es))
  BY <1>0, SumExists
<1>2. Bytes(es) = f[Len(es)]
  BY Zenon DEF Bytes, IsSum
<1> HIDE DEF f
<1>3. f[0] = 0
  BY <1>0, <1>1 DEF IsSum
<1>4. ASSUME NEW n \in Nat, n < Len(es)
      PROVE  f[n + 1] = f[n] + es[n + 1].bytes
  <2>1. n + 1 \in 0 .. Len(es) /\ n + 1 # 0 /\ (n + 1) - 1 = n
    BY <1>0, <1>4
  <2>2. \A m \in 0 .. Len(es) : m # 0 => f[m] = f[m - 1] + es[m].bytes
    BY <1>1 DEF IsSum
  <2>3. f[n + 1] = f[(n + 1) - 1] + es[n + 1].bytes
    BY <2>1, <2>2, Zenon
  <2> QED
    BY <2>1, <2>3
<1> DEFINE T == {n \in Nat : n <= Len(es) => f[n] \in Nat}
<1>5. 0 \in T
  BY <1>3
<1>6. ASSUME NEW n \in T
      PROVE  n + 1 \in T
  <2>1. CASE n < Len(es)
    <3>1. f[n] \in Nat /\ n \in Nat /\ n + 1 \in 1 .. Len(es)
      BY <1>0, <2>1
    <3>2. es[n + 1].bytes \in Nat
      <4>1. es[n + 1] \in EntryRecord
        BY <3>1, ElementOfSeq
      <4> QED
        BY <4>1 DEF EntryRecord
    <3>3. f[n + 1] = f[n] + es[n + 1].bytes
      BY <1>4, <2>1, <3>1
    <3> QED
      BY <3>1, <3>2, <3>3
  <2>2. CASE ~(n < Len(es))
    BY <1>0, <2>2
  <2> QED
    BY <2>1, <2>2
<1>7. T = Nat
  <2>1. T \in SUBSET Nat
    OBVIOUS
  <2> HIDE DEF T
  <2> QED
    BY <1>5, <1>6, <2>1, SetInduction
<1>8. \A n \in 0 .. Len(es) : f[n] \in Nat
  BY <1>0, <1>7
<1> QED
  BY <1>2, <1>3, <1>4, <1>8 DEF Sums

\* The k entries from o on in es and from p on in ds have the same sizes, and sums.
Alike(es, o, ds, p, k) ==
  /\ o + k <= Len(es) /\ p + k <= Len(ds)
  /\ \A j \in 1 .. k : ds[p + j].bytes = es[o + j].bytes

SameSum(f, o, g, p, k) == g[p + k] - g[p] = f[o + k] - f[o]

LEMMA SumsAgree ==
  ASSUME NEW es \in Seq(EntryRecord), NEW ds \in Seq(EntryRecord),
         NEW f, Sums(f, es), NEW g, Sums(g, ds), NEW o \in Nat, NEW p \in Nat, NEW k \in Nat,
         Alike(es, o, ds, p, k)
  PROVE  SameSum(f, o, g, p, k)
<1> DEFINE T == {n \in Nat : n <= k => g[p + n] - g[p] = f[o + n] - f[o]}
<1>0. Len(es) \in Nat /\ Len(ds) \in Nat /\ o + k <= Len(es) /\ p + k <= Len(ds)
  BY DEF Alike
<1>1. f[o] \in Nat /\ g[p] \in Nat
  BY <1>0 DEF Sums
<1>2. 0 \in T
  BY <1>1
<1>3. ASSUME NEW n \in T
      PROVE  n + 1 \in T
  <2>1. CASE n < k
    <3>1. n \in Nat /\ n + 1 \in 1 .. k /\ g[p + n] - g[p] = f[o + n] - f[o]
      BY <2>1
    <3>2. PICK a \in Nat, b \in Nat : a = o + n /\ b = p + n
      BY <3>1
    <3>3. a < Len(es) /\ b < Len(ds) /\ a + 1 = o + (n + 1) /\ b + 1 = p + (n + 1)
      BY <1>0, <2>1, <3>1, <3>2
    <3>4. f[a + 1] = f[a] + es[a + 1].bytes /\ g[b + 1] = g[b] + ds[b + 1].bytes
      BY <3>3 DEF Sums
    <3>5. ds[b + 1].bytes = es[a + 1].bytes
      BY <3>1, <3>3 DEF Alike
    <3>6. f[a] \in Nat /\ g[b] \in Nat
      BY <1>0, <3>3 DEF Sums
    <3>7. es[a + 1].bytes \in Nat
      <4>1. a + 1 \in 1 .. Len(es)
        BY <1>0, <3>3
      <4>2. es[a + 1] \in EntryRecord
        BY <4>1, ElementOfSeq
      <4> QED
        BY <4>2 DEF EntryRecord
    <3>8. g[b + 1] - g[p] = f[a + 1] - f[o]
      <4>1. g[b] - g[p] = f[a] - f[o]
        BY <3>1, <3>2
      <4> QED
        <5>1. PICK fa \in Nat, gb \in Nat, fo \in Nat, gp \in Nat, w \in Nat :
                fa = f[a] /\ gb = g[b] /\ fo = f[o] /\ gp = g[p] /\ w = es[a + 1].bytes
          BY <1>1, <3>6, <3>7
        <5>2. f[a + 1] = fa + w /\ g[b + 1] = gb + w /\ gb - gp = fa - fo
          BY <3>4, <3>5, <4>1, <5>1
        <5>3. (gb + w) - gp = (fa + w) - fo
          BY <5>2
        <5> QED
          BY <5>1, <5>2, <5>3
    <3>9. g[p + (n + 1)] - g[p] = f[o + (n + 1)] - f[o]
      BY <3>3, <3>8
    <3> QED
      BY <3>1, <3>9
  <2>2. CASE ~(n < k)
    BY <2>2
  <2> QED
    BY <2>1, <2>2
<1>4. T = Nat
  <2>1. T \in SUBSET Nat
    OBVIOUS
  <2> HIDE DEF T
  <2> QED
    BY <1>2, <1>3, <2>1, SetInduction
<1>5. k \in T
  BY <1>4
<1> QED
  BY <1>5 DEF SameSum

LEMMA BytesAppend ==
  ASSUME NEW es \in Seq(EntryRecord), NEW e \in EntryRecord
  PROVE  Bytes(Append(es, e)) = Bytes(es) + e.bytes
<1>1. PICK ds \in Seq(EntryRecord) : ds = Append(es, e)
  BY AppendProperties
<1>2. /\ Len(es) \in Nat /\ Len(ds) = Len(es) + 1 /\ ds[Len(es) + 1] = e
      /\ \A i \in 1 .. Len(es) : ds[i] = es[i]
  BY <1>1, AppendProperties
<1>3. PICK f : Sums(f, es) /\ Bytes(es) = f[Len(es)]
  BY BytesSum
<1>4. PICK g : Sums(g, ds) /\ Bytes(ds) = g[Len(ds)]
  BY BytesSum
<1>5. PICK k \in Nat : k = Len(es)
  BY <1>2
<1>6. SameSum(f, 0, g, 0, k)
  <2>1. Alike(es, 0, ds, 0, k)
    BY <1>2, <1>5 DEF Alike
  <2> QED
    BY <1>3, <1>4, <2>1, SumsAgree
<1>7. f[0] = 0 /\ g[0] = 0 /\ f[k] \in Nat /\ g[k] \in Nat /\ g[k + 1] = g[k] + ds[k + 1].bytes
  BY <1>2, <1>3, <1>4, <1>5 DEF Sums
<1>8. 0 + k = k
  OBVIOUS
<1>9. g[k] = f[k]
  BY <1>6, <1>7, <1>8 DEF SameSum
<1> QED
  BY <1>1, <1>2, <1>3, <1>4, <1>5, <1>7, <1>9

LEMMA BytesCut ==
  ASSUME NEW es \in Seq(EntryRecord), NEW n \in 0 .. Len(es)
  PROVE  /\ Bytes(es) \in Nat /\ Bytes(SubSeq(es, 1, n)) \in Nat
         /\ Bytes(SubSeq(es, n + 1, Len(es))) = Bytes(es) - Bytes(SubSeq(es, 1, n))
<1>0. Len(es) \in Nat /\ n \in Nat
  OBVIOUS
<1>1. PICK before \in Seq(EntryRecord) :
        /\ before = SubSeq(es, 1, n) /\ Len(before) = n
        /\ \A i \in 1 .. n : before[i] = es[1 + i - 1]
  <2>a. 1 \in Int /\ n \in Int /\ \A i \in 1 .. n : es[i] \in EntryRecord
    BY <1>0, ElementOfSeq
  <2>1. SubSeq(es, 1, n) \in Seq(EntryRecord)
    BY <2>a, SubSeqProperties
  <2>2. Len(SubSeq(es, 1, n)) = n
    BY <1>0, <2>a, SubSeqProperties
  <2>3. \A i \in 1 .. n : SubSeq(es, 1, n)[i] = es[1 + i - 1]
    BY <1>0, <2>a, SubSeqProperties
  <2> QED
    BY <2>1, <2>2, <2>3
<1>2. PICK k \in Nat : k = Len(es) - n
  BY <1>0
<1>3. PICK after \in Seq(EntryRecord) :
        /\ after = SubSeq(es, n + 1, Len(es)) /\ Len(after) = k
        /\ \A i \in 1 .. k : after[i] = es[n + 1 + i - 1]
  <2>1. n + 1 \in 1 .. Len(es) + 1 /\ Len(es) \in n + 1 - 1 .. Len(es) /\ Len(es) - (n + 1) + 1 = k
    BY <1>0, <1>2
  <2>a. n + 1 \in Int /\ Len(es) \in Int /\ \A i \in n + 1 .. Len(es) : es[i] \in EntryRecord
    BY <1>0, ElementOfSeq
  <2>2. SubSeq(es, n + 1, Len(es)) \in Seq(EntryRecord)
    BY <2>a, SubSeqProperties
  <2>3. Len(SubSeq(es, n + 1, Len(es))) = k
    BY <1>0, <1>2, <2>a, SubSeqProperties
  <2>4. \A i \in 1 .. k : SubSeq(es, n + 1, Len(es))[i] = es[n + 1 + i - 1]
    BY <1>0, <1>2, <2>a, SubSeqProperties
  <2> QED
    BY <2>2, <2>3, <2>4
<1>4. PICK f : Sums(f, es) /\ Bytes(es) = f[Len(es)]
  BY BytesSum
<1>5. PICK g : Sums(g, before) /\ Bytes(before) = g[Len(before)]
  BY BytesSum
<1>6. PICK h : Sums(h, after) /\ Bytes(after) = h[Len(after)]
  BY BytesSum
<1>7. SameSum(f, 0, g, 0, n)
  <2>1. \A j \in 1 .. n : 0 + j = j /\ 1 + j - 1 = j
    BY <1>0
  <2>2. \A j \in 1 .. n : before[0 + j].bytes = es[0 + j].bytes
    BY <1>1, <2>1
  <2>3. 0 + n <= Len(es) /\ 0 + n <= Len(before)
    BY <1>0, <1>1
  <2>4. Alike(es, 0, before, 0, n)
    BY <2>2, <2>3 DEF Alike
  <2> QED
    BY <1>0, <1>4, <1>5, <2>4, SumsAgree
<1>8. SameSum(f, n, h, 0, k)
  <2>1. \A j \in 1 .. k : 0 + j = j /\ n + 1 + j - 1 = n + j
    BY <1>0
  <2>2. \A j \in 1 .. k : after[0 + j].bytes = es[n + j].bytes
    BY <1>3, <2>1
  <2>3. n + k <= Len(es) /\ 0 + k <= Len(after)
    BY <1>0, <1>2, <1>3
  <2>4. Alike(es, n, after, 0, k)
    BY <2>2, <2>3 DEF Alike
  <2> QED
    BY <1>0, <1>4, <1>6, <2>4, SumsAgree
<1>9. 0 + n = n /\ 0 + k = k /\ n + k = Len(es) /\ n \in 0 .. Len(es) /\ Len(es) \in 0 .. Len(es)
  BY <1>0, <1>2
<1>10. f[0] = 0 /\ g[0] = 0 /\ h[0] = 0 /\ f[n] \in Nat /\ f[Len(es)] \in Nat
  BY <1>4, <1>5, <1>6, <1>9 DEF Sums
<1>11. g[n] \in Nat /\ h[k] \in Nat
  <2>1. n \in 0 .. Len(before) /\ k \in 0 .. Len(after)
    BY <1>0, <1>1, <1>3
  <2> QED
    BY <1>5, <1>6, <2>1 DEF Sums
<1>12. g[n] = f[n] /\ h[k] = f[Len(es)] - f[n]
  <2>1. g[n] - 0 = f[n] - 0 /\ h[k] - 0 = f[Len(es)] - f[n]
    BY <1>7, <1>8, <1>9, <1>10 DEF SameSum
  <2> QED
    BY <1>10, <1>11, <2>1
<1> QED
  BY <1>1, <1>3, <1>4, <1>5, <1>6, <1>10, <1>12

LEMMA BytesResized ==
  ASSUME NEW es \in Seq(EntryRecord), NEW i \in 1 .. Len(es), NEW b \in Nat
  PROVE  /\ [es EXCEPT ![i].bytes = b] \in Seq(EntryRecord)
         /\ Len([es EXCEPT ![i].bytes = b]) = Len(es)
         /\ Bytes([es EXCEPT ![i].bytes = b]) = Bytes(es) - es[i].bytes + b
<1>0. Len(es) \in Nat /\ i \in Nat /\ es[i] \in EntryRecord
  BY ElementOfSeq
<1>1. [es[i] EXCEPT !.bytes = b] \in EntryRecord
  BY <1>0 DEF EntryRecord
<1>2. PICK c \in EntryRecord : c = [es[i] EXCEPT !.bytes = b]
  BY <1>1
<1>3. c.bytes = b
  BY <1>0, <1>2 DEF EntryRecord
<1>4. [es EXCEPT ![i].bytes = b] = [es EXCEPT ![i] = c]
  BY <1>2
<1>5. PICK ds \in Seq(EntryRecord) : /\ ds = [es EXCEPT ![i] = c] /\ Len(ds) = Len(es)
                                    /\ \A j \in 1 .. Len(es) : ds[j] = IF j = i THEN c ELSE es[j]
  <2> DEFINE r == [es EXCEPT ![i] = c]
  <2>1. DOMAIN es = 1 .. Len(es) /\ es \in [1 .. Len(es) -> EntryRecord]
    BY LenProperties
  <2>2. r \in [1 .. Len(es) -> EntryRecord]
    BY <2>1
  <2>3. \A j \in 1 .. Len(es) : r[j] = IF j = i THEN c ELSE es[j]
    BY <2>1
  <2>4. r = [es EXCEPT ![i] = c]
    OBVIOUS
  <2> HIDE DEF r
  <2>5. r \in Seq(EntryRecord)
    BY <1>0, <2>2, SeqDef
  <2>6. Len(r) = Len(es)
    BY <1>0, <2>2, <2>5, LenProperties
  <2> QED
    BY <2>3, <2>4, <2>5, <2>6, Zenon
<1>6. \A j \in 1 .. Len(es) : ds[j] = IF j = i THEN c ELSE es[j]
  BY <1>5, Zenon
<1>7. PICK f : Sums(f, es) /\ Bytes(es) = f[Len(es)]
  BY BytesSum
<1>8. PICK g : Sums(g, ds) /\ Bytes(ds) = g[Len(ds)]
  BY BytesSum
<1>9. PICK m \in Nat, k \in Nat : m = i - 1 /\ k = Len(es) - i
  <2>1. i - 1 \in Nat /\ Len(es) - i \in Nat
    BY <1>0
  <2> QED
    BY <2>1
<1>10. SameSum(f, 0, g, 0, m)
  <2>1. \A j \in 1 .. m : 0 + j = j /\ j \in 1 .. Len(es) /\ j # i
    BY <1>0, <1>9
  <2>2. \A j \in 1 .. m : ds[0 + j].bytes = es[0 + j].bytes
    BY <1>6, <2>1
  <2>3. 0 + m <= Len(es) /\ 0 + m <= Len(ds)
    BY <1>0, <1>5, <1>9
  <2>4. Alike(es, 0, ds, 0, m)
    BY <2>2, <2>3 DEF Alike
  <2> QED
    BY <1>7, <1>8, <2>4, SumsAgree
<1>11. SameSum(f, i, g, i, k)
  <2>1. \A j \in 1 .. k : i + j \in 1 .. Len(es) /\ i + j # i
    BY <1>0, <1>9
  <2>2. \A j \in 1 .. k : ds[i + j].bytes = es[i + j].bytes
    BY <1>6, <2>1
  <2>3. i + k <= Len(es) /\ i + k <= Len(ds)
    BY <1>0, <1>5, <1>9
  <2>4. Alike(es, i, ds, i, k)
    BY <2>2, <2>3 DEF Alike
  <2> QED
    BY <1>0, <1>7, <1>8, <2>4, SumsAgree
<1>12. /\ 0 + m = m /\ m + 1 = i /\ m < Len(es) /\ m < Len(ds) /\ i + k = Len(es)
       /\ m \in 0 .. Len(es) /\ m \in 0 .. Len(ds) /\ i \in 0 .. Len(es) /\ i \in 0 .. Len(ds)
       /\ Len(es) \in 0 .. Len(es) /\ Len(es) \in 0 .. Len(ds)
  BY <1>0, <1>5, <1>9
<1>13. /\ f[0] = 0 /\ g[0] = 0 /\ f[m] \in Nat /\ g[m] \in Nat /\ f[i] \in Nat /\ g[i] \in Nat
       /\ f[Len(es)] \in Nat /\ g[Len(es)] \in Nat
       /\ f[m + 1] = f[m] + es[m + 1].bytes /\ g[m + 1] = g[m] + ds[m + 1].bytes
  BY <1>7, <1>8, <1>12 DEF Sums
<1>14. es[i].bytes \in Nat /\ ds[i].bytes = b
  BY <1>0, <1>3, <1>6 DEF EntryRecord
<1>15. g[m] = f[m] /\ g[i] = g[m] + b /\ f[i] = f[m] + es[i].bytes
  BY <1>10, <1>12, <1>13, <1>14 DEF SameSum
<1>16. g[Len(es)] - g[i] = f[Len(es)] - f[i]
  BY <1>11, <1>12 DEF SameSum
<1>17. g[Len(es)] = f[Len(es)] - es[i].bytes + b
  <2>1. PICK fm \in Nat, fi \in Nat, fl \in Nat, gi \in Nat, gl \in Nat, old \in Nat :
          /\ fm = f[m] /\ fi = f[i] /\ fl = f[Len(es)] /\ gi = g[i] /\ gl = g[Len(es)]
          /\ old = es[i].bytes
    BY <1>13, <1>14
  <2>2. gi = fm + b /\ fi = fm + old /\ gl - gi = fl - fi
    BY <1>15, <1>16, <2>1
  <2>3. gl = fl - old + b
    BY <2>2
  <2> QED
    BY <2>1, <2>3
<1> QED
  BY <1>4, <1>5, <1>7, <1>8, <1>17

-----------------------------------------------------------------------------
(* Transcript: the cards of the calls, and trim_transcript.                *)

\* Of some numbers the greatest one, when it is there, and the least.
LEMMA MaxIs ==
  ASSUME NEW S \in SUBSET Nat, NEW x \in S, \A y \in S : y <= x
  PROVE  Max(S) = x
<1>1. Max(S) \in S /\ \A y \in S : Max(S) >= y
  BY DEF Max
<1>2. Max(S) \in Nat /\ Max(S) >= x /\ Max(S) <= x
  BY <1>1
<1> QED
  BY <1>2

LEMMA FirstIsFound ==
  ASSUME NEW S \in SUBSET Nat
  PROVE  FirstOf(S) = 0 \/ FirstOf(S) \in S
<1>1. ASSUME S # {}
      PROVE  Min(S) \in S
  <2>1. PICK x \in S : \A y \in S : x <= y
    BY <1>1, LeastNatural
  <2> QED
    BY <2>1 DEF Min
<1> QED
  BY <1>1 DEF FirstOf

\* A new card is its call's last one.
LEMMA IndicesAppend ==
  ASSUME NEW es \in Seq(EntryRecord), NEW e \in EntryRecord, e.kind = "tool" => e.key \in ToolKeys
  PROVE  Indices(Append(es, e)) =
           IF e.kind = "tool" THEN [Indices(es) EXCEPT ![e.key] = Len(es) + 1] ELSE Indices(es)
<1>1. PICK ds \in Seq(EntryRecord) : ds = Append(es, e)
  BY AppendProperties
<1>2. /\ Len(es) \in Nat /\ Len(ds) = Len(es) + 1 /\ ds[Len(es) + 1] = e
      /\ \A i \in 1 .. Len(es) : ds[i] = es[i]
  BY <1>1, AppendProperties
<1>3. PICK k \in Nat : k = Len(es) + 1 /\ Len(ds) = k
  BY <1>2
<1>4. ASSUME NEW key \in ToolKeys
      PROVE  Cards(ds, key) =
               IF e.kind = "tool" /\ e.key = key THEN Cards(es, key) \cup {k} ELSE Cards(es, key)
  <2>1. \A i \in 1 .. k : i \in 1 .. Len(es) \/ i = k
    BY <1>2, <1>3
  <2>2. k \in 1 .. k /\ \A i \in 1 .. Len(es) : i \in 1 .. k /\ i # k
    BY <1>2, <1>3
  <2>3. ds[k] = e
    BY <1>2, <1>3
  <2> QED
    BY <1>2, <1>3, <2>1, <2>2, <2>3 DEF Cards
<1>5. ASSUME NEW key \in ToolKeys
      PROVE  Indices(ds)[key] = IF e.kind = "tool" /\ e.key = key THEN k ELSE Indices(es)[key]
  <2>1. CASE e.kind = "tool" /\ e.key = key
    <3> DEFINE S == Cards(es, key) \cup {k}
    <3>1. S \in SUBSET Nat /\ k \in S /\ \A y \in S : y <= k
      BY <1>2, <1>3 DEF Cards
    <3>2. Cards(ds, key) = S /\ S # {}
      BY <1>4, <2>1, <3>1
    <3> HIDE DEF S
    <3>3. Max(S) = k
      BY <3>1, MaxIs
    <3> QED
      BY <2>1, <3>2, <3>3 DEF Indices
  <2>2. CASE ~(e.kind = "tool" /\ e.key = key)
    BY <1>4, <2>2 DEF Indices
  <2> QED
    BY <2>1, <2>2
<1>6. Indices(es) = [key \in ToolKeys |-> Indices(es)[key]]
  BY DEF Indices
<1>7. Indices(ds) = [key \in ToolKeys |-> Indices(ds)[key]]
  BY DEF Indices
<1>8. CASE e.kind = "tool"
  <2>1. e.key \in ToolKeys
    BY <1>8
  <2> DEFINE r == [Indices(es) EXCEPT ![e.key] = k]
  <2>2. r = [key \in ToolKeys |-> r[key]]
    BY <1>6
  <2>3. \A key \in ToolKeys : r[key] = IF e.key = key THEN k ELSE Indices(es)[key]
    BY <1>6
  <2>4. \A key \in ToolKeys : r[key] = Indices(ds)[key]
    BY <1>5, <1>8, <2>3
  <2> HIDE DEF r
  <2>5. r = Indices(ds)
    BY <1>7, <2>2, <2>4
  <2> QED
    BY <1>1, <1>3, <1>8, <2>5 DEF r
<1>9. CASE e.kind # "tool"
  <2>1. \A key \in ToolKeys : Indices(ds)[key] = Indices(es)[key]
    BY <1>5, <1>9
  <2>2. Indices(ds) = Indices(es)
    BY <1>6, <1>7, <2>1
  <2> QED
    BY <1>1, <1>9, <2>2
<1> QED
  BY <1>8, <1>9

LEMMA IndicesResized ==
  ASSUME NEW es \in Seq(EntryRecord), NEW i \in 1 .. Len(es), NEW b \in Nat
  PROVE  Indices([es EXCEPT ![i].bytes = b]) = Indices(es)
<1> DEFINE ds == [es EXCEPT ![i].bytes = b]
<1>0. es \in [1 .. Len(es) -> EntryRecord]
  OBVIOUS
<1>1. Len(ds) = Len(es)
  BY BytesResized
<1>2. \A j \in 1 .. Len(es) : es[j] \in EntryRecord
  BY ElementOfSeq
<1>3. ASSUME NEW j \in 1 .. Len(es)
      PROVE  ds[j].kind = es[j].kind /\ ds[j].key = es[j].key
  <2>1. CASE j = i
    <3>1. ds[j] = [es[i] EXCEPT !.bytes = b]
      BY <1>0, <2>1
    <3> QED
      BY <1>2, <2>1, <3>1 DEF EntryRecord
  <2>2. CASE j # i
    BY <1>0, <2>2
  <2> QED
    BY <2>1, <2>2
<1> HIDE DEF ds
<1>4. \A key \in ToolKeys : Cards(ds, key) = Cards(es, key)
  BY <1>1, <1>3 DEF Cards
<1>5. Indices(ds) = Indices(es)
  BY <1>4 DEF Indices
<1> QED
  BY <1>5 DEF ds

\* The transcript is as TranscriptSound has it, and typed.
Shows(es, bytes, indices, selected) ==
  /\ es \in Seq(EntryRecord)
  /\ bytes = Bytes(es)
  /\ bytes <= MaxTranscriptBytes \/ Len(es) = 1
  /\ indices = Indices(es)
  /\ selected \in 0 .. Len(es)

TranscriptInv == Shows(entries, transcriptBytes, tools, selectedEntry)

\* What has to be dropped can be.
LEMMA DroppedIs ==
  ASSUME NEW es \in Seq(EntryRecord), es # <<>>
  PROVE  /\ Dropped(es, Bytes(es)) \in 0 .. Len(es) - 1
         /\ \/ Dropped(es, Bytes(es)) = Len(es) - 1
            \/ Bytes(es) - Bytes(SubSeq(es, 1, Dropped(es, Bytes(es)))) <= MaxTranscriptBytes
<1> DEFINE P(n) == n = Len(es) - 1 \/ Bytes(es) - Bytes(SubSeq(es, 1, n)) <= MaxTranscriptBytes
           T == {n \in 0 .. Len(es) - 1 : P(n)}
<1>1. Len(es) \in Nat /\ Len(es) - 1 \in Nat
  BY EmptySeq
<1>2. Len(es) - 1 \in T /\ T \in SUBSET Nat
  BY <1>1
<1>3. PICK n \in T : \A m \in T : n <= m
  <2> HIDE DEF T
  <2> QED
    BY <1>2, LeastNatural
<1>4. n \in 0 .. Len(es) - 1 /\ P(n)
  BY <1>3
<1>5. ASSUME NEW m \in 0 .. n - 1
      PROVE  Bytes(es) - Bytes(SubSeq(es, 1, m)) > MaxTranscriptBytes
  <2>1. m \in 0 .. Len(es) - 1 /\ m \notin T /\ m \in 0 .. Len(es)
    BY <1>1, <1>3, <1>4
  <2>2. ~(Bytes(es) - Bytes(SubSeq(es, 1, m)) <= MaxTranscriptBytes)
    BY <2>1
  <2>3. Bytes(es) \in Nat /\ Bytes(SubSeq(es, 1, m)) \in Nat
    BY <2>1, BytesCut
  <2> QED
    BY <2>2, <2>3, TranscriptAssumption
<1>6. \E k \in 0 .. Len(es) - 1 :
        P(k) /\ \A m \in 0 .. k - 1 : Bytes(es) - Bytes(SubSeq(es, 1, m)) > MaxTranscriptBytes
  BY <1>4, <1>5
<1> QED
  BY <1>6, Zenon DEF Dropped

LEMMA TrimShows ==
  ASSUME NEW es \in Seq(EntryRecord), es # <<>>, NEW bytes, bytes = Bytes(es),
         NEW indices, indices = Indices(es), NEW selected \in 0 .. Len(es),
         Trim(es, bytes, indices, selected)
  PROVE  Shows(entries', transcriptBytes', tools', selectedEntry')
<1>1. Len(es) \in Nat /\ Len(es) - 1 \in Nat
  BY EmptySeq
<1>2. PICK n \in 0 .. Len(es) - 1 :
        /\ n = Dropped(es, Bytes(es))
        /\ n = Len(es) - 1 \/ Bytes(es) - Bytes(SubSeq(es, 1, n)) <= MaxTranscriptBytes
  BY DroppedIs
<1>3. n \in Nat /\ n \in 0 .. Len(es)
  BY <1>1, <1>2
<1>4. PICK kept \in Seq(EntryRecord) : kept = SubSeq(es, n + 1, Len(es)) /\ Len(kept) = Len(es) - n
  <2>1. n + 1 \in Int /\ Len(es) \in Int /\ \A i \in n + 1 .. Len(es) : es[i] \in EntryRecord
    BY <1>1, <1>3, ElementOfSeq
  <2>2. SubSeq(es, n + 1, Len(es)) \in Seq(EntryRecord)
    BY <2>1, SubSeqProperties
  <2>3. Len(SubSeq(es, n + 1, Len(es))) = Len(es) - n
    BY <1>1, <1>2, <2>1, SubSeqProperties
  <2> QED
    BY <2>2, <2>3
<1>5. /\ entries' = kept
      /\ transcriptBytes' = Bytes(es) - Bytes(SubSeq(es, 1, n))
      /\ tools' = IF n = 0 THEN indices ELSE Indices(kept)
      /\ selectedEntry' = IF n = 0 THEN selected ELSE Least(selected, Len(kept))
  BY <1>2, <1>4 DEF Trim
<1>6. transcriptBytes' = Bytes(kept)
  BY <1>3, <1>4, <1>5, BytesCut
<1>7. transcriptBytes' <= MaxTranscriptBytes \/ Len(kept) = 1
  BY <1>1, <1>2, <1>4, <1>5
<1>8. n = 0 => kept = es
  <2>1. SubSeq(es, 1, Len(es)) = es
    BY SubSeqFull
  <2> QED
    BY <1>4, <2>1
<1>9. tools' = Indices(kept)
  BY <1>5, <1>8
<1>10. selectedEntry' \in 0 .. Len(kept)
  <2>1. CASE n = 0
    BY <1>5, <1>8, <2>1
  <2>2. CASE n # 0
    <3>0. Len(kept) \in Nat
      BY LenProperties
    <3>1. PICK size \in Nat : size = Len(kept)
      BY <3>0
    <3>2. PICK old \in Nat : old = selected
      BY <1>1
    <3>3. Least(old, size) \in 0 .. size
      BY DEF Least
    <3> QED
      BY <1>5, <2>2, <3>1, <3>2, <3>3
  <2> QED
    BY <2>1, <2>2
<1> QED
  BY <1>5, <1>6, <1>7, <1>9, <1>10 DEF Shows

LEMMA PushShows ==
  ASSUME TranscriptInv, NEW e \in EntryRecord, e.kind = "tool" => e.key \in ToolKeys, Push(e)
  PROVE  Shows(entries', transcriptBytes', tools', selectedEntry')
<1>1. /\ entries \in Seq(EntryRecord) /\ transcriptBytes = Bytes(entries)
      /\ tools = Indices(entries)
  BY DEF TranscriptInv, Shows
<1>2. PICK es \in Seq(EntryRecord) : es = Append(entries, e)
  BY <1>1, AppendProperties
<1>3. Len(entries) \in Nat /\ Len(es) = Len(entries) + 1 /\ es # <<>>
  BY <1>1, <1>2, AppendProperties
<1>4. PICK bytes : bytes = transcriptBytes + e.bytes
  OBVIOUS
<1>5. bytes = Bytes(es)
  BY <1>1, <1>2, <1>4, BytesAppend
<1>6. PICK indices : indices = IF e.kind = "tool" THEN [tools EXCEPT ![e.key] = Len(entries) + 1] ELSE tools
  OBVIOUS
<1>7. indices = Indices(es)
  BY <1>1, <1>2, <1>6, IndicesAppend
<1>8. PICK selected \in 0 .. Len(es) : selected = Len(entries) + 1
  BY <1>3
<1>9. Trim(es, bytes, indices, selected)
  BY <1>2, <1>4, <1>6, <1>8 DEF Push
<1> QED
  BY <1>3, <1>5, <1>7, <1>9, TrimShows

LEMMA ResizeShows ==
  ASSUME TranscriptInv, NEW i \in 1 .. Len(entries), NEW b \in Nat, Resize(i, b)
  PROVE  Shows(entries', transcriptBytes', tools', selectedEntry')
<1>1. /\ entries \in Seq(EntryRecord) /\ transcriptBytes = Bytes(entries)
      /\ tools = Indices(entries) /\ selectedEntry \in 0 .. Len(entries)
  BY DEF TranscriptInv, Shows
<1>2. PICK es \in Seq(EntryRecord) : es = [entries EXCEPT ![i].bytes = b] /\ Len(es) = Len(entries)
  BY <1>1, BytesResized
<1>3. es # <<>>
  BY <1>1, <1>2
<1>4. PICK bytes : bytes = transcriptBytes - entries[i].bytes + b
  OBVIOUS
<1>5. bytes = Bytes(es)
  BY <1>1, <1>2, <1>4, BytesResized
<1>6. PICK indices : indices = tools
  OBVIOUS
<1>7. indices = Indices(es)
  <2>1. Indices([entries EXCEPT ![i].bytes = b]) = Indices(entries)
    BY <1>1, IndicesResized
  <2> QED
    BY <1>1, <1>2, <1>6, <2>1, Zenon
<1>8. PICK selected \in 0 .. Len(es) : selected = selectedEntry
  BY <1>1, <1>2
<1>9. Trim(es, bytes, indices, selected)
  BY <1>2, <1>4, <1>6, <1>8 DEF Resize
<1> QED
  BY <1>3, <1>5, <1>7, <1>9, TrimShows

LEMMA EntryIs ==
  ASSUME NEW kind \in EntryKinds, NEW key \in MessageKeys \cup ToolKeys \cup {"none"}, NEW b \in Nat
  PROVE  /\ Entry(kind, key, b) \in EntryRecord
         /\ Entry(kind, key, b).kind = kind /\ Entry(kind, key, b).key = key
  BY DEF Entry, EntryRecord

LEMMA TranscriptBegins ==
  ASSUME TranscriptInit PROVE TranscriptInv
<1>1. PICK f : Sums(f, <<>>) /\ Bytes(<<>>) = f[Len(<<>>)]
  <2>1. <<>> \in Seq(EntryRecord)
    OBVIOUS
  <2> QED
    BY <2>1, BytesSum
<1>2. Bytes(<<>>) = 0
  BY <1>1 DEF Sums
<1>3. Indices(<<>>) = NoTools
  BY DEF Indices, Cards, NoTools
<1> QED
  BY <1>2, <1>3, TranscriptAssumption DEF TranscriptInit, TranscriptInv, Shows

LEMMA TranscriptSteps ==
  ASSUME TranscriptInv, [TranscriptNext]_transcriptVars
  PROVE  TranscriptInv'
<1> SUFFICES Shows(entries', transcriptBytes', tools', selectedEntry')
  BY DEF TranscriptInv
<1>0. /\ entries \in Seq(EntryRecord) /\ Len(entries) \in Nat
      /\ \A i \in 1 .. Len(entries) : entries[i].bytes \in Nat
  <2>1. entries \in Seq(EntryRecord)
    BY DEF TranscriptInv, Shows
  <2>2. \A i \in 1 .. Len(entries) : entries[i] \in EntryRecord
    BY <2>1, ElementOfSeq
  <2> QED
    BY <2>1, <2>2 DEF EntryRecord
<1>1. ASSUME NEW b \in Pieces, NEW key \in MessageKeys \cup {"none"}, NEW kind \in {"assistant", "thought"},
             AppendMessageChunk(kind, key, b)
      PROVE  Shows(entries', transcriptBytes', tools', selectedEntry')
  <2>1. b \in Nat
    BY TranscriptAssumption
  <2>2. CASE entries # <<>> /\ Last(entries).kind = kind /\ key \in {"none", Last(entries).key}
    <3>1. Len(entries) \in 1 .. Len(entries)
      BY <1>0, <2>2, EmptySeq
    <3>2. PICK size \in Nat : size = Last(entries).bytes + b
      BY <1>0, <2>1, <3>1 DEF Last
    <3>3. Resize(Len(entries), size)
      BY <1>1, <2>2, <3>2 DEF AppendMessageChunk
    <3>4. PICK i \in 1 .. Len(entries) : i = Len(entries)
      BY <3>1
    <3> QED
      BY <3>3, <3>4, ResizeShows
  <2>3. CASE ~(entries # <<>> /\ Last(entries).kind = kind /\ key \in {"none", Last(entries).key})
    <3>1. Push(Entry(kind, key, b))
      BY <1>1, <2>3 DEF AppendMessageChunk
    <3>2. Entry(kind, key, b) \in EntryRecord /\ Entry(kind, key, b).kind # "tool"
      <4>1. kind \in EntryKinds /\ kind # "tool"
        BY DEF EntryKinds
      <4>2. key \in MessageKeys \cup ToolKeys \cup {"none"}
        OBVIOUS
      <4> QED
        BY <2>1, <4>1, <4>2, EntryIs
    <3>3. PICK e \in EntryRecord : e = Entry(kind, key, b) /\ e.kind # "tool"
      BY <3>2
    <3> QED
      BY <3>1, <3>3, PushShows
  <2> QED
    BY <2>2, <2>3
<1>2. ASSUME NEW b \in Pieces, NEW key \in ToolKeys, Push(Entry("tool", key, b))
      PROVE  Shows(entries', transcriptBytes', tools', selectedEntry')
  <2>1. b \in Nat
    BY TranscriptAssumption
  <2>2. Entry("tool", key, b) \in EntryRecord /\ Entry("tool", key, b).key \in ToolKeys
    <3>1. "tool" \in EntryKinds /\ key \in ToolKeys
      BY DEF EntryKinds
    <3>2. key \in MessageKeys \cup ToolKeys \cup {"none"}
      OBVIOUS
    <3> QED
      BY <2>1, <3>1, <3>2, EntryIs
  <2>3. PICK e \in EntryRecord : e = Entry("tool", key, b) /\ e.key \in ToolKeys
    BY <2>2
  <2> QED
    BY <1>2, <2>3, PushShows
<1>3. ASSUME NEW b \in Pieces, NEW key \in ToolKeys, UpdateTool(key, b)
      PROVE  Shows(entries', transcriptBytes', tools', selectedEntry')
  <2>1. b \in Nat
    BY TranscriptAssumption
  <2>2. CASE Card(key) = 0
    BY <1>2, <1>3, <2>2 DEF UpdateTool
  <2>3. CASE Card(key) # 0
    <3> DEFINE found == {i \in 1 .. Len(entries) : entries[i].key = key}
    <3>1. found \in SUBSET Nat
      BY <1>0
    <3>2. FirstOf(found) = 0 \/ FirstOf(found) \in found
      <4> HIDE DEF found
      <4> QED
        BY <3>1, FirstIsFound
    <3>3. Card(key) \in 1 .. Len(entries)
      BY <2>3, <3>2 DEF Card
    <3>4. PICK i \in 1 .. Len(entries) : i = Card(key)
      BY <3>3
    <3>5. Resize(i, b)
      BY <1>3, <2>3, <3>4 DEF UpdateTool
    <3> QED
      BY <2>1, <3>5, ResizeShows
  <2> QED
    BY <2>2, <2>3
<1>4. ASSUME NEW b \in Pieces, UpdatePlan(b)
      PROVE  Shows(entries', transcriptBytes', tools', selectedEntry')
  <2>1. b \in Nat
    BY TranscriptAssumption
  <2> DEFINE found == {i \in 1 .. Len(entries) : entries[i].kind = "plan"}
  <2>2. IF FirstOf(found) = 0 THEN Push(Entry("plan", "none", b)) ELSE Resize(FirstOf(found), b)
    BY <1>4 DEF UpdatePlan
  <2>3. found \in SUBSET Nat
    BY <1>0
  <2>4. \A i \in found : i \in 1 .. Len(entries)
    OBVIOUS
  <2> HIDE DEF found
  <2>5. FirstOf(found) = 0 \/ FirstOf(found) \in found
    BY <2>3, FirstIsFound
  <2>6. CASE FirstOf(found) = 0
    <3>1. Entry("plan", "none", b) \in EntryRecord /\ Entry("plan", "none", b).kind # "tool"
      <4>1. "plan" \in EntryKinds /\ "plan" # "tool"
        BY DEF EntryKinds
      <4>2. "none" \in MessageKeys \cup ToolKeys \cup {"none"}
        OBVIOUS
      <4> QED
        BY <2>1, <4>1, <4>2, EntryIs
    <3>2. PICK e \in EntryRecord : e = Entry("plan", "none", b) /\ e.kind # "tool"
      BY <3>1
    <3> QED
      BY <2>2, <2>6, <3>2, PushShows
  <2>7. CASE FirstOf(found) # 0
    <3>1. PICK i \in 1 .. Len(entries) : i = FirstOf(found)
      BY <2>4, <2>5, <2>7
    <3>2. Resize(i, b)
      BY <2>2, <2>7, <3>1
    <3> QED
      BY <2>1, <3>2, ResizeShows
  <2> QED
    BY <2>6, <2>7
<1>5. ASSUME NEW b \in Pieces, AddEntry("notice", b)
      PROVE  Shows(entries', transcriptBytes', tools', selectedEntry')
  <2>1. b \in Nat
    BY TranscriptAssumption
  <2>2. Entry("notice", "none", b) \in EntryRecord /\ Entry("notice", "none", b).kind # "tool"
    <3>1. "notice" \in EntryKinds /\ "notice" # "tool"
      BY DEF EntryKinds
    <3>2. "none" \in MessageKeys \cup ToolKeys \cup {"none"}
      OBVIOUS
    <3> QED
      BY <2>1, <3>1, <3>2, EntryIs
  <2>3. PICK e \in EntryRecord : e = Entry("notice", "none", b) /\ e.kind # "tool"
    BY <2>2
  <2>4. Push(e)
    BY <1>5, <2>3 DEF AddEntry
  <2> QED
    BY <2>3, <2>4, PushShows
<1>6. ASSUME ClearTranscript
      PROVE  Shows(entries', transcriptBytes', tools', selectedEntry')
  <2>1. PICK f : Sums(f, <<>>) /\ Bytes(<<>>) = f[Len(<<>>)]
    <3>1. <<>> \in Seq(EntryRecord)
      OBVIOUS
    <3> QED
      BY <3>1, BytesSum
  <2>2. Bytes(<<>>) = 0
    BY <2>1 DEF Sums
  <2>3. Indices(<<>>) = NoTools
    BY DEF Indices, Cards, NoTools
  <2> QED
    BY <1>6, <2>2, <2>3, TranscriptAssumption DEF ClearTranscript, Shows
<1>7. ASSUME NEW i \in 1 .. Len(entries), Select(i)
      PROVE  Shows(entries', transcriptBytes', tools', selectedEntry')
  <2>1. i \in 0 .. Len(entries)
    BY <1>0
  <2> QED
    BY <1>7, <2>1 DEF Select, TranscriptInv, Shows
<1>8. ASSUME UNCHANGED transcriptVars
      PROVE  Shows(entries', transcriptBytes', tools', selectedEntry')
  BY <1>8 DEF transcriptVars, TranscriptInv
<1>9. ASSUME NEW b \in Pieces, NEW key \in ToolKeys, AddTool(key, b)
      PROVE  Shows(entries', transcriptBytes', tools', selectedEntry')
  BY <1>2, <1>9 DEF AddTool
<1> QED
  BY <1>1, <1>3, <1>4, <1>5, <1>6, <1>7, <1>8, <1>9 DEF TranscriptNext

\* The transcript by itself.
TranscriptSpec == TranscriptInit /\ [][TranscriptNext]_transcriptVars

\* The running count of the transcript is that of its bytes and keeps to the limit, each call
\* finds its last card, and the selection is an entry: however it grew and was trimmed.
THEOREM TranscriptIsIndexed == TranscriptSpec => []TranscriptSound
<1>1. TranscriptInit => TranscriptInv
  BY TranscriptBegins
<1>2. TranscriptInv /\ [TranscriptNext]_transcriptVars => TranscriptInv'
  BY TranscriptSteps
<1>3. TranscriptInv => TranscriptSound
  BY DEF TranscriptInv, Shows, TranscriptSound
<1> QED
  BY <1>1, <1>2, <1>3, PTL DEF TranscriptSpec

-----------------------------------------------------------------------------
(* The types of the parts, as the runs check them.                         *)

\* Each call of a tool puts one content in place of a file at most: the calls that still may
\* are counted with the stamps that were given.
Live == {a \in Agents : call[a].at \in {"begun", "staged", "checked"}}
StampsOK ==
  /\ IsFiniteSet(Live) /\ fileCalls \in 0 .. MaxCalls /\ outside \in 0 .. MaxOutside
  /\ stamps + Cardinality(Live) <= 1 + fileCalls + outside
  /\ \A t \in Targets : disk[t].stamp <= stamps

LEMMA LiveShrinks ==
  ASSUME IsFiniteSet(Live), Live' \subseteq Live
  PROVE  IsFiniteSet(Live') /\ Cardinality(Live') \in Nat /\ Cardinality(Live) \in Nat
         /\ Cardinality(Live') <= Cardinality(Live)
  BY FS_Subset, FS_CardinalityType

LEMMA LiveLoses ==
  ASSUME IsFiniteSet(Live), NEW a \in Live, Live' \subseteq Live \ {a}
  PROVE  IsFiniteSet(Live') /\ Cardinality(Live') \in Nat /\ Cardinality(Live) \in Nat
         /\ Cardinality(Live') + 1 <= Cardinality(Live)
<1>1. IsFiniteSet(Live \ {a}) /\ Cardinality(Live \ {a}) = Cardinality(Live) - 1
  BY FS_RemoveElement
<1>2. IsFiniteSet(Live') /\ Cardinality(Live') <= Cardinality(Live \ {a})
  BY <1>1, FS_Subset
<1>3. Cardinality(Live') \in Nat /\ Cardinality(Live) \in Nat
  BY <1>2, FS_CardinalityType
<1> QED
  BY <1>1, <1>2, <1>3

LEMMA LiveGains ==
  ASSUME IsFiniteSet(Live), NEW a, Live' \subseteq Live \cup {a}
  PROVE  IsFiniteSet(Live') /\ Cardinality(Live') \in Nat /\ Cardinality(Live) \in Nat
         /\ Cardinality(Live') <= Cardinality(Live) + 1
<1>1. IsFiniteSet(Live \cup {a})
      /\ (Cardinality(Live \cup {a}) = Cardinality(Live) \/ Cardinality(Live \cup {a}) = Cardinality(Live) + 1)
  BY FS_AddElement
<1>2. IsFiniteSet(Live') /\ Cardinality(Live') <= Cardinality(Live \cup {a})
  BY <1>1, FS_Subset
<1>3. Cardinality(Live') \in Nat /\ Cardinality(Live) \in Nat
  BY <1>2, FS_CardinalityType
<1> QED
  BY <1>1, <1>2, <1>3

LEMMA StampsBegin ==
  ASSUME FilesInit PROVE StampsOK
<1>1. Live = {}
  BY DEF FilesInit, Live, Idle
<1>2. IsFiniteSet(Live) /\ Cardinality(Live) = 0
  BY <1>1, FS_EmptySet
<1>3. \A t \in Targets : disk[t].stamp = 0
  BY DEF FilesInit, Absent
<1>4. MaxCalls \in Nat /\ MaxOutside \in Nat
  BY FilesAssumption DEF FilesAssumption
<1> QED
  BY <1>2, <1>3, <1>4 DEF FilesInit, StampsOK

\* A step that gives no stamp.
LEMMA NoStamp ==
  ASSUME StampsOK, stamps \in Nat, Live' \subseteq Live, UNCHANGED <<disk, stamps, fileCalls, outside>>
  PROVE  StampsOK'
<1>1. IsFiniteSet(Live') /\ Cardinality(Live') \in Nat /\ Cardinality(Live) \in Nat
      /\ Cardinality(Live') <= Cardinality(Live)
  BY LiveShrinks DEF StampsOK
<1> QED
  BY <1>1, FilesAssumption DEF StampsOK, FilesAssumption

LEMMA PutStamps ==
  ASSUME FilesInv, StampsOK, NEW t \in Targets, NEW content, Put(t, content)
  PROVE  stamps \in Nat /\ stamps' = stamps + 1 /\ \A u \in Targets : disk'[u].stamp <= stamps'
<1>1. stamps \in Nat /\ stamps' = stamps + 1 /\ disk \in [Targets -> FileCopies]
  BY DEF Put, FilesInv, FilesTypes
<1>2. ASSUME NEW u \in Targets
      PROVE  disk'[u].stamp <= stamps'
  <2>1. disk[u].stamp \in Nat /\ disk[u].stamp <= stamps
    BY <1>1 DEF FileCopies, StampsOK
  <2>2. CASE u # t
    BY <1>1, <2>1, <2>2 DEF Put
  <2>3. CASE u = t
    <3>1. disk'[u] = Absent \/ disk'[u] = [content |-> content, stamp |-> stamps]
      BY <1>1, <2>3 DEF Put
    <3>2. disk'[u].stamp = 0 \/ disk'[u].stamp = stamps
      BY <3>1 DEF Absent
    <3> QED
      BY <1>1, <3>2
  <2> QED
    BY <2>2, <2>3
<1> QED
  BY <1>1, <1>2

\* A call gives its stamp.
LEMMA CallStamps ==
  ASSUME FilesInv, StampsOK, NEW a \in Live, Live' \subseteq Live \ {a}, NEW t \in Targets, NEW content,
         Put(t, content), UNCHANGED <<fileCalls, outside>>
  PROVE  StampsOK'
<1>1. stamps \in Nat /\ stamps' = stamps + 1 /\ \A u \in Targets : disk'[u].stamp <= stamps'
  BY PutStamps
<1>2. IsFiniteSet(Live') /\ Cardinality(Live') \in Nat /\ Cardinality(Live) \in Nat
      /\ Cardinality(Live') + 1 <= Cardinality(Live)
  BY LiveLoses DEF StampsOK
<1> QED
  BY <1>1, <1>2, FilesAssumption DEF StampsOK, FilesAssumption

\* The call of a begins.
LEMMA BeginStamps ==
  ASSUME FilesInv, StampsOK, NEW a \in Agents, NEW tool, NEW after, Begin(a, tool, after)
  PROVE  StampsOK'
<1>1. Live' \subseteq Live \cup {a} /\ UNCHANGED <<disk, outside, stamps>>
      /\ fileCalls < MaxCalls /\ fileCalls' = fileCalls + 1
  BY DEF Begin, Live, FilesInv, FilesTypes
<1>2. IsFiniteSet(Live') /\ Cardinality(Live') \in Nat /\ Cardinality(Live) \in Nat
      /\ Cardinality(Live') <= Cardinality(Live) + 1
  BY <1>1, LiveGains DEF StampsOK
<1>3. stamps \in Nat /\ MaxCalls \in Nat /\ MaxOutside \in Nat
  BY FilesAssumption DEF FilesAssumption, FilesInv, FilesTypes
<1> QED
  BY <1>1, <1>2, <1>3 DEF StampsOK

\* The user gives a stamp, or none.
LEMMA OutsideStamps ==
  ASSUME FilesInv, StampsOK, NEW t \in Targets,
         (\E content \in Contents \cup {"absent"} : UserWrites(t, content)) \/ UserRelinks(t)
  PROVE  StampsOK'
<1>1. Live' \subseteq Live /\ outside < MaxOutside /\ outside' = outside + 1 /\ UNCHANGED fileCalls
  BY DEF UserWrites, UserRelinks, Outside, Live
<1>2. IsFiniteSet(Live') /\ Cardinality(Live') \in Nat /\ Cardinality(Live) \in Nat
      /\ Cardinality(Live') <= Cardinality(Live)
  BY <1>1, LiveShrinks DEF StampsOK
<1>3. stamps \in Nat /\ MaxCalls \in Nat /\ MaxOutside \in Nat
  BY FilesAssumption DEF FilesAssumption, FilesInv, FilesTypes
<1>4. (stamps' = stamps + 1 \/ stamps' = stamps) /\ \A u \in Targets : disk'[u].stamp <= stamps'
  <2>1. CASE UserRelinks(t)
    BY <2>1 DEF UserRelinks, StampsOK
  <2>2. ASSUME NEW content \in Contents \cup {"absent"}, UserWrites(t, content)
        PROVE  stamps' = stamps + 1 /\ \A u \in Targets : disk'[u].stamp <= stamps'
    BY <2>2, PutStamps DEF UserWrites
  <2> QED
    BY <2>1, <2>2
<1> QED
  BY <1>1, <1>2, <1>3, <1>4 DEF StampsOK

LEMMA SaysEnds ==
  ASSUME call \in [Agents -> FileCall], NEW a \in Agents, NEW said, Says(a, said)
  PROVE  Live' \subseteq Live \ {a}
<1>1. call'[a].at = "ended" /\ \A b \in Agents : b # a => call'[b] = call[b]
  BY DEF Says, FileCall
<1> QED
  BY <1>1 DEF Live

LEMMA AtMoves ==
  ASSUME call \in [Agents -> FileCall], NEW a \in Agents, NEW at, At(a, at)
  PROVE  Live' \subseteq Live \cup {a} /\ (at = "committed" => Live' \subseteq Live \ {a})
<1>1. call'[a].at = at /\ \A b \in Agents : b # a => call'[b] = call[b]
  BY DEF At, FileCall
<1> QED
  BY <1>1 DEF Live

LEMMA StampsStep ==
  ASSUME FilesInv, StampsOK, [FilesNext]_fileVars
  PROVE  StampsOK'
<1>0. /\ stamps \in Nat /\ link \in Targets /\ disk \in [Targets -> FileCopies]
      /\ call \in [Agents -> FileCall] /\ \A t \in Targets : disk[t].stamp <= stamps
      /\ \A a \in Live : call[a].target \in Targets
  BY DEF FilesInv, FilesTypes, TargetsOK, StampsOK, Live
<1>1. CASE UNCHANGED fileVars
  <2>1. Live' \subseteq Live /\ UNCHANGED <<disk, stamps, fileCalls, outside>>
    BY <1>1 DEF fileVars, Live
  <2> QED
    BY <1>0, <2>1, NoStamp
<1>2. ASSUME NEW a \in Agents, NEW tool, NEW after, Begin(a, tool, after)
      PROVE  StampsOK'
  BY <1>2, BeginStamps
<1>3. ASSUME NEW a \in Agents, Denied(a) \/ ApplyNothing(a) \/ Stage(a) \/ CheckAgain(a) \/ StageFails(a)
                               \/ Record(a) \/ Read(a)
      PROVE  StampsOK'
  <2>1. UNCHANGED <<disk, stamps, fileCalls, outside>>
    BY <1>3 DEF Denied, ApplyNothing, Stage, CheckAgain, StageFails, Record, Read, Check, budgets
  <2>2. (\E said : Says(a, said)) \/ (\E at : At(a, at) /\ a \in Live)
    BY <1>3 DEF Denied, ApplyNothing, Stage, CheckAgain, StageFails, Record, Read, Check, Live
  <2>3. Live' \subseteq Live
    BY <1>0, <2>2, SaysEnds, AtMoves
  <2> QED
    BY <1>0, <2>1, <2>3, NoStamp
<1>4. ASSUME NEW a \in Agents, Commit(a) \/ CopyCommit(a)
      PROVE  StampsOK'
  <2>1. a \in Live /\ Live' \subseteq Live \ {a} /\ UNCHANGED <<fileCalls, outside>>
    <3>1. a \in Live /\ UNCHANGED <<fileCalls, outside>>
      BY <1>4 DEF Commit, CopyCommit, Live, budgets
    <3>2. At(a, "committed") \/ Says(a, "done")
      BY <1>4 DEF Commit, CopyCommit
    <3> QED
      BY <1>0, <3>1, <3>2, SaysEnds, AtMoves
  <2>2. Put(call[a].target, call[a].after) /\ call[a].target \in Targets
    BY <1>0, <1>4, <2>1 DEF Commit, CopyCommit
  <2> QED
    BY <2>1, <2>2, CallStamps
<1>5. ASSUME NEW a \in Agents, Delete(a)
      PROVE  StampsOK'
  <2>1. a \in Live /\ Live' \subseteq Live \ {a} /\ UNCHANGED <<fileCalls, outside>>
    <3>1. a \in Live /\ UNCHANGED <<fileCalls, outside>>
      BY <1>5 DEF Delete, Live, budgets
    <3>2. Says(a, "failed") \/ Says(a, "done")
      BY <1>5 DEF Delete
    <3> QED
      BY <1>0, <3>1, <3>2, SaysEnds
  <2>2. Put(link, "absent") \/ UNCHANGED <<disk, stamps>>
    BY <1>5 DEF Delete
  <2> QED
    BY <1>0, <2>1, <2>2, CallStamps, NoStamp
<1>6. ASSUME NEW a \in Agents, NEW to \in Targets, CopyOpen(a, to)
      PROVE  StampsOK'
  <2>1. a \in Live /\ UNCHANGED <<disk, stamps, fileCalls, outside>>
    BY <1>6 DEF CopyOpen, Live, budgets
  <2>2. Live' \subseteq Live
    BY <1>0, <1>6, <2>1 DEF CopyOpen, Live, Says
  <2> QED
    BY <1>0, <2>1, <2>2, NoStamp
<1>7. ASSUME NEW a \in Agents, NEW to \in Targets, Rename(a, to)
      PROVE  StampsOK'
  <2>1. Live' \subseteq Live /\ UNCHANGED <<stamps, fileCalls, outside>>
    BY <1>0, <1>7 DEF Rename, Live, Says, budgets
  <2>2. IsFiniteSet(Live') /\ Cardinality(Live') \in Nat /\ Cardinality(Live) \in Nat
        /\ Cardinality(Live') <= Cardinality(Live)
    BY <2>1, LiveShrinks DEF StampsOK
  <2>3. ASSUME NEW u \in Targets
        PROVE  disk'[u].stamp <= stamps
    <3>1. disk'[u] \in {disk[u], disk[link], Absent}
      BY <1>0, <1>7 DEF Rename
    <3> QED
      BY <1>0, <3>1 DEF Absent
  <2>4. MaxCalls \in Nat /\ MaxOutside \in Nat
    BY FilesAssumption DEF FilesAssumption
  <2> QED
    BY <1>0, <2>1, <2>2, <2>3, <2>4 DEF StampsOK
<1> QED
  BY <1>1, <1>2, <1>3, <1>4, <1>5, <1>6, <1>7, OutsideStamps DEF FilesNext, PrepareWrite, PrepareEdit, Permit

\* Every stamp is within the bound of the calls and of the user's changes.
LEMMA FilesTyped == FilesSpec => []FilesTypeOK
<1>1. FilesInit => FilesInv /\ StampsOK
  BY FilesBegin, StampsBegin
<1>2. (FilesInv /\ StampsOK) /\ [FilesNext]_fileVars => (FilesInv /\ StampsOK)'
  BY FilesStep, StampsStep
<1>3. FilesInv /\ StampsOK => FilesTypeOK
  <2>1. SUFFICES ASSUME FilesInv, StampsOK
                 PROVE  FilesTypeOK
    OBVIOUS
  <2>2. /\ "a" \in Contents /\ MaxCalls \in Nat /\ MaxOutside \in Nat /\ Cardinality(Live) \in Nat
        /\ disk \in [Targets -> FileCopies] /\ link \in Targets /\ stamps \in Nat
    BY <2>1, FilesAssumption, FS_CardinalityType DEF FilesAssumption, FilesInv, FilesTypes, StampsOK
  <2>3. stamps \in Stamps /\ \A t \in Targets : disk[t].stamp \in Stamps
    BY <2>1, <2>2 DEF Stamps, StampsOK, FileCopies
  <2>4. \A t \in Targets : disk[t].content \in Contents \cup {"absent", "edited"}
    BY <2>2 DEF FileCopies, FileContents
  <2>5. disk \in [Targets -> [content : Contents \cup {"absent", "edited"}, stamp : Stamps]]
    BY <2>2, <2>3, <2>4 DEF FileCopies
  <2> QED
    BY <2>1, <2>2, <2>3, <2>5 DEF FilesTypeOK, FilesInv, FilesTypes, FileCall, FilePhases
<1> QED
  BY <1>1, <1>2, <1>3, PTL DEF FilesSpec

-----------------------------------------------------------------------------
\* Who holds the lock of the memory has gone past it.
MemoryLocked == \A u \in Users : memoryLock = u => memoryCall[u].at \in {"locked", "loaded"}

LEMMA MemoryTyped == MemorySpec => []MemoryTypeOK
<1>1. MemoryInit => MemoryLocked
  BY MemoryAssumption DEF MemoryInit, MemoryLocked, MemoryAssumption
<1>2. MemoryInv /\ MemoryLocked /\ [MemoryNext]_memoryVars => MemoryLocked'
  <2>1. SUFFICES ASSUME MemoryInv, MemoryLocked, [MemoryNext]_memoryVars
                 PROVE  MemoryLocked'
    OBVIOUS
  <2>2. memoryCall \in [Users -> MemoryRecord] /\ "free" \notin Users
    BY <2>1, MemoryAssumption DEF MemoryInv, MemoryTypes, MemoryAssumption
  <2>3. ASSUME NEW u \in Users, Leave(u)
        PROVE  MemoryLocked'
    BY <2>1, <2>2, <2>3 DEF Leave, MemoryLocked
  <2>4. ASSUME NEW u \in Users, NEW action, NEW fact, CallMemory(u, action, fact)
        PROVE  MemoryLocked'
    BY <2>1, <2>2, <2>4 DEF CallMemory, MemoryLocked
  <2>5. ASSUME NEW u \in Users, LockMemory(u)
        PROVE  MemoryLocked'
    <3>1. memoryCall'[u].at = "locked" /\ memoryLock' = u
      BY <2>2, <2>5 DEF LockMemory, MemoryRecord
    <3> QED
      BY <3>1 DEF MemoryLocked
  <2>6. ASSUME NEW u \in Users, LoadMemories(u)
        PROVE  MemoryLocked'
    <3>1. CASE Leave(u)
      BY <2>3, <3>1
    <3>2. CASE memoryCall' = [memoryCall EXCEPT ![u].at = "loaded", ![u].facts = memories] /\ UNCHANGED memoryLock
      <4>1. memoryCall'[u].at = "loaded" /\ \A v \in Users : v # u => memoryCall'[v] = memoryCall[v]
        BY <2>2, <3>2 DEF MemoryRecord
      <4> QED
        BY <2>1, <3>2, <4>1 DEF MemoryLocked
    <3> QED
      BY <2>6, <3>1, <3>2 DEF LoadMemories
  <2>7. CASE UNCHANGED memoryVars
    BY <2>1, <2>7 DEF memoryVars, MemoryLocked
  <2> QED
    BY <2>1, <2>3, <2>4, <2>5, <2>6, <2>7
       DEF MemoryNext, LockMemoryTimeout, SaveMemory, ClearMemories, MemoryFails
<1>3. MemoryInv /\ MemoryLocked => MemoryTypeOK
  BY DEF MemoryInv, MemoryTypes, MemoryLocked, HoldsLock, MemoryRecord, MemoryTypeOK
<1> QED
  BY <1>1, <1>2, <1>3, MemoryHolds, PTL DEF MemorySpec

-----------------------------------------------------------------------------
\* Who holds the lock of a skill is replacing that skill.
SkillLocks ==
  /\ \A skill \in Skills, i \in Installers :
       skillLock[skill] = i => work[i].at \in {"locked", "aside"} /\ Current(i) = skill
  /\ catalog \in [Installers -> SUBSET Skills]

LEMMA SkillLocksStep ==
  ASSUME SkillsInv, SkillLocks, [SkillsNext]_skillVars
  PROVE  SkillLocks'
<1>0. /\ work \in [Installers -> WorkRecord] /\ skillLock \in [Skills -> Installers \cup {"free"}]
      /\ "free" \notin Installers /\ InPlace \subseteq Skills
      /\ catalog \in [Installers -> SUBSET Skills]
      /\ \A skill \in Skills, i \in Installers :
           skillLock[skill] = i => work[i].at \in {"locked", "aside"} /\ Head(work[i].todo) = skill
  BY SkillsAssumption DEF SkillsInv, SkillTypes, SkillsAssumption, InPlace, SkillLocks, Current
<1> DEFINE Others(i) == \A j \in Installers : j # i => work'[j] = work[j]
<1>1. ASSUME NEW i \in Installers, Others(i), UNCHANGED catalog \/ catalog' = [catalog EXCEPT ![i] = InPlace],
             skillLock' = Unlocked(i)
      PROVE  SkillLocks'
  <2>1. \A skill \in Skills, j \in Installers : skillLock'[skill] = j => j # i /\ skillLock[skill] = j
    BY <1>0, <1>1 DEF Unlocked
  <2>2. catalog' \in [Installers -> SUBSET Skills]
    BY <1>0, <1>1
  <2> QED
    BY <1>0, <1>1, <2>1, <2>2 DEF SkillLocks, Current
<1>2. ASSUME NEW i \in Installers, Others(i), UNCHANGED <<skillLock, catalog>>,
             work[i].at \notin {"locked", "aside"}
      PROVE  SkillLocks'
  BY <1>0, <1>2 DEF SkillLocks, Current
<1>3. ASSUME NEW i \in Installers, Abandon(i)
      PROVE  Others(i) /\ skillLock' = Unlocked(i)
  BY <1>0, <1>3 DEF Abandon
<1>4. ASSUME NEW i \in Installers,
             InstallFails(i) \/ MoveAsideFails(i) \/ RollBack(i) \/ RollBackFails(i) \/ InstallerCrash(i)
      PROVE  SkillLocks'
  <2>1. Abandon(i) /\ (UNCHANGED catalog \/ catalog' = [catalog EXCEPT ![i] = InPlace])
    BY <1>4 DEF InstallFails, MoveAsideFails, RollBack, RollBackFails, InstallerCrash
  <2> QED
    BY <1>1, <1>3, <2>1
<1>5. ASSUME NEW i \in Installers, PutInPlace(i)
      PROVE  SkillLocks'
  <2>1. Others(i) /\ skillLock' = Unlocked(i) /\ UNCHANGED catalog
    BY <1>0, <1>5 DEF PutInPlace
  <2> QED
    BY <1>1, <2>1
<1>6. ASSUME NEW i \in Installers,
             (\E source \in Sources : InstallSkill(i, source)) \/ Fetch(i) \/ CopyBegins(i) \/ CopyEnds(i)
      PROVE  SkillLocks'
  <2>1. UNCHANGED <<skillLock, catalog>> /\ work[i].at \notin {"locked", "aside"}
    BY <1>6 DEF InstallSkill, Fetch, CopyBegins, CopyEnds
  <2>2. Others(i)
    BY <1>0, <1>6 DEF InstallSkill, Fetch, CopyBegins, CopyEnds
  <2> QED
    BY <1>2, <2>1, <2>2
<1>7. ASSUME NEW i \in Installers, LockSkill(i)
      PROVE  SkillLocks'
  <2>1. work'[i].at = "locked" /\ work'[i].todo = work[i].todo /\ Others(i)
    BY <1>0, <1>7 DEF LockSkill, WorkRecord
  <2>2. \A skill \in Skills, j \in Installers :
          skillLock'[skill] = j => (j = i /\ skill = Head(work[i].todo)) \/ skillLock[skill] = j
    BY <1>0, <1>7 DEF LockSkill, Current
  <2>3. \A skill \in Skills : skillLock[skill] # i
    BY <1>0, <1>7 DEF LockSkill
  <2>4. UNCHANGED catalog
    BY <1>7 DEF LockSkill
  <2> QED
    BY <1>0, <2>1, <2>2, <2>3, <2>4 DEF SkillLocks, Current
<1>8. ASSUME NEW i \in Installers, MoveAside(i)
      PROVE  SkillLocks'
  <2>1. work'[i].at = "aside" /\ work'[i].todo = work[i].todo /\ Others(i) /\ UNCHANGED <<skillLock, catalog>>
    BY <1>0, <1>8 DEF MoveAside, WorkRecord
  <2> QED
    BY <1>0, <2>1 DEF SkillLocks, Current
<1>9. ASSUME NEW i \in Installers, Refresh(i)
      PROVE  SkillLocks'
  <2>1. Others(i) /\ UNCHANGED skillLock /\ work[i].at = "ready" /\ catalog' = [catalog EXCEPT ![i] = InPlace]
    BY <1>0, <1>9 DEF Refresh
  <2>2. \A skill \in Skills : skillLock[skill] # i
    BY <1>0, <2>1
  <2> QED
    BY <1>0, <2>1, <2>2 DEF SkillLocks, Current
<1>10. ASSUME NEW i \in Installers, \E skill \in Skills : LoadSkill(i, skill)
       PROVE  SkillLocks'
  <2>1. UNCHANGED <<work, skillLock, catalog>>
    BY <1>10 DEF LoadSkill
  <2> QED
    BY <1>0, <2>1 DEF SkillLocks, Current
<1>11. CASE UNCHANGED skillVars
  BY <1>0, <1>11 DEF skillVars, SkillLocks, Current
<1> QED
  BY <1>4, <1>5, <1>6, <1>7, <1>8, <1>9, <1>10, <1>11 DEF SkillsNext

LEMMA SkillsTyped == SkillsSpec => []SkillsTypeOK
<1>1. SkillsInit => SkillLocks
  BY SkillsAssumption DEF SkillsInit, SkillLocks, SkillsAssumption, InPlace
<1>2. SkillsInv /\ SkillLocks /\ [SkillsNext]_skillVars => SkillLocks'
  BY SkillLocksStep
<1>3. SkillsInv /\ SkillLocks => SkillsTypeOK
  BY DEF SkillsInv, SkillTypes, SkillLocks, WorkOK, WorkRecord, WorkStages, SkillsTypeOK
<1> QED
  BY <1>1, <1>2, <1>3, SkillsHold, PTL DEF SkillsSpec

-----------------------------------------------------------------------------
\* A session has a reader and a waiter at most.
ThreadsOK ==
  threads \in [Shells -> SUBSET {"reader", "waiter"}] /\ nativeCalls \in 0 .. MaxNativeCalls

LEMMA NativeTyped == NativeSpec => []NativeTypeOK
<1>1. NativeInit => ThreadsOK
  BY NativeAssumption DEF NativeInit, ThreadsOK, NativeAssumption
<1>2. NativeInv /\ ThreadsOK /\ [NativeNext]_nativeVars => ThreadsOK'
  <2>1. SUFFICES ASSUME NativeInv, ThreadsOK, [NativeNext]_nativeVars
                 PROVE  ThreadsOK'
    OBVIOUS
  <2>2. /\ \A t \in Threads : op[t].at \notin {"idle", "room"} => op[t].on \in Shells
        /\ MaxNativeCalls \in Nat
    BY <2>1, NativeAssumption DEF NativeInv, ShellInv, OpOK, NativeAssumption
  <2>3. nativeCalls' \in 0 .. MaxNativeCalls
    <3>1. UNCHANGED nativeCalls \/ nativeCalls' = MaxNativeCalls
          \/ (nativeCalls < MaxNativeCalls /\ nativeCalls' = nativeCalls + 1)
      <4>1. ASSUME NEW t \in Threads,
                   \/ SpawnFails(t) \/ InsertSession(t) \/ SpawnReader(t) \/ SpawnWaiter(t) \/ ThreadFails(t)
                   \/ WaitReturns(t) \/ CheckSignal(t) \/ CheckClose(t) \/ SetClosed(t) \/ RemoveClosed(t)
                   \/ (\E offset \in 0 .. MaxTyped : ReadRaw(t, offset))
                   \/ (\E deadly \in BOOLEAN : SendSignal(t, deadly) \/ Hangup(t, deadly))
                   \/ \E s \in Shells : SpawnShell(t, s)
            PROVE  UNCHANGED nativeCalls
        BY <4>1, Zenon
           DEF SpawnFails, SpawnShell, InsertSession, SpawnThread, SpawnReader, SpawnWaiter, ThreadFails,
               WaitReturns, ReadRaw, CheckSignal, SendSignal, CheckClose, Hangup, SetClosed, RemoveClosed,
               Returns, Continues
      <4>2. ASSUME NEW t \in Threads,
                   \/ CheckCapacity(t)
                   \/ \E s \in Shells, kind \in {"wait", "readRaw", "signal", "close"} : Find(t, s, kind)
            PROVE  nativeCalls < MaxNativeCalls /\ nativeCalls' = nativeCalls + 1
        BY <4>2, Zenon DEF CheckCapacity, Find
      <4>3. ASSUME NEW s \in Shells,
                   \/ ShellWrites(s) \/ ShellEnds(s) \/ WaiterReaps(s)
                   \/ (\E to \in 1 .. MaxTyped : ReaderReads(s, to))
                   \/ \E end \in {"exited", "lost"} : WaiterRecords(s, end)
            PROVE  UNCHANGED nativeCalls
        BY <4>3, Zenon DEF ShellWrites, ShellEnds, WaiterReaps, ReaderReads, WaiterRecords
      <4>4. HostDropped => nativeCalls' = MaxNativeCalls
        BY Zenon DEF HostDropped
      <4>5. CASE UNCHANGED nativeVars
        BY <4>5 DEF nativeVars
      <4> QED
        BY <2>1, <4>1, <4>2, <4>3, <4>4, <4>5, Zenon DEF NativeNext
    <3> QED
      BY <2>1, <2>2, <3>1 DEF ThreadsOK
  <2>4. \/ UNCHANGED threads
        \/ \E s \in Shells, thread \in {"reader", "waiter"} :
             threads' = [threads EXCEPT ![s] = @ \cup {thread}] \/ threads' = [threads EXCEPT ![s] = @ \ {thread}]
    <3>1. ASSUME NEW t \in Threads, SpawnReader(t) \/ SpawnWaiter(t)
          PROVE  \E s \in Shells, thread \in {"reader", "waiter"} :
                   threads' = [threads EXCEPT ![s] = @ \cup {thread}]
      BY <2>2, <3>1 DEF SpawnReader, SpawnWaiter, SpawnThread
    <3>2. ASSUME NEW s \in Shells,
                 (\E to \in 1 .. MaxTyped : ReaderReads(s, to)) \/ \E end \in {"exited", "lost"} : WaiterRecords(s, end)
          PROVE  \/ UNCHANGED threads
                 \/ \E thread \in {"reader", "waiter"} : threads' = [threads EXCEPT ![s] = @ \ {thread}]
      BY <3>2 DEF ReaderReads, WaiterRecords
    <3>3. ASSUME NEW t \in Threads,
                 \/ CheckCapacity(t) \/ SpawnFails(t) \/ InsertSession(t) \/ ThreadFails(t) \/ WaitReturns(t)
                 \/ CheckSignal(t) \/ CheckClose(t) \/ SetClosed(t) \/ RemoveClosed(t)
                 \/ (\E offset \in 0 .. MaxTyped : ReadRaw(t, offset))
                 \/ (\E deadly \in BOOLEAN : SendSignal(t, deadly) \/ Hangup(t, deadly))
                 \/ \E s \in Shells : \/ SpawnShell(t, s)
                                      \/ \E kind \in {"wait", "readRaw", "signal", "close"} : Find(t, s, kind)
          PROVE  UNCHANGED threads
      BY <3>3, Zenon
         DEF CheckCapacity, SpawnFails, SpawnShell, InsertSession, ThreadFails, Find, WaitReturns, ReadRaw,
             CheckSignal, SendSignal, CheckClose, Hangup, SetClosed, RemoveClosed, Returns, Continues, processVars
    <3>4. ASSUME NEW s \in Shells, ShellWrites(s) \/ ShellEnds(s) \/ WaiterReaps(s)
          PROVE  UNCHANGED threads
      BY <3>4 DEF ShellWrites, ShellEnds, WaiterReaps
    <3>5. HostDropped => UNCHANGED threads
      BY DEF HostDropped
    <3>6. CASE UNCHANGED nativeVars
      BY <3>6 DEF nativeVars
    <3> QED
      BY <2>1, <3>1, <3>2, <3>3, <3>4, <3>5, <3>6, Zenon DEF NativeNext
  <2>5. threads' \in [Shells -> SUBSET {"reader", "waiter"}]
    BY <2>1, <2>4 DEF ThreadsOK
  <2> QED
    BY <2>3, <2>5 DEF ThreadsOK
<1>3. NativeInv /\ ThreadsOK => NativeTypeOK
  BY DEF NativeInv, ShellInv, ShellTypes, RawOK, ThreadsOK, NativeTypeOK
<1> QED
  BY <1>1, <1>2, <1>3, NativeHolds, PTL DEF NativeSpec

-----------------------------------------------------------------------------
\* A session is numbered by the connection that started it.
HostedOK == \A s \in Servers : hosted[s] \subseteq DOMAIN connections

LEMMA HostedStep ==
  ASSUME HostsInv, HostedOK, [HostsNext]_hostVars
  PROVE  HostedOK'
<1>0. /\ hosted \in [Servers -> SUBSET Nat] /\ connections \in Seq(Connection)
      /\ Len(connections) \in Nat /\ DOMAIN connections = 1 .. Len(connections)
  BY ClientFacts DEF HostsInv
<1>1. ASSUME DOMAIN connections \subseteq DOMAIN connections', UNCHANGED hosted
      PROVE  HostedOK'
  BY <1>1 DEF HostedOK
<1>2. ASSUME NEW s, Stop(s)
      PROVE  HostedOK'
  <2>1. DOMAIN connections' = DOMAIN connections
    BY <1>2 DEF Stop
  <2>2. \A r \in Servers : hosted'[r] \subseteq hosted[r]
    BY <1>0, <1>2 DEF Stop
  <2> QED
    BY <2>1, <2>2 DEF HostedOK
<1>3. ASSUME NEW k \in Clients, NEW asks, NEW of, Open(k, asks, of)
      PROVE  DOMAIN connections \subseteq DOMAIN connections'
  BY <1>0, <1>3 DEF Open
<1>4. ASSUME NEW c \in DOMAIN connections, Handle(c)
      PROVE  HostedOK'
  <2>1. DOMAIN connections' = DOMAIN connections
    BY <1>0, <1>4 DEF Handle
  <2>2. connections[c].to \in Servers /\ connections[c].asks \in HostRequests
    BY <1>4, ClientFacts DEF HostsInv, ReachOK, Handle
  <2>3. \A r \in Servers : hosted'[r] \subseteq hosted[r] \cup {c}
    BY <1>0, <1>4, <2>2 DEF Handle, HostRequests
  <2> QED
    BY <2>1, <2>3 DEF HostedOK
<1>5. ASSUME NEW s \in Servers,
             \/ TryLock(s) \/ RemoveOldSocket(s) \/ Bind(s) \/ ReadConnections(s) \/ DropEndpoint(s) \/ DropLock(s)
             \/ \E waited \in BOOLEAN : ReadSessions(s, waited)
      PROVE  UNCHANGED <<hosted, connections>>
  BY <1>5 DEF TryLock, RemoveOldSocket, Bind, ReadConnections, DropEndpoint, DropLock, ReadSessions
<1>6. ASSUME NEW s \in Servers, Exit(s) \/ RunFails(s) \/ ServerDies(s)
      PROVE  Stop(s)
  BY <1>6 DEF Exit, RunFails, ServerDies
<1>7. ASSUME NEW c \in DOMAIN connections, EndThread(c) \/ \E s \in Servers : Accept(s, c)
      PROVE  DOMAIN connections' = DOMAIN connections /\ UNCHANGED hosted
  BY <1>0, <1>7 DEF EndThread, Accept
<1>8. ASSUME NEW k \in Clients,
             \/ HelloEnds(k) \/ SpawnHost(k) \/ StartupFailed(k) \/ RequestEnds(k) \/ AnswerTooLate(k)
      PROVE  UNCHANGED <<hosted, connections>>
  BY <1>8 DEF HelloEnds, SpawnHost, StartupFailed, RequestEnds, AnswerTooLate
<1>9. ASSUME NEW k \in Clients, Connect(k) \/ Request(k)
      PROVE  HostedOK'
  <2>1. UNCHANGED hosted /\ (UNCHANGED connections \/ \E asks, of : Open(k, asks, of))
    BY <1>9 DEF Connect, Request
  <2> QED
    BY <1>1, <1>3, <2>1
<1>10. ASSUME NEW k \in Clients, StartupTimeout(k)
       PROVE  HostedOK'
  <2>1. (\E s : Stop(s)) \/ UNCHANGED <<hosted, connections>>
    BY <1>10 DEF StartupTimeout
  <2> QED
    BY <1>1, <1>2, <2>1
<1>11. CASE UNCHANGED hostVars
  BY <1>1, <1>11 DEF hostVars
<1>12. CASE HostsNext
  BY <1>1, <1>2, <1>4, <1>5, <1>6, <1>7, <1>8, <1>9, <1>10, <1>12 DEF HostsNext
<1> QED
  BY <1>11, <1>12

LEMMA HostsTyped == HostsSpec => []HostsTypeOK
<1>1. HostsInit => HostedOK
  BY DEF HostsInit, HostedOK
<1>2. HostsInv /\ HostedOK /\ [HostsNext]_hostVars => HostedOK'
  BY HostedStep
<1>3. HostsInv /\ HostedOK => HostsTypeOK
  <2>1. SUFFICES ASSUME HostsInv, HostedOK
                 PROVE  HostsTypeOK
    OBVIOUS
  <2>2. \A c \in DOMAIN connections : connections[c] \in Connection
    BY <2>1, ClientFacts DEF HostsInv
  <2> QED
    BY <2>1, <2>2, ClientFacts DEF HostsInv, HostedOK, HostsTypeOK, Connection
<1> QED
  BY <1>1, <1>2, <1>3, HostsHold, PTL DEF HostsSpec

-----------------------------------------------------------------------------
(* EventReplay: the loop, a frame at a time.                               *)

IsLoop(f, frames, k) ==
  f = [n \in 0 .. k |-> IF n = 0 THEN Start ELSE ReplayFrame(f[n - 1], frames[n], n)]

\* f is where the loop is after each frame.
Loops(f, frames) ==
  /\ f[0] = Start
  /\ \A n \in Nat : n < Len(frames) => f[n + 1] = ReplayFrame(f[n], frames[n + 1], n + 1)

LEMMA LoopExists ==
  ASSUME NEW frames, NEW k \in Nat
  PROVE  \E f : IsLoop(f, frames, k)
<1> DEFINE T == {j \in Nat : \E f : IsLoop(f, frames, j)}
<1>1. 0 \in T
  <2> DEFINE f == [n \in 0 .. 0 |-> Start]
  <2>1. IsLoop(f, frames, 0)
    BY DEF IsLoop
  <2> QED
    BY <2>1
<1>2. ASSUME NEW j \in T
      PROVE  j + 1 \in T
  <2>1. PICK f : IsLoop(f, frames, j)
    OBVIOUS
  <2>2. j \in Nat
    OBVIOUS
  <2> DEFINE g == [n \in 0 .. (j + 1) |-> IF n <= j THEN f[n] ELSE ReplayFrame(f[n - 1], frames[n], n)]
             G == [n \in 0 .. (j + 1) |-> IF n = 0 THEN Start ELSE ReplayFrame(g[n - 1], frames[n], n)]
  <2>3. ASSUME NEW n \in 0 .. (j + 1)
        PROVE  g[n] = G[n]
    <3>1. CASE n = 0
      BY <2>1, <2>2, <3>1 DEF IsLoop
    <3>2. CASE n \in 1 .. j
      <4>1. n - 1 \in 0 .. j /\ n - 1 \in 0 .. (j + 1) /\ n \in 0 .. j /\ n <= j /\ n # 0 /\ n - 1 <= j
        BY <2>2, <3>2
      <4>2. f[n] = ReplayFrame(f[n - 1], frames[n], n)
        BY <2>1, <4>1 DEF IsLoop
      <4>3. g[n] = f[n] /\ g[n - 1] = f[n - 1]
        BY <4>1
      <4> QED
        BY <4>1, <4>2, <4>3
    <3>3. CASE n = j + 1
      <4>1. n - 1 = j /\ ~(n <= j) /\ n # 0 /\ j <= j /\ j \in 0 .. (j + 1)
        BY <2>2, <3>3
      <4>2. g[j] = f[j] /\ g[n] = ReplayFrame(f[j], frames[n], n)
        BY <4>1
      <4> QED
        BY <4>1, <4>2
    <3> QED
      BY <2>2, <3>1, <3>2, <3>3
  <2>4. g = G
    BY <2>3
  <2>5. IsLoop(g, frames, j + 1)
    BY <2>4 DEF IsLoop
  <2> QED
    BY <2>2, <2>5
<1>3. T = Nat
  <2> HIDE DEF T
  <2>1. T \in SUBSET Nat
    BY DEF T
  <2> QED
    BY <1>1, <1>2, <2>1, SetInduction
<1> QED
  BY <1>3

LEMMA LoopSteps ==
  ASSUME NEW S, NEW frames \in Seq(S)
  PROVE  \E f : Loops(f, frames) /\ AfterLoop(frames) = f[Len(frames)]
<1> DEFINE f == CHOOSE g : IsLoop(g, frames, Len(frames))
<1>0. Len(frames) \in Nat
  OBVIOUS
<1>1. IsLoop(f, frames, Len(frames))
  BY <1>0, LoopExists
<1>2. AfterLoop(frames) = f[Len(frames)]
  BY Zenon DEF AfterLoop, IsLoop
<1> HIDE DEF f
<1>3. f[0] = Start
  BY <1>0, <1>1 DEF IsLoop
<1>4. ASSUME NEW n \in Nat, n < Len(frames)
      PROVE  f[n + 1] = ReplayFrame(f[n], frames[n + 1], n + 1)
  <2>1. n + 1 \in 0 .. Len(frames) /\ n + 1 # 0 /\ (n + 1) - 1 = n
    BY <1>0, <1>4
  <2>2. \A m \in 0 .. Len(frames) : m # 0 => f[m] = ReplayFrame(f[m - 1], frames[m], m)
    BY <1>1 DEF IsLoop
  <2>3. f[n + 1] = ReplayFrame(f[(n + 1) - 1], frames[n + 1], n + 1)
    BY <2>1, <2>2, Zenon
  <2> QED
    BY <2>1, <2>3
<1> QED
  BY <1>2, <1>3, <1>4 DEF Loops

LEMMA LoopOfNothing == AfterLoop(<< >>) = Start
<1>1. << >> \in Seq({}) /\ Len(<< >>) = 0
  OBVIOUS
<1>2. PICK f : Loops(f, << >>) /\ AfterLoop(<< >>) = f[Len(<< >>)]
  BY <1>1, LoopSteps
<1> QED
  BY <1>1, <1>2 DEF Loops

\* The loop goes on from where it was.
LEMMA LoopAppend ==
  ASSUME NEW S, NEW frames \in Seq(S), NEW x \in S
  PROVE  AfterLoop(Append(frames, x)) = ReplayFrame(AfterLoop(frames), x, Len(frames) + 1)
<1>1. PICK more \in Seq(S) : more = Append(frames, x)
  BY AppendProperties
<1>2. /\ Len(frames) \in Nat /\ Len(more) = Len(frames) + 1 /\ more[Len(frames) + 1] = x
      /\ \A i \in 1 .. Len(frames) : more[i] = frames[i]
  BY <1>1, AppendProperties
<1>3. PICK f : Loops(f, frames) /\ AfterLoop(frames) = f[Len(frames)]
  BY LoopSteps
<1>4. PICK g : Loops(g, more) /\ AfterLoop(more) = g[Len(more)]
  BY LoopSteps
<1> DEFINE T == {n \in Nat : n <= Len(frames) => g[n] = f[n]}
<1>5. 0 \in T
  BY <1>3, <1>4 DEF Loops
<1>6. ASSUME NEW n \in T
      PROVE  n + 1 \in T
  <2>1. CASE n < Len(frames)
    <3>1. n \in Nat /\ n < Len(more) /\ n + 1 \in 1 .. Len(frames) /\ g[n] = f[n]
      BY <1>2, <2>1
    <3>2. f[n + 1] = ReplayFrame(f[n], frames[n + 1], n + 1)
      BY <1>3, <2>1, <3>1 DEF Loops
    <3>3. g[n + 1] = ReplayFrame(g[n], more[n + 1], n + 1)
      BY <1>4, <3>1 DEF Loops
    <3>4. more[n + 1] = frames[n + 1]
      BY <1>2, <3>1
    <3> QED
      BY <3>1, <3>2, <3>3, <3>4
  <2>2. CASE ~(n < Len(frames))
    BY <1>2, <2>2
  <2> QED
    BY <2>1, <2>2
<1>7. T = Nat
  <2>1. T \in SUBSET Nat
    OBVIOUS
  <2> HIDE DEF T
  <2> QED
    BY <1>5, <1>6, <2>1, SetInduction
<1>8. g[Len(frames)] = f[Len(frames)]
  BY <1>2, <1>7
<1>9. g[Len(frames) + 1] = ReplayFrame(g[Len(frames)], more[Len(frames) + 1], Len(frames) + 1)
  BY <1>2, <1>4 DEF Loops
<1> QED
  BY <1>1, <1>2, <1>3, <1>4, <1>8, <1>9

-----------------------------------------------------------------------------
(* What the loop knows of the frames it has accepted.                      *)

Pending == [state : SessionState, next : Nat]
LoopState == [pending : Pending \cup {None}, session : SessionState \cup {None}, ok : BOOLEAN]

Good(f, i) == f.state # None /\ f.seq = i /\ f.part <= LastPart(f.state)
InOrder(frames) ==
  /\ \A i \in 1 .. Len(frames) : Good(frames[i], i)
  /\ frames # << >> => frames[1].part = 0
  /\ \A i \in 2 .. Len(frames) : Follows(frames[i], frames[i - 1])

\* The frame f can come next after frames in order.
Fits(f, frames) ==
  /\ Good(f, Len(frames) + 1)
  /\ IF frames = << >> THEN f.part = 0 ELSE Follows(f, frames[Len(frames)])

\* What is pending, and what was committed, after the frame f.
Holds(acc, f) ==
  IF f.part = LastPart(f.state) THEN acc.pending = None /\ acc.session = f.state
  ELSE acc.pending = [state |-> f.state, next |-> f.part]
Knows(acc, frames) == IF frames = << >> THEN acc = Start ELSE Holds(acc, frames[Len(frames)])

ReplayInv ==
  /\ prefix \in Seq(Frames)
  /\ AfterLoop(prefix) \in LoopState
  /\ IF AfterLoop(prefix).ok THEN InOrder(prefix) /\ Knows(AfterLoop(prefix), prefix) ELSE ~InOrder(prefix)

LEMMA OrderAppend ==
  ASSUME NEW frames \in Seq(Frames), NEW f \in Frames, InOrder(frames)
  PROVE  InOrder(Append(frames, f)) <=> Fits(f, frames)
<1>1. PICK more \in Seq(Frames) : more = Append(frames, f)
  BY AppendProperties
<1>2. /\ Len(frames) \in Nat /\ Len(more) = Len(frames) + 1 /\ more[Len(frames) + 1] = f
      /\ \A i \in 1 .. Len(frames) : more[i] = frames[i]
  BY <1>1, AppendProperties
<1>3. PICK k \in Nat : k = Len(frames)
  BY <1>2
<1>4. (frames = << >> <=> k = 0) /\ more # << >>
  BY <1>2, <1>3, EmptySeq
<1>5. (\A i \in 1 .. k + 1 : Good(more[i], i)) <=> Good(f, k + 1)
  BY <1>2, <1>3 DEF InOrder
<1>6. CASE k = 0
  <2>1. InOrder(more) <=> Good(f, 1) /\ f.part = 0
    BY <1>2, <1>3, <1>4, <1>5, <1>6 DEF InOrder
  <2> QED
    BY <1>1, <1>3, <1>4, <1>6, <2>1 DEF Fits
<1>7. CASE k # 0
  <2>1. more[1].part = 0 /\ more[k] = frames[k] /\ more[k + 1] = f
    BY <1>2, <1>3, <1>4, <1>7 DEF InOrder
  <2>2. ASSUME NEW i \in 2 .. k
        PROVE  Follows(more[i], more[i - 1])
    <3>1. i \in 1 .. k /\ i - 1 \in 1 .. k
      OBVIOUS
    <3>2. more[i] = frames[i] /\ more[i - 1] = frames[i - 1]
      BY <1>2, <1>3, <3>1
    <3> QED
      BY <1>3, <3>2 DEF InOrder
  <2>3. (\A i \in 2 .. k + 1 : Follows(more[i], more[i - 1])) <=> Follows(f, frames[k])
    <3>1. k + 1 \in 2 .. k + 1 /\ (k + 1) - 1 = k
      BY <1>7
    <3>2. ASSUME NEW i \in 2 .. k + 1, i # k + 1
          PROVE  Follows(more[i], more[i - 1])
      BY <2>2, <3>2
    <3>3. Follows(more[k + 1], more[(k + 1) - 1]) <=> Follows(f, frames[k])
      BY <2>1, <3>1
    <3> QED
      BY <3>1, <3>2, <3>3
  <2>4. InOrder(more) <=> Good(f, k + 1) /\ Follows(f, frames[k])
    BY <1>2, <1>3, <1>4, <1>5, <2>1, <2>3 DEF InOrder
  <2> QED
    BY <1>1, <1>3, <1>4, <1>7, <2>4 DEF Fits
<1> QED
  BY <1>6, <1>7

LEMMA LastPartIs ==
  ASSUME NEW s \in SessionState
  PROVE  LastPart(s) \in Nat /\ LastPart(s) > 1 /\ LastPart(s) - 1 = ChunksOf[s.text]
<1>1. ChunksOf[s.text] \in Nat \ {0}
  BY LogAssumption DEF LogAssumption, SessionState
<1> QED
  BY <1>1 DEF LastPart

\* One turn of the loop accepts what can come next, and knows what it has accepted.
LEMMA FrameApplied ==
  ASSUME NEW frames \in Seq(Frames), NEW f \in Frames, NEW acc \in LoopState, acc.ok,
         InOrder(frames), Knows(acc, frames)
  PROVE  LET next == ReplayFrame(acc, f, Len(frames) + 1) IN
         /\ next \in LoopState /\ (next.ok <=> Fits(f, frames)) /\ (next.ok => Holds(next, f))
<1> DEFINE next == ReplayFrame(acc, f, Len(frames) + 1)
<1>0. f.seq \in Nat /\ f.part \in Nat /\ f.state \in SessionState \cup {None} /\ Len(frames) \in Nat
  BY LenProperties DEF Frames
<1>1. CASE ~Good(f, Len(frames) + 1)
  <2>1. next = Refuse(acc)
    <3>1. CASE f.state = None \/ f.seq # Len(frames) + 1
      BY <3>1 DEF ReplayFrame
    <3>2. CASE f.state # None /\ ~(f.part <= LastPart(f.state))
      BY <1>0, <3>2, LastPartIs DEF ReplayFrame
    <3> QED
      BY <1>1, <3>1, <3>2 DEF Good
  <2>2. Refuse(acc) \in LoopState /\ ~Refuse(acc).ok
    BY DEF Refuse, LoopState
  <2>3. ~Fits(f, frames)
    BY <1>1 DEF Fits
  <2> QED
    BY <2>1, <2>2, <2>3
<1>2. CASE Good(f, Len(frames) + 1)
  <2>0. /\ f.state \in SessionState /\ f.state # None /\ f.part <= LastPart(f.state)
        /\ LastPart(f.state) \in Nat /\ LastPart(f.state) > 1 /\ LastPart(f.state) - 1 = ChunksOf[f.state.text]
    BY <1>0, <1>2, LastPartIs DEF Good
  <2>1. next = ApplyEvent(acc, f)
    BY <1>0, <1>2, <2>0 DEF ReplayFrame, Good
  <2>2. Refuse(acc) \in LoopState /\ ~Refuse(acc).ok
    BY DEF Refuse, LoopState
  <2>3. None \notin Pending
    BY ReplayAssumption DEF ReplayAssumption, Pending
  \* What is pending, in terms of the last frame.
  <2>4. \/ frames = << >> /\ acc.pending = None
        \/ /\ frames # << >> /\ frames[Len(frames)].part = LastPart(frames[Len(frames)].state) /\ acc.pending = None
           /\ frames[Len(frames)].state \in SessionState
        \/ /\ frames # << >> /\ frames[Len(frames)].part < LastPart(frames[Len(frames)].state)
           /\ frames[Len(frames)].state \in SessionState
           /\ acc.pending = [state |-> frames[Len(frames)].state, next |-> frames[Len(frames)].part]
           /\ acc.pending \in Pending /\ acc.pending # None
    <3>1. CASE frames = << >>
      BY <3>1 DEF Knows, Start
    <3>2. CASE frames # << >>
      <4>1. Len(frames) \in 1 .. Len(frames)
        BY <1>0, <3>2, EmptySeq
      <4>2. PICK l \in Frames : l = frames[Len(frames)]
        BY <4>1, ElementOfSeq
      <4>3. Good(l, Len(frames))
        BY <4>1, <4>2 DEF InOrder
      <4>4. /\ l.part \in Nat /\ l.state \in SessionState /\ l.part <= LastPart(l.state) /\ LastPart(l.state) \in Nat
        BY <4>3, LastPartIs DEF Frames, Good
      <4>5. Holds(acc, l)
        BY <3>2, <4>2 DEF Knows
      <4>6. CASE l.part = LastPart(l.state)
        BY <3>2, <4>2, <4>4, <4>5, <4>6 DEF Holds
      <4>7. CASE l.part # LastPart(l.state)
        <5>1. acc.pending = [state |-> l.state, next |-> l.part] /\ l.part < LastPart(l.state)
          BY <4>4, <4>5, <4>7 DEF Holds
        <5>2. acc.pending \in Pending
          BY <4>4, <5>1 DEF Pending
        <5> QED
          BY <2>3, <3>2, <4>2, <4>4, <5>1, <5>2
      <4> QED
        BY <4>6, <4>7
    <3> QED
      BY <3>1, <3>2
  <2>5. Fits(f, frames) <=> IF frames = << >> THEN f.part = 0 ELSE Follows(f, frames[Len(frames)])
    BY <1>2 DEF Fits
  <2>6. CASE f.part = 0
    <3>1. next = ApplyStarted(acc, f)
      BY <2>1, <2>6 DEF ApplyEvent
    <3>2. Fits(f, frames) <=> acc.pending = None
      BY <2>4, <2>5, <2>6, LastPartIs DEF Follows
    <3>3. CASE acc.pending # None
      BY <2>2, <3>1, <3>2, <3>3 DEF ApplyStarted
    <3>4. CASE acc.pending = None
      <4>1. next = [acc EXCEPT !.pending = [state |-> f.state, next |-> 0]]
        BY <3>1, <3>4 DEF ApplyStarted
      <4>2. next \in LoopState /\ next.ok /\ next.pending = [state |-> f.state, next |-> f.part]
        BY <2>0, <2>6, <4>1 DEF LoopState, Pending
      <4>3. Holds(next, f)
        BY <2>0, <2>6, <4>2 DEF Holds
      <4> QED
        BY <3>2, <3>4, <4>2, <4>3
    <3> QED
      BY <3>3, <3>4
  <2>7. CASE f.part # 0 /\ acc.pending = None
    <3>1. next = Refuse(acc)
      BY <2>1, <2>7 DEF ApplyEvent, ApplyCommitted, ApplyChunk
    <3>2. ~Fits(f, frames)
      <4>1. CASE frames = << >>
        BY <2>5, <2>7, <4>1
      <4>2. CASE frames # << >>
        <5>1. frames[Len(frames)].part = LastPart(frames[Len(frames)].state)
          BY <2>4, <2>7, <4>2
        <5>2. ASSUME Follows(f, frames[Len(frames)])
              PROVE  FALSE
          <6>1. frames[Len(frames)].state = f.state /\ frames[Len(frames)].part + 1 = f.part
            BY <2>7, <5>2 DEF Follows
          <6>2. frames[Len(frames)].part = LastPart(f.state)
            BY <5>1, <6>1
          <6> QED
            BY <2>0, <6>1, <6>2
        <5> QED
          BY <2>5, <4>2, <5>2
      <4> QED
        BY <4>1, <4>2
    <3> QED
      BY <2>2, <3>1, <3>2
  <2>8. CASE f.part # 0 /\ acc.pending # None
    <3>1. PICK l : l = frames[Len(frames)]
      OBVIOUS
    <3>2. /\ frames # << >> /\ l.part < LastPart(l.state) /\ acc.pending = [state |-> l.state, next |-> l.part]
          /\ l.state \in SessionState /\ acc.pending \in Pending
      BY <2>4, <2>8, <3>1
    <3>3. l.part \in Nat /\ acc.pending.state = l.state /\ acc.pending.next = l.part
      BY <3>2 DEF Pending
    <3>4. Fits(f, frames) <=> l.state = f.state /\ l.part + 1 = f.part
      BY <2>5, <2>8, <3>1, <3>2 DEF Follows
    <3>5. CASE f.part = LastPart(f.state)
      <4>1. next = ApplyCommitted(acc, f)
        BY <2>1, <2>8, <3>5 DEF ApplyEvent
      <4>2. (l.part # ChunksOf[f.state.text]) <=> (l.part + 1 # f.part)
        <5>1. ChunksOf[f.state.text] = f.part - 1
          BY <2>0, <3>5
        <5> QED
          BY <1>0, <3>3, <5>1
      <4>3. CASE ~Fits(f, frames)
        <5>1. next = Refuse(acc)
          BY <2>8, <3>3, <3>4, <4>1, <4>2, <4>3 DEF ApplyCommitted
        <5> QED
          BY <2>2, <4>3, <5>1
      <4>4. CASE Fits(f, frames)
        <5>1. next = [acc EXCEPT !.pending = None, !.session = f.state]
          BY <2>8, <3>3, <3>4, <4>1, <4>2, <4>4 DEF ApplyCommitted
        <5>2. next \in LoopState /\ next.ok /\ next.pending = None /\ next.session = f.state
          BY <2>0, <5>1 DEF LoopState
        <5> QED
          BY <3>5, <4>4, <5>2 DEF Holds
      <4> QED
        BY <4>3, <4>4
    <3>6. CASE f.part # LastPart(f.state)
      <4>1. next = ApplyChunk(acc, f)
        BY <2>1, <2>8, <3>6 DEF ApplyEvent
      <4>2. (l.part # f.part - 1) <=> (l.part + 1 # f.part)
        BY <1>0, <3>3
      <4>3. CASE ~Fits(f, frames)
        <5>1. next = Refuse(acc)
          BY <2>8, <3>3, <3>4, <4>1, <4>2, <4>3 DEF ApplyChunk
        <5> QED
          BY <2>2, <4>3, <5>1
      <4>4. CASE Fits(f, frames)
        <5>1. next = [acc EXCEPT !.pending.next = @ + 1]
          BY <2>8, <3>3, <3>4, <4>1, <4>2, <4>4 DEF ApplyChunk
        <5>2. l.part + 1 \in Nat /\ l.state = f.state /\ l.part + 1 = f.part
          BY <3>3, <3>4, <4>4
        <5>3. next = [acc EXCEPT !.pending = [state |-> l.state, next |-> l.part + 1]]
          BY <3>2, <5>1 DEF LoopState
        <5>4. next \in LoopState /\ next.ok /\ next.pending = [state |-> f.state, next |-> f.part]
          BY <2>0, <5>2, <5>3 DEF LoopState, Pending
        <5> QED
          BY <3>6, <4>4, <5>4 DEF Holds
      <4> QED
        BY <4>3, <4>4
    <3> QED
      BY <3>5, <3>6
  <2> QED
    BY <2>6, <2>7, <2>8
<1> QED
  BY <1>1, <1>2

LEMMA ReplayBegins ==
  ASSUME ReplayInit PROVE ReplayInv
<1>1. prefix = << >> /\ prefix \in Seq(Frames) /\ Len(prefix) = 0
  BY DEF ReplayInit
<1>2. AfterLoop(prefix) = Start
  BY <1>1, LoopOfNothing
<1>3. Start \in LoopState /\ Start.ok
  BY DEF Start, LoopState
<1>4. InOrder(prefix) /\ Knows(Start, prefix)
  BY <1>1 DEF InOrder, Knows
<1> QED
  BY <1>1, <1>2, <1>3, <1>4 DEF ReplayInv

LEMMA ReplaySteps ==
  ASSUME ReplayInv, [ReplayNext]_prefix
  PROVE  ReplayInv'
<1>1. CASE UNCHANGED prefix
  BY <1>1 DEF ReplayInv
<1>2. CASE ReplayNext
  <2>1. PICK f \in Alphabet, skew \in {0, 1} :
          prefix' = Append(prefix, [f EXCEPT !.seq = Len(prefix) + 1 + skew])
    BY <1>2 DEF ReplayNext
  <2>2. f \in Frames /\ Len(prefix) \in Nat /\ prefix \in Seq(Frames)
    BY ReplayAssumption, LenProperties DEF ReplayAssumption, ReplayInv
  <2>3. PICK x \in Frames : x = [f EXCEPT !.seq = Len(prefix) + 1 + skew]
    <3>1. Len(prefix) + 1 + skew \in Nat
      BY <2>2
    <3>2. [f EXCEPT !.seq = Len(prefix) + 1 + skew] \in Frames
      BY <2>2, <3>1 DEF Frames
    <3> QED
      BY <3>2
  <2>4. prefix' = Append(prefix, x) /\ Append(prefix, x) \in Seq(Frames)
    BY <2>1, <2>2, <2>3, AppendProperties
  <2>5. AfterLoop(Append(prefix, x)) = ReplayFrame(AfterLoop(prefix), x, Len(prefix) + 1)
    BY <2>2, LoopAppend
  <2>6. AfterLoop(prefix).ok /\ AfterLoop(prefix) \in LoopState /\ InOrder(prefix) /\ Knows(AfterLoop(prefix), prefix)
    BY <1>2 DEF ReplayNext, ReplayInv
  <2>7. PICK acc \in LoopState : acc = AfterLoop(prefix)
    BY <2>6
  <2>8. PICK next : next = ReplayFrame(acc, x, Len(prefix) + 1)
    OBVIOUS
  <2>9. next \in LoopState /\ (next.ok <=> Fits(x, prefix)) /\ (next.ok => Holds(next, x))
    BY <2>2, <2>6, <2>7, <2>8, FrameApplied
  <2>10. AfterLoop(prefix') = next
    BY <2>4, <2>5, <2>7, <2>8
  <2>11. InOrder(prefix') <=> Fits(x, prefix)
    BY <2>2, <2>4, <2>6, OrderAppend
  <2>12. prefix' # << >> /\ prefix'[Len(prefix')] = x
    BY <2>2, <2>4, AppendProperties
  <2>13. next.ok => Knows(next, prefix')
    BY <2>9, <2>12 DEF Knows
  <2> QED
    BY <2>4, <2>9, <2>10, <2>11, <2>13 DEF ReplayInv
<1> QED
  BY <1>1, <1>2

\* The loop of replay_committed, which looks at one frame after the other and at what is
\* pending, accepts just the prefixes that are well formed, and returns what the last
\* replacement of them committed.
THEOREM LoopIsRead == ReplaySpec => []LoopReadsPrefix
<1>1. ReplayInit => ReplayInv
  BY ReplayBegins
<1>2. ReplayInv /\ [ReplayNext]_prefix => ReplayInv'
  BY ReplaySteps
<1>3. ReplayInv => LoopReadsPrefix
  <2>1. SUFFICES ASSUME ReplayInv
                 PROVE  LoopReadsPrefix
    OBVIOUS
  <2>2. PICK acc \in LoopState : acc = AfterLoop(prefix)
    BY <2>1 DEF ReplayInv
  <2>3. Len(prefix) \in Nat /\ prefix \in Seq(Frames)
    BY <2>1, LenProperties DEF ReplayInv
  <2>4. WellFormed(prefix) <=>
          InOrder(prefix) /\ prefix # << >> /\ prefix[Len(prefix)].part = LastPart(prefix[Len(prefix)].state)
    BY DEF WellFormed, InOrder, Good
  <2>5. CASE ~acc.ok
    <3>1. ~InOrder(prefix)
      BY <2>1, <2>2, <2>5 DEF ReplayInv
    <3> QED
      BY <2>2, <2>4, <2>5, <3>1 DEF LoopReadsPrefix, ReplayLoop
  <2>6. CASE acc.ok /\ prefix = << >>
    <3>1. acc = Start
      BY <2>1, <2>2, <2>6 DEF ReplayInv, Knows
    <3> QED
      BY <2>2, <2>4, <2>6, <3>1 DEF LoopReadsPrefix, ReplayLoop, Start
  <2>7. CASE acc.ok /\ prefix # << >>
    <3>1. Len(prefix) \in 1 .. Len(prefix)
      BY <2>3, <2>7, EmptySeq
    <3>2. PICK l \in Frames : l = prefix[Len(prefix)]
      BY <2>3, <3>1, ElementOfSeq
    <3>3. InOrder(prefix) /\ Holds(acc, l)
      BY <2>1, <2>2, <2>7, <3>2 DEF ReplayInv, Knows
    <3>4. Good(l, Len(prefix))
      BY <3>1, <3>2, <3>3 DEF InOrder
    <3>5. l.state \in SessionState /\ l.state # None /\ l.part \in Nat
      BY <3>4 DEF Good, Frames
    <3>6. CASE l.part = LastPart(l.state)
      <4>1. acc.pending = None /\ acc.session = l.state
        BY <3>3, <3>6 DEF Holds
      <4> QED
        BY <2>2, <2>4, <2>7, <3>2, <3>3, <3>5, <3>6, <4>1 DEF LoopReadsPrefix, ReplayLoop
    <3>7. CASE l.part # LastPart(l.state)
      <4>1. acc.pending \in Pending
        BY <3>3, <3>5, <3>7 DEF Holds, Pending
      <4>2. acc.pending # None
        BY <4>1, ReplayAssumption DEF ReplayAssumption, Pending
      <4> QED
        BY <2>2, <2>4, <2>7, <3>2, <3>7, <4>2 DEF LoopReadsPrefix, ReplayLoop
    <3> QED
      BY <3>6, <3>7
  <2> QED
    BY <2>5, <2>6, <2>7
<1> QED
  BY <1>1, <1>2, <1>3, PTL DEF ReplaySpec

-----------------------------------------------------------------------------
(* PatternFeed: where the tokens of a pattern can end in a text, and what  *)
(* the matcher knows of it.                                                *)

IsEnds(f, p, wild, text, k) ==
  f = [n \in 0 .. k |-> IF n = 0 THEN 0 .. Len(text)
                        ELSE UNION {TokenEnds(p, wild, text, n, d) : d \in f[n - 1]}]

\* Token k of p takes what is in text after place d, up to place e.
Takes(p, wild, text, k, d, e) ==
  \/ wild /\ p[k] = Star /\ d <= e
  \/ ~(wild /\ p[k] = Star) /\ e = d + 1 /\ (p[k] = text[e] \/ (wild /\ p[k] = AnyOne))

\* ends[k] is where the first k tokens of p can end in text.
Ending(ends, p, wild, text) ==
  /\ ends[0] = 0 .. Len(text)
  /\ \A k \in Nat : k <= Len(p) => ends[k] \in SUBSET (0 .. Len(text))
  /\ \A k \in Nat : k < Len(p) =>
       \A e \in 0 .. Len(text) : e \in ends[k + 1] <=> \E d \in ends[k] : Takes(p, wild, text, k + 1, d, e)

LEMMA EndsExist ==
  ASSUME NEW p, NEW wild, NEW text, NEW k \in Nat
  PROVE  \E f : IsEnds(f, p, wild, text, k)
<1> DEFINE T == {j \in Nat : \E f : IsEnds(f, p, wild, text, j)}
<1>1. 0 \in T
  <2> DEFINE f == [n \in 0 .. 0 |-> 0 .. Len(text)]
  <2>1. IsEnds(f, p, wild, text, 0)
    BY DEF IsEnds
  <2> QED
    BY <2>1
<1>2. ASSUME NEW j \in T
      PROVE  j + 1 \in T
  <2>1. PICK f : IsEnds(f, p, wild, text, j)
    OBVIOUS
  <2>2. j \in Nat
    OBVIOUS
  <2> DEFINE g == [n \in 0 .. (j + 1) |-> IF n <= j THEN f[n]
                                          ELSE UNION {TokenEnds(p, wild, text, n, d) : d \in f[n - 1]}]
             G == [n \in 0 .. (j + 1) |-> IF n = 0 THEN 0 .. Len(text)
                                          ELSE UNION {TokenEnds(p, wild, text, n, d) : d \in g[n - 1]}]
  <2>3. ASSUME NEW n \in 0 .. (j + 1)
        PROVE  g[n] = G[n]
    <3>1. CASE n = 0
      BY <2>1, <2>2, <3>1 DEF IsEnds
    <3>2. CASE n \in 1 .. j
      <4>1. n - 1 \in 0 .. j /\ n - 1 \in 0 .. (j + 1) /\ n \in 0 .. j /\ n <= j /\ n # 0 /\ n - 1 <= j
        BY <2>2, <3>2
      <4>2. f[n] = UNION {TokenEnds(p, wild, text, n, d) : d \in f[n - 1]}
        BY <2>1, <4>1 DEF IsEnds
      <4>3. g[n] = f[n] /\ g[n - 1] = f[n - 1]
        BY <4>1
      <4> QED
        BY <4>1, <4>2, <4>3
    <3>3. CASE n = j + 1
      <4>1. n - 1 = j /\ ~(n <= j) /\ n # 0 /\ j <= j /\ j \in 0 .. (j + 1)
        BY <2>2, <3>3
      <4>2. g[j] = f[j] /\ g[n] = UNION {TokenEnds(p, wild, text, n, d) : d \in f[j]}
        BY <4>1
      <4> QED
        BY <4>1, <4>2
    <3> QED
      BY <2>2, <3>1, <3>2, <3>3
  <2>4. g = G
    BY <2>3
  <2>5. IsEnds(g, p, wild, text, j + 1)
    BY <2>4 DEF IsEnds
  <2> QED
    BY <2>2, <2>5
<1>3. T = Nat
  <2> HIDE DEF T
  <2>1. T \in SUBSET Nat
    BY DEF T
  <2> QED
    BY <1>1, <1>2, <2>1, SetInduction
<1> QED
  BY <1>3

LEMMA EndsContain ==
  ASSUME NEW p, NEW wild \in BOOLEAN, NEW text, Len(p) \in Nat, Len(text) \in Nat
  PROVE  \E ends : /\ Ending(ends, p, wild, text)
                   /\ Occurs(p, wild, text) <=> ends[Len(p)] # {}
<1> DEFINE f == CHOOSE g : IsEnds(g, p, wild, text, Len(p))
<1>1. IsEnds(f, p, wild, text, Len(p))
  BY EndsExist
<1>2. Occurs(p, wild, text) <=> f[Len(p)] # {}
  BY Zenon DEF Occurs, IsEnds
<1> HIDE DEF f
<1>3. f[0] = 0 .. Len(text)
  BY <1>1 DEF IsEnds
<1>4. ASSUME NEW k \in Nat, k < Len(p)
      PROVE  f[k + 1] = UNION {TokenEnds(p, wild, text, k + 1, d) : d \in f[k]}
  <2>1. k + 1 \in 0 .. Len(p) /\ k + 1 # 0 /\ (k + 1) - 1 = k
    BY <1>4
  <2>2. \A m \in 0 .. Len(p) : m # 0 => f[m] = UNION {TokenEnds(p, wild, text, m, d) : d \in f[m - 1]}
    BY <1>1 DEF IsEnds
  <2>3. f[k + 1] = UNION {TokenEnds(p, wild, text, k + 1, d) : d \in f[(k + 1) - 1]}
    BY <2>1, <2>2, Zenon
  <2> QED
    BY <2>1, <2>3
<1> DEFINE T == {k \in Nat : k <= Len(p) => f[k] \in SUBSET (0 .. Len(text))}
<1>5. 0 \in T
  BY <1>3
<1>6. ASSUME NEW k \in T
      PROVE  k + 1 \in T
  <2>1. SUFFICES ASSUME k + 1 <= Len(p), NEW e \in f[k + 1]
                 PROVE  e \in 0 .. Len(text)
    OBVIOUS
  <2>2. k \in Nat /\ k < Len(p) /\ k <= Len(p)
    BY <2>1
  <2>3. PICK d \in f[k] : e \in TokenEnds(p, wild, text, k + 1, d)
    BY <1>4, <2>1, <2>2
  <2>4. d \in 0 .. Len(text)
    BY <2>2
  <2> QED
    BY <2>3, <2>4 DEF TokenEnds
<1>7. T = Nat
  <2>1. T \in SUBSET Nat
    OBVIOUS
  <2> HIDE DEF T
  <2> QED
    BY <1>5, <1>6, <2>1, SetInduction
<1>8. ASSUME NEW k \in Nat, k < Len(p), NEW e \in 0 .. Len(text)
      PROVE  e \in f[k + 1] <=> \E d \in f[k] : Takes(p, wild, text, k + 1, d, e)
  <2>1. f[k] \in SUBSET (0 .. Len(text))
    BY <1>7, <1>8
  <2>2. e \in f[k + 1] <=> \E d \in f[k] : e \in TokenEnds(p, wild, text, k + 1, d)
    BY <1>4, <1>8
  <2>3. ASSUME NEW d \in f[k]
        PROVE  e \in TokenEnds(p, wild, text, k + 1, d) <=> Takes(p, wild, text, k + 1, d, e)
    <3>1. d \in 0 .. Len(text)
      BY <2>1
    <3>2. CASE wild /\ p[k + 1] = Star
      <4>1. TokenEnds(p, wild, text, k + 1, d) = d .. Len(text)
        BY <3>2 DEF TokenEnds
      <4>2. Takes(p, wild, text, k + 1, d, e) <=> d <= e
        BY <3>2 DEF Takes
      <4> QED
        BY <3>1, <4>1, <4>2
    <3>3. CASE ~(wild /\ p[k + 1] = Star)
      <4>1. e \in TokenEnds(p, wild, text, k + 1, d) <=>
              e \in 1 .. Len(text) /\ e = d + 1 /\ (p[k + 1] = text[e] \/ (wild /\ p[k + 1] = AnyOne))
        BY <3>3 DEF TokenEnds
      <4>2. Takes(p, wild, text, k + 1, d, e) <=>
              e = d + 1 /\ (p[k + 1] = text[e] \/ (wild /\ p[k + 1] = AnyOne))
        BY <3>3, Zenon DEF Takes
      <4>3. e = d + 1 => e \in 1 .. Len(text)
        BY <3>1
      <4> QED
        BY <4>1, <4>2, <4>3, Zenon
    <3> QED
      BY <3>2, <3>3
  <2> QED
    BY <2>2, <2>3
<1>9. Ending(f, p, wild, text)
  BY <1>3, <1>7, <1>8 DEF Ending
<1> QED
  BY <1>2, <1>9

\* What is fed later does not change where the tokens can end in what was fed before.
LEMMA EndsAgree ==
  ASSUME NEW p, NEW wild \in BOOLEAN, NEW text, NEW whole, Len(p) \in Nat, Len(text) \in Nat,
         Len(whole) \in Nat, Len(text) <= Len(whole),
         \A i \in 1 .. Len(text) : whole[i] = text[i],
         NEW ends, Ending(ends, p, wild, text), NEW later, Ending(later, p, wild, whole)
  PROVE  \A k \in Nat : k <= Len(p) => \A n \in 0 .. Len(text) : n \in ends[k] <=> n \in later[k]
<1> DEFINE T == {k \in Nat : k <= Len(p) => \A n \in 0 .. Len(text) : n \in ends[k] <=> n \in later[k]}
<1>1. 0 \in T
  BY DEF Ending
<1>2. ASSUME NEW k \in T
      PROVE  k + 1 \in T
  <2>1. SUFFICES ASSUME k + 1 <= Len(p), NEW n \in 0 .. Len(text)
                 PROVE  n \in ends[k + 1] <=> n \in later[k + 1]
    OBVIOUS
  <2>2. k \in Nat /\ k < Len(p) /\ k <= Len(p) /\ n \in 0 .. Len(whole)
    BY <2>1
  <2>3. n \in ends[k + 1] <=> \E d \in ends[k] : Takes(p, wild, text, k + 1, d, n)
    BY <2>2 DEF Ending
  <2>4. n \in later[k + 1] <=> \E d \in later[k] : Takes(p, wild, whole, k + 1, d, n)
    BY <2>2 DEF Ending
  <2>5. ends[k] \in SUBSET (0 .. Len(text)) /\ later[k] \in SUBSET (0 .. Len(whole))
    BY <2>2 DEF Ending
  <2>6. \A d \in 0 .. Len(text) : d \in ends[k] <=> d \in later[k]
    BY <2>2
  <2>7. ASSUME NEW d \in later[k], Takes(p, wild, whole, k + 1, d, n)
        PROVE  d \in 0 .. Len(text)
    BY <2>1, <2>5, <2>7 DEF Takes
  <2>8. ASSUME NEW d \in 0 .. Len(text)
        PROVE  Takes(p, wild, text, k + 1, d, n) <=> Takes(p, wild, whole, k + 1, d, n)
    <3>1. n = d + 1 => whole[n] = text[n]
      <4>1. n = d + 1 => n \in 1 .. Len(text)
        BY <2>1
      <4> QED
        BY <4>1
    <3> QED
      BY <3>1, Zenon DEF Takes
  <2> QED
    BY <2>3, <2>4, <2>5, <2>6, <2>7, <2>8
<1>3. T = Nat
  <2>1. T \in SUBSET Nat
    OBVIOUS
  <2> HIDE DEF T
  <2> QED
    BY <1>1, <1>2, <2>1, SetInduction
<1> QED
  BY <1>3

\* The places of p that are reached after n of the text: its first k tokens can end there, or
\* a star after them goes on.
Reach(ends, p, wild, n) ==
  {k \in 0 .. Len(p) : n \in ends[k] \/ (k < Len(p) /\ wild /\ p[k + 1] = Star /\ n \in ends[k + 1])}

\* A star may stand for nothing.
LEMMA StarsPass ==
  ASSUME NEW p, NEW wild \in BOOLEAN, NEW text, Len(p) \in Nat, Len(text) \in Nat,
         NEW ends, Ending(ends, p, wild, text), NEW n \in 0 .. Len(text), wild,
         NEW k \in Nat, k < Len(p), p[k + 1] = Star, n \in ends[k]
  PROVE  n \in ends[k + 1]
<1>1. Takes(p, wild, text, k + 1, n, n)
  BY DEF Takes
<1> QED
  BY <1>1 DEF Ending

LEMMA ReachIsClosed ==
  ASSUME NEW p, NEW wild \in BOOLEAN, NEW text, Len(p) \in Nat, Len(text) \in Nat,
         NEW ends, Ending(ends, p, wild, text), NEW n \in 0 .. Len(text), wild,
         NEW k \in Reach(ends, p, wild, n), NEW j \in 1 .. Len(p), k < j,
         \A i \in k + 1 .. j : p[i] = Star
  PROVE  j \in Reach(ends, p, wild, n)
<1>1. k \in Nat /\ k < Len(p) /\ j \in Nat /\ j <= Len(p)
  BY DEF Reach
<1>2. p[k + 1] = Star
  BY <1>1
<1>3. n \in ends[k + 1]
  BY <1>1, <1>2, StarsPass DEF Reach
<1> DEFINE T == {i \in Nat : (k + 1) + i <= j => n \in ends[(k + 1) + i]}
<1>4. 0 \in T
  <2>1. (k + 1) + 0 = k + 1
    BY <1>1
  <2> QED
    BY <1>3, <2>1
<1>5. ASSUME NEW i \in T
      PROVE  i + 1 \in T
  <2>1. SUFFICES ASSUME (k + 1) + (i + 1) <= j
                 PROVE  n \in ends[(k + 1) + (i + 1)]
    OBVIOUS
  <2>2. PICK m \in Nat : m = (k + 1) + i
    BY <1>1
  <2>3. m + 1 = (k + 1) + (i + 1) /\ m <= j /\ m < Len(p) /\ m + 1 \in k + 1 .. j
    BY <1>1, <2>1, <2>2
  <2>4. n \in ends[m] /\ p[m + 1] = Star
    BY <2>2, <2>3
  <2>5. n \in ends[m + 1]
    BY <2>3, <2>4, StarsPass
  <2> QED
    BY <2>3, <2>5
<1>6. T = Nat
  <2>1. T \in SUBSET Nat
    OBVIOUS
  <2> HIDE DEF T
  <2> QED
    BY <1>4, <1>5, <2>1, SetInduction
<1>7. PICK i \in Nat : i = j - (k + 1)
  BY <1>1
<1>8. (k + 1) + i = j
  BY <1>1, <1>7
<1>9. n \in ends[j]
  <2>1. i \in T
    BY <1>6
  <2>2. (k + 1) + i <= j
    BY <1>1, <1>8
  <2> QED
    BY <1>8, <2>1, <2>2, Zenon
<1> QED
  BY <1>1, <1>9 DEF Reach

\* Where nothing is read yet, only stars have ended.
LEMMA OnlyStarsEndAtOnce ==
  ASSUME NEW p, NEW wild \in BOOLEAN, NEW text, Len(p) \in Nat, Len(text) \in Nat,
         NEW ends, Ending(ends, p, wild, text), NEW k \in Nat, k <= Len(p), 0 \in ends[k]
  PROVE  (\A i \in 1 .. k : wild /\ p[i] = Star) /\ (Len(text) > 0 => 1 \in ends[k])
<1> DEFINE Nothing(m) == (\A i \in 1 .. m : wild /\ p[i] = Star) /\ (Len(text) > 0 => 1 \in ends[m])
           T == {m \in Nat : m <= Len(p) /\ 0 \in ends[m] => Nothing(m)}
<1>1. 0 \in T
  BY DEF Ending
<1>2. ASSUME NEW m \in T
      PROVE  m + 1 \in T
  <2>1. SUFFICES ASSUME m + 1 <= Len(p), 0 \in ends[m + 1]
                 PROVE  Nothing(m + 1)
    OBVIOUS
  <2>2. m \in Nat /\ m < Len(p) /\ 0 \in 0 .. Len(text) /\ ends[m] \in SUBSET (0 .. Len(text))
    BY <2>1 DEF Ending
  <2>3. PICK d \in ends[m] : Takes(p, wild, text, m + 1, d, 0)
    BY <2>1, <2>2 DEF Ending
  <2>4. d \in Nat
    BY <2>2
  <2>5. wild /\ p[m + 1] = Star /\ d = 0
    BY <2>3, <2>4 DEF Takes
  <2>6. Nothing(m)
    BY <2>2, <2>5
  <2>7. \A i \in 1 .. m + 1 : i \in 1 .. m \/ i = m + 1
    BY <2>2
  <2>8. ASSUME Len(text) > 0
        PROVE  1 \in ends[m + 1]
    <3>1. 1 \in 0 .. Len(text) /\ 1 \in ends[m]
      BY <2>6, <2>8
    <3> QED
      BY <2>2, <2>5, <3>1, StarsPass
  <2> QED
    BY <2>5, <2>6, <2>7, <2>8
<1>3. T = Nat
  <2>1. T \in SUBSET Nat
    OBVIOUS
  <2> HIDE DEF T, Nothing
  <2> QED
    BY <1>1, <1>2, <2>1, SetInduction
<1> QED
  BY <1>3

LEMMA ReachStarts ==
  ASSUME NEW p, NEW wild \in BOOLEAN, NEW text, Len(p) \in Nat, Len(text) \in Nat,
         NEW ends, Ending(ends, p, wild, text)
  PROVE  Closure(p, wild, {0}) = Reach(ends, p, wild, 0)
<1>0. 0 \in 0 .. Len(text) /\ 0 \in Reach(ends, p, wild, 0)
  BY DEF Reach, Ending
<1>1. ASSUME NEW k \in Closure(p, wild, {0})
      PROVE  k \in Reach(ends, p, wild, 0)
  <2>1. CASE k = 0
    BY <1>0, <2>1
  <2>2. CASE k # 0
    <3>1. wild /\ k \in 1 .. Len(p) /\ 0 < k /\ \A i \in 0 + 1 .. k : p[i] = Star
      BY <1>1, <2>2 DEF Closure
    <3> QED
      BY <1>0, <3>1, ReachIsClosed
  <2> QED
    BY <2>1, <2>2
<1>2. ASSUME NEW k \in Reach(ends, p, wild, 0)
      PROVE  k \in Closure(p, wild, {0})
  <2>1. k \in Nat /\ k <= Len(p) /\ k \in 0 .. Len(p)
    BY <1>2 DEF Reach
  <2>2. \A i \in 1 .. k : wild /\ p[i] = Star
    <3>1. CASE 0 \in ends[k]
      BY <2>1, <3>1, OnlyStarsEndAtOnce
    <3>2. CASE k < Len(p) /\ 0 \in ends[k + 1]
      <4>1. k + 1 \in Nat /\ k + 1 <= Len(p)
        BY <2>1, <3>2
      <4>2. \A i \in 1 .. k + 1 : wild /\ p[i] = Star
        BY <3>2, <4>1, OnlyStarsEndAtOnce
      <4> QED
        BY <2>1, <4>2
    <3> QED
      BY <1>2, <3>1, <3>2 DEF Reach
  <2>3. CASE k = 0
    BY <2>3 DEF Closure
  <2>4. CASE k # 0
    <3>1. k \in 1 .. Len(p) /\ 0 < k /\ wild
      BY <2>1, <2>2, <2>4
    <3>2. \A i \in 0 + 1 .. k : p[i] = Star
      BY <2>1, <2>2
    <3> QED
      BY <3>1, <3>2 DEF Closure
  <2> QED
    BY <2>3, <2>4
<1> QED
  BY <1>1, <1>2

\* A byte of the text: the places reached after it are those that the matcher advances to.
Stays(p, wild, k) == wild /\ p[k + 1] = Star
Accepts(p, wild, k, byte) == p[k + 1] = byte \/ (wild /\ p[k + 1] = AnyOne)

Moved(p, wild, reached, byte) ==
  {0} \union {k \in {k \in reached : k < Len(p)} : Stays(p, wild, k)}
      \union {k + 1 : k \in {k \in {k \in reached : k < Len(p)} :
                               ~Stays(p, wild, k) /\ Accepts(p, wild, k, byte)}}

LEMMA AdvanceMoves ==
  ASSUME NEW p, NEW wild \in BOOLEAN, NEW reached, NEW byte
  PROVE  Advance(p, wild, reached, byte) = Closure(p, wild, Moved(p, wild, reached, byte))
BY Zenon DEF Advance, Moved, Stays, Accepts

LEMMA ClosureKeeps ==
  ASSUME NEW p, NEW wild \in BOOLEAN, NEW X, NEW k \in X
  PROVE  k \in Closure(p, wild, X)
BY DEF Closure

\* Closed under stars, a star at a time.
LEMMA ClosureGoesOn ==
  ASSUME NEW p, NEW wild \in BOOLEAN, Len(p) \in Nat, NEW X \in SUBSET Nat,
         NEW k \in Nat, k < Len(p), k \in Closure(p, wild, X), Stays(p, wild, k)
  PROVE  k + 1 \in Closure(p, wild, X)
<1>1. wild /\ p[k + 1] = Star /\ k + 1 \in 1 .. Len(p)
  BY DEF Stays
<1>2. CASE k \in X
  <2>1. k < k + 1 /\ \A i \in k + 1 .. k + 1 : p[i] = Star
    BY <1>1
  <2> QED
    BY <1>1, <1>2, <2>1 DEF Closure
<1>3. CASE k \notin X
  <2>1. PICK j \in X : j < k /\ \A i \in j + 1 .. k : p[i] = Star
    BY <1>1, <1>3 DEF Closure
  <2>2. j \in Nat /\ j < k + 1
    BY <2>1
  <2>3. ASSUME NEW i \in j + 1 .. k + 1
        PROVE  p[i] = Star
    <3>1. i \in j + 1 .. k \/ i = k + 1
      BY <2>2, <2>3
    <3> QED
      BY <1>1, <2>1, <3>1
  <2> QED
    BY <1>1, <2>1, <2>2, <2>3 DEF Closure
<1> QED
  BY <1>2, <1>3

LEMMA ReachAdvances ==
  ASSUME NEW p, NEW wild \in BOOLEAN, NEW text, Len(p) \in Nat, Len(text) \in Nat,
         NEW ends, Ending(ends, p, wild, text), NEW n \in Nat, n < Len(text)
  PROVE  Advance(p, wild, Reach(ends, p, wild, n), text[n + 1]) = Reach(ends, p, wild, n + 1)
<1> DEFINE old == Reach(ends, p, wild, n)
           new == Reach(ends, p, wild, n + 1)
           X == Moved(p, wild, old, text[n + 1])
           C == Closure(p, wild, X)
<1>0. /\ n \in 0 .. Len(text) /\ n + 1 \in 0 .. Len(text) /\ n + 1 \in Nat
      /\ old \in SUBSET Nat /\ new \in SUBSET Nat /\ X \in SUBSET Nat
  BY DEF Reach, Moved
<1>1. ASSUME NEW k \in old, k < Len(p), Stays(p, wild, k)
      PROVE  k \in new
  <2>1. k \in Nat /\ k + 1 <= Len(p) /\ wild /\ p[k + 1] = Star /\ k \in 0 .. Len(p)
    BY <1>1 DEF Reach, Stays
  <2>2. n \in ends[k + 1]
    BY <1>0, <1>1, <2>1, StarsPass DEF Reach
  <2>3. PICK d \in ends[k] : Takes(p, wild, text, k + 1, d, n)
    BY <1>0, <1>1, <2>1, <2>2 DEF Ending
  <2>4. d \in Nat
    BY <1>1, <2>1 DEF Ending
  <2>5. Takes(p, wild, text, k + 1, d, n + 1)
    BY <2>1, <2>3, <2>4 DEF Takes
  <2>6. n + 1 \in ends[k + 1]
    BY <1>0, <1>1, <2>1, <2>5 DEF Ending
  <2> QED
    BY <1>1, <2>1, <2>6 DEF Reach
<1>2. ASSUME NEW k \in old, k < Len(p), ~Stays(p, wild, k), Accepts(p, wild, k, text[n + 1])
      PROVE  k + 1 \in new
  <2>1. k \in Nat /\ k + 1 \in 0 .. Len(p)
    BY <1>2 DEF Reach
  <2>2. n \in ends[k]
    BY <1>2 DEF Reach, Stays
  <2>3. Takes(p, wild, text, k + 1, n, n + 1)
    BY <1>2, Zenon DEF Takes, Stays, Accepts
  <2>4. n + 1 \in ends[k + 1]
    BY <1>0, <1>2, <2>1, <2>2, <2>3 DEF Ending
  <2> QED
    BY <2>1, <2>4 DEF Reach
<1>3. 0 \in new
  <2>1. n + 1 \in ends[0] /\ 0 \in 0 .. Len(p)
    BY <1>0 DEF Ending
  <2> QED
    BY <2>1 DEF Reach
<1>4. X \in SUBSET new
  BY <1>1, <1>2, <1>3 DEF Moved
<1>5. ASSUME NEW j \in C
      PROVE  j \in new
  <2>1. CASE j \in X
    BY <1>4, <2>1
  <2>2. CASE j \notin X
    <3>1. wild /\ j \in 1 .. Len(p)
      BY <1>5, <2>2 DEF Closure
    <3>2. PICK k \in X : k < j /\ \A i \in k + 1 .. j : p[i] = Star
      BY <1>5, <2>2, <3>1 DEF Closure
    <3>3. k \in new
      BY <1>4, <3>2
    <3> HIDE DEF X, C
    <3> QED
      BY <1>0, <3>1, <3>2, <3>3, ReachIsClosed
  <2> QED
    BY <2>1, <2>2
<1> HIDE DEF X
<1>6. ASSUME NEW k \in Nat, k < Len(p), Stays(p, wild, k), n + 1 \in ends[k + 1],
             n + 1 \in ends[k] => k \in C
      PROVE  k \in C
  <2>1. wild /\ p[k + 1] = Star /\ k \in 0 .. Len(p)
    BY <1>6 DEF Stays
  <2>2. PICK d \in ends[k] : Takes(p, wild, text, k + 1, d, n + 1)
    BY <1>0, <1>6 DEF Ending
  <2>3. d \in Nat /\ d <= n + 1 /\ d \in 0 .. Len(text)
    BY <1>0, <1>6, <2>1, <2>2 DEF Ending, Takes
  <2>4. CASE d = n + 1
    BY <1>6, <2>2, <2>4
  <2>5. CASE d # n + 1
    <3>1. d <= n
      BY <2>3, <2>5
    <3>2. Takes(p, wild, text, k + 1, d, n)
      BY <2>1, <3>1 DEF Takes
    <3>3. n \in ends[k + 1]
      BY <1>0, <1>6, <2>2, <3>2 DEF Ending
    <3>4. k \in old
      BY <1>6, <2>1, <3>3 DEF Reach
    <3>5. k \in X
      BY <1>6, <3>4 DEF X, Moved
    <3> QED
      BY <3>5, ClosureKeeps
  <2> QED
    BY <2>4, <2>5
<1> DEFINE T == {k \in Nat : k <= Len(p) /\ n + 1 \in ends[k] => k \in C}
<1>7. 0 \in T
  <2>1. 0 \in X
    BY DEF X, Moved
  <2> QED
    BY <2>1, ClosureKeeps
<1>8. ASSUME NEW k \in T
      PROVE  k + 1 \in T
  <2>1. SUFFICES ASSUME k + 1 <= Len(p), n + 1 \in ends[k + 1]
                 PROVE  k + 1 \in C
    OBVIOUS
  <2>2. k \in Nat /\ k < Len(p) /\ k <= Len(p)
    BY <2>1
  <2>3. n + 1 \in ends[k] => k \in C
    BY <2>2
  <2>4. CASE Stays(p, wild, k)
    <3>1. k \in C
      BY <1>6, <2>1, <2>2, <2>3, <2>4
    <3> QED
      BY <1>0, <2>2, <2>4, <3>1, ClosureGoesOn
  <2>5. CASE ~Stays(p, wild, k)
    <3>1. PICK d \in ends[k] : Takes(p, wild, text, k + 1, d, n + 1)
      BY <1>0, <2>1, <2>2 DEF Ending
    <3>2. d \in Nat
      BY <2>2, <3>1 DEF Ending
    <3>3. n + 1 = d + 1 /\ Accepts(p, wild, k, text[n + 1])
      BY <2>5, <3>1, Zenon DEF Takes, Stays, Accepts
    <3>4. d = n
      BY <3>2, <3>3
    <3>5. k \in old
      BY <2>2, <3>1, <3>4 DEF Reach
    <3>6. k + 1 \in X
      BY <2>2, <2>5, <3>3, <3>5 DEF X, Moved
    <3> QED
      BY <3>6, ClosureKeeps
  <2> QED
    BY <2>4, <2>5
<1>9. T = Nat
  <2>1. T \in SUBSET Nat
    OBVIOUS
  <2> HIDE DEF T
  <2> QED
    BY <1>7, <1>8, <2>1, SetInduction
<1>10. ASSUME NEW k \in new
       PROVE  k \in C
  <2>1. k \in Nat /\ k <= Len(p)
    BY <1>10 DEF Reach
  <2>2. n + 1 \in ends[k] => k \in C
    BY <1>9, <2>1
  <2>3. CASE n + 1 \in ends[k]
    BY <2>2, <2>3
  <2>4. CASE k < Len(p) /\ wild /\ p[k + 1] = Star /\ n + 1 \in ends[k + 1]
    <3>1. Stays(p, wild, k)
      BY <2>4 DEF Stays
    <3> QED
      BY <1>6, <2>1, <2>2, <2>4, <3>1
  <2> QED
    BY <1>10, <2>3, <2>4 DEF Reach
<1>11. C = new
  BY <1>5, <1>10
<1>12. Advance(p, wild, old, text[n + 1]) = C
  BY AdvanceMoves DEF X
<1> QED
  BY <1>11, <1>12

-----------------------------------------------------------------------------
(* MCPatternFeed: a chunk, and chunk after chunk.                          *)

IsFeed(f, p, wild, start, chunk, k) ==
  f = [n \in 0 .. k |-> IF n = 0 THEN start ELSE FeedByte(p, wild, f[n - 1], chunk[n])]

\* f is where the matcher is after each byte of a chunk.
Feeds(f, p, wild, start, chunk) ==
  /\ f[0] = start
  /\ \A n \in Nat : n < Len(chunk) => f[n + 1] = FeedByte(p, wild, f[n], chunk[n + 1])

LEMMA FeedExists ==
  ASSUME NEW p, NEW wild, NEW start, NEW chunk, NEW k \in Nat
  PROVE  \E f : IsFeed(f, p, wild, start, chunk, k)
<1> DEFINE T == {j \in Nat : \E f : IsFeed(f, p, wild, start, chunk, j)}
<1>1. 0 \in T
  <2> DEFINE f == [n \in 0 .. 0 |-> start]
  <2>1. IsFeed(f, p, wild, start, chunk, 0)
    BY DEF IsFeed
  <2> QED
    BY <2>1
<1>2. ASSUME NEW j \in T
      PROVE  j + 1 \in T
  <2>1. PICK f : IsFeed(f, p, wild, start, chunk, j)
    OBVIOUS
  <2>2. j \in Nat
    OBVIOUS
  <2> DEFINE g == [n \in 0 .. (j + 1) |-> IF n <= j THEN f[n] ELSE FeedByte(p, wild, f[n - 1], chunk[n])]
             G == [n \in 0 .. (j + 1) |-> IF n = 0 THEN start ELSE FeedByte(p, wild, g[n - 1], chunk[n])]
  <2>3. ASSUME NEW n \in 0 .. (j + 1)
        PROVE  g[n] = G[n]
    <3>1. CASE n = 0
      BY <2>1, <2>2, <3>1 DEF IsFeed
    <3>2. CASE n \in 1 .. j
      <4>1. n - 1 \in 0 .. j /\ n - 1 \in 0 .. (j + 1) /\ n \in 0 .. j /\ n <= j /\ n # 0 /\ n - 1 <= j
        BY <2>2, <3>2
      <4>2. f[n] = FeedByte(p, wild, f[n - 1], chunk[n])
        BY <2>1, <4>1 DEF IsFeed
      <4>3. g[n] = f[n] /\ g[n - 1] = f[n - 1]
        BY <4>1
      <4> QED
        BY <4>1, <4>2, <4>3
    <3>3. CASE n = j + 1
      <4>1. n - 1 = j /\ ~(n <= j) /\ n # 0 /\ j <= j /\ j \in 0 .. (j + 1)
        BY <2>2, <3>3
      <4>2. g[j] = f[j] /\ g[n] = FeedByte(p, wild, f[j], chunk[n])
        BY <4>1
      <4> QED
        BY <4>1, <4>2
    <3> QED
      BY <2>2, <3>1, <3>2, <3>3
  <2>4. g = G
    BY <2>3
  <2>5. IsFeed(g, p, wild, start, chunk, j + 1)
    BY <2>4 DEF IsFeed
  <2> QED
    BY <2>2, <2>5
<1>3. T = Nat
  <2> HIDE DEF T
  <2>1. T \in SUBSET Nat
    BY DEF T
  <2> QED
    BY <1>1, <1>2, <2>1, SetInduction
<1> QED
  BY <1>3

LEMMA FeedSteps ==
  ASSUME NEW p, NEW wild, NEW reached, NEW chunk, Len(chunk) \in Nat
  PROVE  LET start == [reached |-> Closure(p, wild, reached \union {0}), hit |-> FALSE]
         IN  \E f : /\ Feeds(f, p, wild, start, chunk)
                    /\ PatternFed(p, wild, reached, chunk) =
                         [reached |-> f[Len(chunk)].reached, hit |-> Len(p) \in f[Len(chunk)].reached]
<1> DEFINE start == [reached |-> Closure(p, wild, reached \union {0}), hit |-> FALSE]
           f == CHOOSE g : IsFeed(g, p, wild, start, chunk, Len(chunk))
<1>1. IsFeed(f, p, wild, start, chunk, Len(chunk))
  BY FeedExists
<1>2. PatternFed(p, wild, reached, chunk) =
        [reached |-> f[Len(chunk)].reached, hit |-> Len(p) \in f[Len(chunk)].reached]
  BY Zenon DEF PatternFed, IsFeed
<1> HIDE DEF f
<1>3. f[0] = start
  BY <1>1 DEF IsFeed
<1>4. ASSUME NEW n \in Nat, n < Len(chunk)
      PROVE  f[n + 1] = FeedByte(p, wild, f[n], chunk[n + 1])
  <2>1. n + 1 \in 0 .. Len(chunk) /\ n + 1 # 0 /\ (n + 1) - 1 = n
    BY <1>4
  <2>2. \A m \in 0 .. Len(chunk) : m # 0 => f[m] = FeedByte(p, wild, f[m - 1], chunk[m])
    BY <1>1 DEF IsFeed
  <2>3. f[n + 1] = FeedByte(p, wild, f[(n + 1) - 1], chunk[n + 1])
    BY <2>1, <2>2, Zenon
  <2> QED
    BY <2>1, <2>3
<1>5. Feeds(f, p, wild, start, chunk)
  BY <1>3, <1>4 DEF Feeds
<1> QED
  BY <1>2, <1>5

\* Where the pattern has ended in the text, after place n and up to place m.
EndsIn(ends, p, n, m) == \E i \in Nat : n < i /\ i <= m /\ i \in ends[Len(p)]

\* What the matcher knows after m of the text, of which n were fed before.
KnowsOf(so, ends, p, wild, n, m) ==
  \/ ~so.hit /\ so.reached = Reach(ends, p, wild, m) /\ ~EndsIn(ends, p, n, m)
  \/ so.hit /\ Len(p) \in so.reached /\ EndsIn(ends, p, n, m)

\* A chunk goes on from where the matcher was.
ChunkFollows(p, wild, text, ends, n, chunk, reached) ==
  /\ wild \in BOOLEAN /\ Len(p) \in Nat /\ Len(text) \in Nat /\ Ending(ends, p, wild, text)
  /\ n \in Nat /\ Len(chunk) \in Nat \ {0} /\ n + Len(chunk) = Len(text)
  /\ \A i \in 1 .. Len(chunk) : text[n + i] = chunk[i]
  /\ Closure(p, wild, reached \union {0}) = Reach(ends, p, wild, n)

\* After a chunk the matcher knows of the text with the chunk.
LEMMA ChunkIsRead ==
  ASSUME NEW p, NEW wild, NEW text, NEW ends, NEW n, NEW chunk, NEW reached,
         ChunkFollows(p, wild, text, ends, n, chunk, reached)
  PROVE  KnowsOf(PatternFed(p, wild, reached, chunk), ends, p, wild, n, Len(text))
<1>0. /\ wild \in BOOLEAN /\ Len(p) \in Nat /\ Len(text) \in Nat /\ Ending(ends, p, wild, text)
      /\ n \in Nat /\ Len(chunk) \in Nat \ {0} /\ n + Len(chunk) = Len(text)
      /\ \A i \in 1 .. Len(chunk) : text[n + i] = chunk[i]
      /\ Closure(p, wild, reached \union {0}) = Reach(ends, p, wild, n)
  BY Zenon DEF ChunkFollows
<1> USE <1>0
<1> DEFINE start == [reached |-> Closure(p, wild, reached \union {0}), hit |-> FALSE]
<1>1. PICK f : /\ Feeds(f, p, wild, start, chunk)
               /\ PatternFed(p, wild, reached, chunk) =
                    [reached |-> f[Len(chunk)].reached, hit |-> Len(p) \in f[Len(chunk)].reached]
  BY FeedSteps
<1>2. ~f[0].hit /\ f[0].reached = Reach(ends, p, wild, n)
  BY <1>1 DEF Feeds
<1> HIDE DEF start
<1> DEFINE T == {i \in Nat : i <= Len(chunk) => KnowsOf(f[i], ends, p, wild, n, n + i)}
<1>3. 0 \in T
  <2>1. n + 0 = n
    OBVIOUS
  <2>2. ~EndsIn(ends, p, n, n)
    BY DEF EndsIn
  <2> QED
    BY <1>2, <2>1, <2>2 DEF KnowsOf
<1>4. ASSUME NEW i \in T
      PROVE  i + 1 \in T
  <2>1. SUFFICES ASSUME i + 1 <= Len(chunk)
                 PROVE  KnowsOf(f[i + 1], ends, p, wild, n, n + (i + 1))
    OBVIOUS
  <2>2. i \in Nat /\ i < Len(chunk) /\ i <= Len(chunk) /\ i + 1 \in 1 .. Len(chunk)
    BY <2>1
  <2>3. KnowsOf(f[i], ends, p, wild, n, n + i)
    BY <2>2
  <2>4. f[i + 1] = FeedByte(p, wild, f[i], chunk[i + 1])
    BY <1>1, <2>2 DEF Feeds
  <2>5. PICK m \in Nat : m = n + i
    BY <2>2
  <2>6. n + (i + 1) = m + 1 /\ m < Len(text) /\ chunk[i + 1] = text[m + 1]
    <3>1. n + (i + 1) = m + 1 /\ m < Len(text)
      BY <2>2, <2>5
    <3>2. text[n + (i + 1)] = chunk[i + 1]
      BY <2>2
    <3> QED
      BY <3>1, <3>2
  <2>7. CASE f[i].hit
    <3>1. Len(p) \in f[i].reached /\ EndsIn(ends, p, n, m)
      BY <2>3, <2>5, <2>7 DEF KnowsOf
    <3>2. EndsIn(ends, p, n, m + 1)
      BY <3>1 DEF EndsIn
    <3>3. f[i + 1] = f[i]
      BY <2>4, <2>7 DEF FeedByte
    <3> QED
      BY <2>6, <2>7, <3>1, <3>2, <3>3 DEF KnowsOf
  <2>8. CASE ~f[i].hit
    <3>1. f[i].reached = Reach(ends, p, wild, m) /\ ~EndsIn(ends, p, n, m)
      BY <2>3, <2>5, <2>8 DEF KnowsOf
    <3>2. Advance(p, wild, f[i].reached, chunk[i + 1]) = Reach(ends, p, wild, m + 1)
      BY <2>6, <3>1, ReachAdvances
    <3>3. f[i + 1] = [reached |-> Reach(ends, p, wild, m + 1), hit |-> Len(p) \in Reach(ends, p, wild, m + 1)]
      BY <2>4, <2>8, <3>2 DEF FeedByte
    <3>4. Len(p) \in Reach(ends, p, wild, m + 1) <=> m + 1 \in ends[Len(p)]
      BY DEF Reach
    <3>5. EndsIn(ends, p, n, m + 1) <=> m + 1 \in ends[Len(p)]
      <4>1. n < m + 1 /\ m + 1 \in Nat
        BY <2>2, <2>5
      <4> QED
        BY <3>1, <4>1 DEF EndsIn
    <3>6. f[i + 1].reached = Reach(ends, p, wild, m + 1)
      BY <3>3
    <3>7. f[i + 1].hit = (Len(p) \in Reach(ends, p, wild, m + 1))
      <4> DEFINE r == [reached |-> Reach(ends, p, wild, m + 1), hit |-> Len(p) \in Reach(ends, p, wild, m + 1)]
      <4>1. r.hit = (Len(p) \in Reach(ends, p, wild, m + 1))
        BY Zenon
      <4> HIDE DEF r
      <4>2. f[i + 1] = r
        BY <3>3 DEF r
      <4> QED
        BY <4>1, <4>2, Zenon
    <3>8. CASE m + 1 \in ends[Len(p)]
      <4>1. f[i + 1].hit
        BY <3>4, <3>7, <3>8, Zenon
      <4> QED
        BY <2>6, <3>4, <3>5, <3>6, <3>8, <4>1, Zenon DEF KnowsOf
    <3>9. CASE m + 1 \notin ends[Len(p)]
      <4>1. ~f[i + 1].hit
        BY <3>4, <3>7, <3>9, Zenon
      <4> QED
        BY <2>6, <3>5, <3>6, <3>9, <4>1, Zenon DEF KnowsOf
    <3> QED
      BY <3>8, <3>9
  <2> QED
    BY <2>3, <2>7, <2>8 DEF KnowsOf
<1>5. T = Nat
  <2>1. T \in SUBSET Nat
    OBVIOUS
  <2> HIDE DEF T
  <2> QED
    BY <1>3, <1>4, <2>1, SetInduction
<1>6. PICK end : end = f[Len(chunk)]
  OBVIOUS
<1>7. KnowsOf(end, ends, p, wild, n, Len(text))
  <2>1. Len(chunk) \in T
    BY <1>5
  <2> QED
    BY <1>6, <2>1
<1> DEFINE so == [reached |-> end.reached, hit |-> Len(p) \in end.reached]
<1>8. PatternFed(p, wild, reached, chunk) = so
  BY <1>1, <1>6, Zenon
<1>9. so.reached = end.reached /\ so.hit = (Len(p) \in end.reached)
  BY Zenon
<1> HIDE DEF so
<1>10. CASE end.hit
  <2>1. Len(p) \in end.reached /\ EndsIn(ends, p, n, Len(text))
    BY <1>7, <1>10 DEF KnowsOf
  <2>2. so.hit
    BY <1>9, <2>1, Zenon
  <2>3. KnowsOf(so, ends, p, wild, n, Len(text))
    BY <1>9, <2>1, <2>2 DEF KnowsOf
  <2> QED
    BY <1>8, <2>3
<1>11. CASE ~end.hit
  <2>1. end.reached = Reach(ends, p, wild, Len(text)) /\ ~EndsIn(ends, p, n, Len(text))
    BY <1>7, <1>11 DEF KnowsOf
  <2>2. n < Len(text)
    OBVIOUS
  <2>3. Len(text) \notin ends[Len(p)]
    BY <2>1, <2>2 DEF EndsIn
  <2>4. Len(p) \notin Reach(ends, p, wild, Len(text))
    BY <2>3 DEF Reach
  <2>5. ~so.hit
    BY <1>9, <2>1, <2>4, Zenon
  <2>6. KnowsOf(so, ends, p, wild, n, Len(text))
    BY <1>9, <2>1, <2>5 DEF KnowsOf
  <2> QED
    BY <1>8, <2>6
<1> QED
  BY <1>7, <1>10, <1>11 DEF KnowsOf

\* The matcher has read what was fed.
SearchInv ==
  /\ pattern \in Seq(Letters \union {Star, AnyOne}) /\ wildcard \in BOOLEAN /\ fed \in Seq(Letters)
  /\ fed = << >> => matcher = [reached |-> {}, hit |-> FALSE]
  /\ \E ends : /\ Ending(ends, pattern, wildcard, fed)
               /\ Occurs(pattern, wildcard, fed) <=> ends[Len(pattern)] # {}
               /\ fed # << >> => KnowsOf(matcher, ends, pattern, wildcard, -1, Len(fed))

LEMMA StringsAre ==
  ASSUME NEW letters, NEW n \in Nat, NEW s \in Strings(letters, n)
  PROVE  s \in Seq(letters) /\ Len(s) \in Nat
<1>1. PICK k \in 0 .. n : s \in [1 .. k -> letters]
  BY DEF Strings
<1>2. k \in Nat
  OBVIOUS
<1>3. s \in Seq(letters)
  BY <1>1, <1>2, SeqDef
<1> QED
  BY <1>3, LenProperties

LEMMA SearchBegins == SearchInit => SearchInv
<1>1. SUFFICES ASSUME SearchInit
               PROVE  SearchInv
  OBVIOUS
<1>2. pattern \in Seq(Letters \union {Star, AnyOne}) /\ Len(pattern) \in Nat
  BY <1>1, StringsAre, SearchAssumption DEF SearchInit, SearchAssumption
<1>3. fed = << >> /\ fed \in Seq(Letters) /\ Len(fed) \in Nat
  BY <1>1 DEF SearchInit
<1>4. \E ends : /\ Ending(ends, pattern, wildcard, fed)
                /\ Occurs(pattern, wildcard, fed) <=> ends[Len(pattern)] # {}
  BY <1>1, <1>2, <1>3, EndsContain DEF SearchInit
<1> QED
  BY <1>1, <1>2, <1>3, <1>4 DEF SearchInit, SearchInv

LEMMA FeedKeepsSearch ==
  ASSUME SearchInv, NEW chunk \in Strings(Letters, MaxPiece) \ {<< >>}, Feed(chunk)
  PROVE  SearchInv'
<1>1. /\ Len(pattern) \in Nat /\ Len(fed) \in Nat /\ wildcard \in BOOLEAN /\ fed \in Seq(Letters)
      /\ pattern' = pattern /\ wildcard' = wildcard /\ fed' = fed \o chunk /\ ~matcher.hit
      /\ matcher' = PatternFed(pattern, wildcard, matcher.reached, chunk)
  BY LenProperties DEF SearchInv, Feed
<1>2. chunk \in Seq(Letters) /\ Len(chunk) \in Nat
  BY StringsAre, SearchAssumption DEF SearchAssumption
<1>3. Len(chunk) \in Nat \ {0}
  BY <1>2, EmptySeq
<1>4. PICK whole \in Seq(Letters) : whole = fed'
  BY <1>1, <1>2, ConcatProperties
<1>5. /\ Len(whole) = Len(fed) + Len(chunk) /\ Len(whole) \in Nat
      /\ \A i \in 1 .. Len(fed) : whole[i] = fed[i]
  BY <1>1, <1>2, <1>4, ConcatProperties
<1>6. ASSUME NEW i \in 1 .. Len(chunk)
      PROVE  whole[Len(fed) + i] = chunk[i]
  BY <1>1, <1>2, <1>4, ConcatProperties
<1>7. PICK ends : /\ Ending(ends, pattern, wildcard, fed)
                  /\ fed # << >> => KnowsOf(matcher, ends, pattern, wildcard, -1, Len(fed))
  BY DEF SearchInv
<1>8. PICK later : /\ Ending(later, pattern, wildcard, whole)
                   /\ Occurs(pattern, wildcard, whole) <=> later[Len(pattern)] # {}
  BY <1>1, <1>5, EndsContain
<1>9. \A k \in Nat : k <= Len(pattern) => \A n \in 0 .. Len(fed) : n \in ends[k] <=> n \in later[k]
  <2>1. Len(fed) <= Len(whole)
    BY <1>1, <1>2, <1>5
  <2>2. Ending(ends, pattern, wildcard, fed) /\ Ending(later, pattern, wildcard, whole)
    BY <1>7, <1>8
  <2>3. Len(pattern) \in Nat /\ Len(fed) \in Nat /\ Len(whole) \in Nat /\ wildcard \in BOOLEAN
    BY <1>1, <1>5
  <2>4. \A i \in 1 .. Len(fed) : whole[i] = fed[i]
    BY <1>5
  <2> QED
    BY <2>1, <2>2, <2>3, <2>4, EndsAgree
<1>10. Reach(ends, pattern, wildcard, Len(fed)) = Reach(later, pattern, wildcard, Len(fed))
  <2>1. ASSUME NEW k \in 0 .. Len(pattern)
        PROVE  /\ Len(fed) \in ends[k] <=> Len(fed) \in later[k]
               /\ k < Len(pattern) => (Len(fed) \in ends[k + 1] <=> Len(fed) \in later[k + 1])
    BY <1>1, <1>9
  <2> QED
    BY <2>1 DEF Reach
<1>11. Closure(pattern, wildcard, matcher.reached \union {0}) = Reach(later, pattern, wildcard, Len(fed))
  <2>1. CASE fed = << >>
    <3>1. matcher.reached \union {0} = {0} /\ Len(fed) = 0
      BY <2>1 DEF SearchInv
    <3> QED
      BY <1>1, <1>5, <1>8, <3>1, ReachStarts
  <2>2. CASE fed # << >>
    <3> DEFINE old == Reach(later, pattern, wildcard, Len(fed))
    <3>1. matcher.reached = old
      BY <1>1, <1>7, <1>10, <2>2 DEF KnowsOf
    <3>2. Len(fed) \in 0 .. Len(whole)
      BY <1>1, <1>3, <1>5
    <3>3. 0 \in old
      <4>1. Len(fed) \in later[0] /\ 0 \in 0 .. Len(pattern)
        BY <1>1, <1>8, <3>2 DEF Ending
      <4> QED
        BY <4>1 DEF Reach
    <3>4. ASSUME wildcard, NEW j \in 1 .. Len(pattern), NEW k \in old, k < j,
                 \A i \in k + 1 .. j : pattern[i] = Star
          PROVE  j \in old
      BY <1>1, <1>5, <1>8, <3>2, <3>4, ReachIsClosed
    <3> HIDE DEF old
    <3>5. old \union {0} = old
      BY <3>3
    <3>6. Closure(pattern, wildcard, old) = old
      BY <3>4 DEF Closure
    <3> QED
      BY <3>1, <3>5, <3>6 DEF old
  <2> QED
    BY <2>1, <2>2
<1>12. PICK so : /\ matcher' = so
                 /\ KnowsOf(so, later, pattern, wildcard, Len(fed), Len(whole))
  <2>1. /\ wildcard \in BOOLEAN /\ Len(pattern) \in Nat /\ Len(whole) \in Nat /\ Len(fed) \in Nat
        /\ Len(fed) + Len(chunk) = Len(whole)
    BY <1>1, <1>5, Zenon
  <2>2. Ending(later, pattern, wildcard, whole)
    BY <1>8, Zenon
  <2>3. \A i \in 1 .. Len(chunk) : whole[Len(fed) + i] = chunk[i]
    BY <1>6, Zenon
  <2>4. KnowsOf(PatternFed(pattern, wildcard, matcher.reached, chunk), later, pattern, wildcard,
                Len(fed), Len(whole))
    <3>1. ChunkFollows(pattern, wildcard, whole, later, Len(fed), chunk, matcher.reached)
      BY <1>3, <1>11, <2>1, <2>2, <2>3, Zenon DEF ChunkFollows
    <3> QED
      BY <3>1, ChunkIsRead, Zenon
  <2> QED
    BY <1>1, <2>4, Zenon
<1>13. EndsIn(later, pattern, -1, Len(whole)) <=> EndsIn(later, pattern, Len(fed), Len(whole))
  <2>1. ASSUME NEW i \in Nat, i <= Len(fed), i \in later[Len(pattern)]
        PROVE  EndsIn(later, pattern, Len(fed), Len(whole))
    <3>1. CASE fed = << >>
      <4>1. i = 0 /\ Len(fed) = 0
        BY <2>1, <3>1
      <4>2. 1 \in later[Len(pattern)]
        BY <1>1, <1>3, <1>5, <1>8, <2>1, <4>1, OnlyStarsEndAtOnce
      <4>3. 0 < 1 /\ 1 <= Len(whole) /\ 1 \in Nat
        BY <1>3, <1>5, <4>1
      <4> QED
        BY <4>1, <4>2, <4>3 DEF EndsIn
    <3>2. CASE fed # << >>
      <4>1. ~EndsIn(ends, pattern, -1, Len(fed))
        BY <1>1, <1>7, <3>2 DEF KnowsOf
      <4>2. i \in ends[Len(pattern)]
        BY <1>1, <1>9, <2>1
      <4>3. -1 < i
        BY <2>1
      <4> QED
        BY <2>1, <4>1, <4>2, <4>3 DEF EndsIn
    <3> QED
      BY <3>1, <3>2
  <2>2. ASSUME NEW i \in Nat
        PROVE  (i <= Len(fed) \/ Len(fed) < i) /\ -1 < i
    BY <1>1
  <2> QED
    BY <2>1, <2>2 DEF EndsIn
<1>14. KnowsOf(so, later, pattern, wildcard, -1, Len(whole))
  BY <1>12, <1>13 DEF KnowsOf
<1>15. whole # << >>
  BY <1>3, <1>5, EmptySeq
<1> QED
  BY <1>1, <1>4, <1>8, <1>12, <1>14, <1>15 DEF SearchInv

\* The matcher, which is fed chunk after chunk and keeps only the places of the pattern it
\* has reached, reports the pattern found just when what was fed contains it.
THEOREM FoundIsContained == SearchSpec => []FoundIffContained
<1>1. SearchInit => SearchInv
  BY SearchBegins
<1>2. SearchInv /\ [SearchNext]_searchVars => SearchInv'
  <2>1. SUFFICES ASSUME SearchInv, [SearchNext]_searchVars
                 PROVE  SearchInv'
    OBVIOUS
  <2>2. CASE SearchNext
    BY <2>1, <2>2, FeedKeepsSearch DEF SearchNext
  <2>3. CASE UNCHANGED searchVars
    BY <2>1, <2>3 DEF searchVars, SearchInv
  <2> QED
    BY <2>1, <2>2, <2>3
<1>3. SearchInv => FoundIffContained
  <2>1. SUFFICES ASSUME SearchInv, fed # << >>
                 PROVE  matcher.hit <=> Occurs(pattern, wildcard, fed)
    BY DEF FoundIffContained
  <2>2. PICK ends : /\ Ending(ends, pattern, wildcard, fed)
                    /\ Occurs(pattern, wildcard, fed) <=> ends[Len(pattern)] # {}
                    /\ KnowsOf(matcher, ends, pattern, wildcard, -1, Len(fed))
    BY <2>1 DEF SearchInv
  <2>3. Len(pattern) \in Nat /\ Len(fed) \in Nat
    BY <2>1, LenProperties DEF SearchInv
  <2>4. ends[Len(pattern)] \in SUBSET (0 .. Len(fed))
    BY <2>2, <2>3 DEF Ending
  <2>5. \A i \in 0 .. Len(fed) : -1 < i /\ i <= Len(fed) /\ i \in Nat
    BY <2>3
  <2>6. EndsIn(ends, pattern, -1, Len(fed)) <=> ends[Len(pattern)] # {}
    BY <2>4, <2>5 DEF EndsIn
  <2>7. matcher.hit <=> EndsIn(ends, pattern, -1, Len(fed))
    BY <2>2, Zenon DEF KnowsOf
  <2> QED
    BY <2>2, <2>6, <2>7
<1> QED
  BY <1>1, <1>2, <1>3, PTL DEF SearchSpec

-----------------------------------------------------------------------------
(* The parts together: a behaviour of all is one of each.                  *)

LEMMA WorkplaceParts ==
  WorkplaceSpec => /\ FilesSpec /\ MemorySpec /\ SkillsSpec /\ TuiSpec /\ TranscriptSpec /\ ExecSpec
                   /\ NativeSpec /\ TmuxSpec /\ HostsSpec /\ ReplaySpec /\ SearchSpec
<1> DEFINE all == <<part, fileVars, profileVars, tuiVars, transcriptVars, execVars, nativeVars,
                    tmuxVars, hostVars, readerVars>>
<1>1. WorkplaceInit => /\ FilesInit /\ MemoryInit /\ SkillsInit /\ TuiInit /\ TranscriptInit /\ ExecInit
                       /\ NativeInit /\ TmuxInit /\ HostsInit /\ ReplayInit /\ SearchInit
  BY DEF WorkplaceInit
<1>2. [WorkplaceNext]_all => [FilesNext]_fileVars
  BY DEF WorkplaceNext
<1>3. [WorkplaceNext]_all => [MemoryNext]_memoryVars
  BY DEF WorkplaceNext, profileVars
<1>4. [WorkplaceNext]_all => [SkillsNext]_skillVars
  BY DEF WorkplaceNext, profileVars
<1>5. [WorkplaceNext]_all => [TuiNext]_tuiVars
  BY DEF WorkplaceNext
<1>6. [WorkplaceNext]_all => [TranscriptNext]_transcriptVars
  BY DEF WorkplaceNext
<1>7. [WorkplaceNext]_all => [ExecNext]_execVars
  BY DEF WorkplaceNext
<1>8. [WorkplaceNext]_all => [NativeNext]_nativeVars
  BY DEF WorkplaceNext
<1>9. [WorkplaceNext]_all => [TmuxNext]_tmuxVars
  BY DEF WorkplaceNext
<1>10. [WorkplaceNext]_all => [HostsNext]_hostVars
  BY DEF WorkplaceNext
<1>11. [WorkplaceNext]_all => [ReplayNext]_prefix
  BY DEF WorkplaceNext, readerVars
<1>12. [WorkplaceNext]_all => [SearchNext]_searchVars
  BY DEF WorkplaceNext, readerVars, searchVars
<1> QED
  BY <1>1, <1>2, <1>3, <1>4, <1>5, <1>6, <1>7, <1>8, <1>9, <1>10, <1>11, <1>12, PTL
     DEF WorkplaceSpec, FilesSpec, MemorySpec, SkillsSpec, TuiSpec, TranscriptSpec, ExecSpec,
         NativeSpec, TmuxSpec, HostsSpec, ReplaySpec, SearchSpec

\* Whatever the calls, the shells, the tmux server, the processes and the sockets do, no
\* terminal is left running out of reach, and no host retires from under a session.
THEOREM NoTerminalIsLost == WorkplaceSpec => []TerminalsSound
<1>1. NativeSound /\ TmuxSound /\ HostsSound => TerminalsSound
  BY DEF TerminalsSound
<1> QED
  BY <1>1, WorkplaceParts, NativeIsSound, TmuxIsSound, HostsAreSound, PTL

\* However the sessions that use the memory and the skills interleave, fail and are
\* abandoned, nothing that was saved is lost but what is forgotten or removed, and a
\* skill is whole wherever a session finds it.
THEOREM NothingKeptIsLost == WorkplaceSpec => []ProfileKept
<1>1. MemoryKept /\ SkillsKept => ProfileKept
  BY DEF ProfileKept
<1> QED
  BY <1>1, WorkplaceParts, MemoryIsKept, SkillsAreKept, PTL

\* Whatever is entered, answered and switched, and in whatever order the session's
\* updates come in, the interface waits only for what is under way, and what it shows is
\* counted, indexed and selected as it is.
THEOREM InterfaceIsSound == WorkplaceSpec => []InterfaceSound
<1>1. TuiSound /\ TranscriptSound => InterfaceSound
  BY DEF InterfaceSound
<1> QED
  BY <1>1, WorkplaceParts, InterfaceWaits, TranscriptIsIndexed, PTL

\* However a command's output comes in pieces, the command ends and the wait for it is
\* abandoned, the answer shows the beginning and the end of what was written.
THEOREM CommandsAreAnswered == WorkplaceSpec => []ExecSound
  BY WorkplaceParts, AnswersShowTheOutput, PTL

\* Whatever the log holds, the loop that replays it accepts just the prefixes that are well
\* formed, and returns what the last replacement committed.
THEOREM LogsAreReplayed == WorkplaceSpec => []LoopReadsPrefix
  BY WorkplaceParts, LoopIsRead, PTL

\* Whatever the pattern and however the output comes in chunks, the matcher reports the
\* pattern found just when the output contains it.
THEOREM PatternsAreFound == WorkplaceSpec => []FoundIffContained
  BY WorkplaceParts, FoundIsContained, PTL

\* Every part's state is of its type, and its counters within the bounds of its instance:
\* a lock is held by the one call that has gone past it, a session of a host is that of a
\* connection, what is read of a log was written.
THEOREM WorkplaceIsTyped == WorkplaceSpec => []WorkplaceTypeOK
<1>1. TuiInv => TuiTypeOK
  BY TuiIsWaited
<1>2. FilesTypeOK /\ MemoryTypeOK /\ SkillsTypeOK /\ TuiTypeOK /\ NativeTypeOK /\ TmuxTypeOK /\ HostsTypeOK
        => WorkplaceTypeOK
  BY DEF WorkplaceTypeOK
<1> QED
  BY <1>1, <1>2, WorkplaceParts, FilesTyped, MemoryTyped, SkillsTyped, TuiHolds, NativeTyped, TmuxTyped,
     HostsTyped, PTL
=============================================================================
