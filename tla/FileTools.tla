----------------------------- MODULE FileTools -----------------------------
(***************************************************************************)
(* The tools of fx-tools that change files, called by the agents that work *)
(* in one workspace, while the user edits the same files.  write_file and  *)
(* edit_file prepare a change, whose preview is reviewed, and apply it;    *)
(* the others act on what they find when they run.                         *)
(*                                                                         *)
(* A file is a content and a stamp, which stands for FileIdentity: every   *)
(* change of the file gives it another.  The path of a call is a symbolic  *)
(* link, which may come to point elsewhere.                                *)
(***************************************************************************)
EXTENDS Naturals

CONSTANTS
  Agents,
  Targets,     \* the files
  Contents,    \* "empty" and others
  MaxCalls,    \* bound: calls of tools
  MaxOutside   \* bound: changes by the user

\* The content that can be edited is one of the contents, and the bounds are numbers.
ASSUME FilesAssumption == "a" \in Contents /\ MaxCalls \in Nat /\ MaxOutside \in Nat

Absent == [content |-> "absent", stamp |-> 0]
Stamps == 0 .. MaxCalls + MaxOutside + 1
Files == [content : Contents \cup {"absent"}, stamp : Stamps]
Idle == [at |-> "idle", tool |-> "none", target |-> "none", pre |-> Absent, after |-> "none",
         said |-> "none"]

VARIABLES
  disk,
  link,       \* the target the path leads to
  call,       \* the call of each agent
  raced,      \* history: the target was changed since the call's last look at it
  evidence,   \* ReadEvidenceStore, one for all: the stamp and the content last seen
  stamps, fileCalls, outside

fileVars == <<disk, link, call, raced, evidence, stamps, fileCalls, outside>>
budgets == <<fileCalls, outside>>

\* A change of the file t: the calls that have looked at it for the last time do not see it.
Put(t, content) ==
  /\ disk' = [disk EXCEPT ![t] = IF content = "absent" THEN Absent
                                 ELSE [content |-> content, stamp |-> stamps]]
  /\ stamps' = stamps + 1
  /\ raced' = [a \in Agents |-> raced[a] \/ (call[a].at = "checked" /\ call[a].target = t)]

Says(a, said) == call' = [call EXCEPT ![a].at = "ended", ![a].said = said]
At(a, at) == call' = [call EXCEPT ![a].at = at]

Begin(a, tool, after) ==
  /\ call[a].at \in {"idle", "ended"} /\ fileCalls < MaxCalls /\ fileCalls' = fileCalls + 1
  /\ call' = [call EXCEPT ![a] = [at |-> "begun", tool |-> tool, target |-> link,
                                  pre |-> disk[link], after |-> after, said |-> "none"]]
  /\ raced' = [raced EXCEPT ![a] = FALSE]
  /\ UNCHANGED <<disk, link, evidence, stamps, outside>>

-----------------------------------------------------------------------------
(* write_file and edit_file.                                               *)

\* derive_postimage: what is left when the one occurrence of old_string is replaced.
Edited(content) == "edited"
Editable == {"a"}

\* prepare_file_mutation: the target is resolved and read, for the preview.
PrepareWrite(a, content) == Begin(a, "write", content)
PrepareEdit(a) == disk[link].content \in Editable /\ Begin(a, "edit", Edited(disk[link].content))

Denied(a) ==
  /\ call[a].at = "begun" /\ Says(a, "denied")
  /\ UNCHANGED <<disk, link, raced, evidence, stamps, budgets>>

Unchanged(a) ==
  \/ call[a].pre.content = call[a].after
  \/ call[a].pre = Absent /\ call[a].after = "empty"

\* apply: nothing to do, as far as the preview knows.
ApplyNothing(a) ==
  /\ call[a].at = "begun" /\ call[a].tool \in {"write", "edit"} /\ Unchanged(a)
  /\ Says(a, "unchanged")
  /\ UNCHANGED <<disk, link, raced, evidence, stamps, budgets>>

\* Mutant: the file is not looked at again.
FreshBound(a) == link = call[a].target

\* verify_binding and verify_preimage.
Fresh(a) == link = call[a].target /\ disk[call[a].target] = call[a].pre

Check(a, from, to) ==
  /\ call[a].at = from
  /\ IF Fresh(a) THEN At(a, to) ELSE Says(a, "rejected")
  /\ UNCHANGED <<disk, link, raced, evidence, stamps, budgets>>

\* The new content is staged beside the file; before it is put in place the file is
\* looked at once more.
Stage(a) == call[a].tool \in {"write", "edit"} /\ ~Unchanged(a) /\ Check(a, "begun", "staged")
CheckAgain(a) == call[a].tool \in {"write", "edit"} /\ Check(a, "staged", "checked")

\* The stage is dropped: a write, the synchronisation or the rename fails.
StageFails(a) ==
  /\ call[a].at \in {"staged", "checked"} /\ Says(a, "failed")
  /\ UNCHANGED <<disk, link, raced, evidence, stamps, budgets>>

\* AtomicWriteFile::commit, a rename.
Commit(a) ==
  /\ call[a].at = "checked" /\ call[a].tool \in {"write", "edit"}
  /\ Put(call[a].target, call[a].after) /\ At(a, "committed")
  /\ UNCHANGED <<link, evidence, budgets>>

\* The metadata of the file is read for the evidence; by now it may be another's.
Record(a) ==
  LET t == call[a].target
  IN  /\ call[a].at = "committed"
      /\ IF disk[t] = Absent THEN Says(a, "failed") /\ UNCHANGED evidence
         ELSE /\ Says(a, "done")
              /\ evidence' = [evidence EXCEPT ![t] = [content |-> call[a].after, stamp |-> disk[t].stamp]]
      /\ UNCHANGED <<disk, link, raced, stamps, budgets>>

-----------------------------------------------------------------------------
(* read_file, copy_file, rename_file, delete_file.                         *)

\* The permission is asked for the file the path leads to by now.
Permit(a, tool) == disk[link] # Absent /\ Begin(a, tool, "none")

Read(a) ==
  /\ call[a].at = "begun" /\ call[a].tool = "read"
  /\ IF disk[link] = Absent THEN Says(a, "failed") /\ UNCHANGED evidence
     ELSE Says(a, "done") /\ evidence' = [evidence EXCEPT ![link] = disk[link]]
  /\ UNCHANGED <<disk, link, raced, stamps, budgets>>

\* The open file is copied beside another one, which is then replaced, whatever it has
\* become.  Its path is direct: verify_target_binding finds what was resolved.
CopyOpen(a, to) ==
  /\ call[a].at = "begun" /\ call[a].tool = "copy"
  /\ IF disk[link] = Absent THEN Says(a, "failed")
     ELSE IF link = to THEN Says(a, "done")
     ELSE call' = [call EXCEPT ![a].at = "staged", ![a].target = to, ![a].after = disk[link].content]
  /\ UNCHANGED <<disk, link, raced, evidence, stamps, budgets>>

CopyCommit(a) ==
  /\ call[a].at = "staged" /\ call[a].tool = "copy"
  /\ Put(call[a].target, call[a].after) /\ Says(a, "done")
  /\ evidence' = [evidence EXCEPT ![call[a].target] = Absent]
  /\ UNCHANGED <<link, budgets>>

Delete(a) ==
  /\ call[a].at = "begun" /\ call[a].tool = "delete"
  /\ IF disk[link] = Absent THEN Says(a, "failed") /\ UNCHANGED <<disk, raced, evidence, stamps>>
     ELSE /\ Put(link, "absent") /\ Says(a, "done")
          /\ evidence' = [evidence EXCEPT ![link] = Absent]
  /\ UNCHANGED <<link, budgets>>

\* The file keeps its inode and its times.
Rename(a, to) ==
  /\ call[a].at = "begun" /\ call[a].tool = "rename"
  /\ IF disk[link] = Absent \/ link = to
     THEN /\ Says(a, IF disk[link] = Absent THEN "failed" ELSE "done")
          /\ UNCHANGED <<disk, raced, evidence>>
     ELSE /\ disk' = [disk EXCEPT ![to] = disk[link], ![link] = Absent]
          /\ raced' = [b \in Agents |-> raced[b] \/ (call[b].at = "checked" /\ call[b].target \in {link, to})]
          /\ evidence' = [evidence EXCEPT ![to] = Absent, ![link] = Absent]
          /\ Says(a, "done")
  /\ UNCHANGED <<link, stamps, budgets>>

-----------------------------------------------------------------------------
Outside ==
  /\ outside < MaxOutside /\ outside' = outside + 1
  /\ UNCHANGED <<call, evidence, fileCalls>>

UserWrites(t, content) == Outside /\ Put(t, content) /\ UNCHANGED link
UserRelinks(t) == Outside /\ link' = t /\ t # link /\ UNCHANGED <<disk, raced, stamps>>

FilesInit ==
  /\ disk \in [Targets -> {Absent, [content |-> "a", stamp |-> 0]}]
  /\ link \in Targets
  /\ call = [a \in Agents |-> Idle] /\ raced = [a \in Agents |-> FALSE]
  /\ evidence = [t \in Targets |-> Absent]
  /\ stamps = 1 /\ fileCalls = 0 /\ outside = 0

FilesNext ==
  \/ \E a \in Agents :
       \/ (\E content \in Contents : PrepareWrite(a, content)) \/ PrepareEdit(a) \/ Denied(a)
       \/ ApplyNothing(a) \/ Stage(a) \/ CheckAgain(a) \/ StageFails(a) \/ Commit(a) \/ Record(a)
       \/ (\E tool \in {"read", "copy", "delete", "rename"} : Permit(a, tool))
       \/ Read(a) \/ CopyCommit(a) \/ Delete(a)
       \/ \E to \in Targets : CopyOpen(a, to) \/ Rename(a, to)
  \/ \E t \in Targets : \/ \E content \in Contents \cup {"absent"} : UserWrites(t, content)
                        \/ UserRelinks(t)

FilesSpec == FilesInit /\ [][FilesNext]_fileVars

-----------------------------------------------------------------------------
FilesTypeOK ==
  /\ disk \in [Targets -> [content : Contents \cup {"absent", "edited"}, stamp : Stamps]]
  /\ link \in Targets /\ stamps \in Stamps
  /\ \A a \in Agents : call[a].at \in {"idle", "begun", "staged", "checked", "committed", "ended"}

\* A change is put in place of the very content its preview showed, by whomever the file
\* was changed while the preview was looked at and while the new content was staged; only
\* a change after the last look goes unnoticed.
ReplacesWhatWasReviewed ==
  [][\A a \in Agents :
       call[a].at = "checked" /\ call'[a].at = "committed"
         => disk[call[a].target] = call[a].pre \/ raced[a]]_fileVars
=============================================================================
