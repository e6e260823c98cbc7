---------------------------- MODULE MCWorkplace ----------------------------
(***************************************************************************)
(* An instance for TLC of the parts that work beside the runtime: the      *)
(* files, memory and skills that tools change, the processes they run, the *)
(* user interface, the processes of the terminal host, and the two readers *)
(* that take their input in pieces, the replay of an event log and the     *)
(* search for a pattern. They share no state; each behaviour is one of one *)
(* of them, and the others stay as they began.                             *)
(*                                                                         *)
(* Those who call (agents, users, threads) are one set, and                *)
(* interchangeable; so are files, and sessions of terminals.               *)
(***************************************************************************)
EXTENDS FileTools, Memories, SkillStore, ForegroundExec, TuiApp, Transcript, NativeTerminal,
        TmuxTerminal, HostLifecycle, EventReplay, MCPatternFeed, TLC

VARIABLE part

profileVars == <<memoryVars, skillVars>>
readerVars == <<prefix, pattern, wildcard, fed, matcher>>

MCSources == {<<>>, <<"s">>, <<"s", "t">>}

\* All frame sequences over two states of one and two chunks, and a torn frame.
MCTexts == {"short", "long"}
MCChunksOf == [text \in MCTexts |-> IF text = "long" THEN 2 ELSE 1]
MCAlphabet ==
  {[seq |-> 0, part |-> n, state |-> [identity |-> "mine", updated |-> 1, text |-> text]] :
     n \in 0..3, text \in MCTexts} \cup {[seq |-> 0, part |-> 0, state |-> None]}

MCSymmetry == Permutations(Agents) \cup Permutations(Targets) \cup Permutations(Shells)

\* A part that does not take its turn begins in one way only.
WorkplaceInit ==
  /\ part \in {"files", "memory", "skills", "tui", "transcript", "exec", "native", "tmux",
               "hosts", "replay", "pattern"}
  /\ FilesInit /\ MemoryInit /\ SkillsInit /\ TuiInit /\ TranscriptInit /\ ExecInit
  /\ NativeInit /\ TmuxInit /\ HostsInit /\ ReplayInit
  /\ part # "files" => link = (CHOOSE t \in Targets : TRUE) /\ \A t \in Targets : disk[t] = Absent
  /\ part # "skills" => had = {}
  /\ part # "exec" => maxBytes = 1
  /\ SearchInit
  /\ part # "pattern" => pattern = <<"a">> /\ ~wildcard

WorkplaceNext ==
  /\ UNCHANGED part
  /\ \/ /\ part = "files" /\ FilesNext
        /\ UNCHANGED <<profileVars, tuiVars, transcriptVars, execVars, nativeVars, tmuxVars, hostVars, readerVars>>
     \/ /\ part = "memory" /\ MemoryNext
        /\ UNCHANGED <<fileVars, skillVars, tuiVars, transcriptVars, execVars, nativeVars, tmuxVars, hostVars, readerVars>>
     \/ /\ part = "skills" /\ SkillsNext
        /\ UNCHANGED <<fileVars, memoryVars, tuiVars, transcriptVars, execVars, nativeVars, tmuxVars, hostVars, readerVars>>
     \/ /\ part = "tui" /\ TuiNext
        /\ UNCHANGED <<fileVars, profileVars, transcriptVars, execVars, nativeVars, tmuxVars, hostVars, readerVars>>
     \/ /\ part = "transcript" /\ TranscriptNext
        /\ UNCHANGED <<fileVars, profileVars, tuiVars, execVars, nativeVars, tmuxVars, hostVars, readerVars>>
     \/ /\ part = "exec" /\ ExecNext
        /\ UNCHANGED <<fileVars, profileVars, tuiVars, transcriptVars, nativeVars, tmuxVars, hostVars, readerVars>>
     \/ /\ part = "native" /\ NativeNext
        /\ UNCHANGED <<fileVars, profileVars, tuiVars, transcriptVars, execVars, tmuxVars, hostVars, readerVars>>
     \/ /\ part = "tmux" /\ TmuxNext
        /\ UNCHANGED <<fileVars, profileVars, tuiVars, transcriptVars, execVars, nativeVars, hostVars, readerVars>>
     \/ /\ part = "hosts" /\ HostsNext
        /\ UNCHANGED <<fileVars, profileVars, tuiVars, transcriptVars, execVars, nativeVars, tmuxVars, readerVars>>
     \/ /\ part = "replay" /\ ReplayNext
        /\ UNCHANGED <<fileVars, profileVars, tuiVars, transcriptVars, execVars, nativeVars, tmuxVars,
                       hostVars, pattern, wildcard, fed, matcher>>
     \/ /\ part = "pattern" /\ SearchNext
        /\ UNCHANGED <<fileVars, profileVars, tuiVars, transcriptVars, execVars, nativeVars, tmuxVars, hostVars, prefix>>

WorkplaceSpec ==
  WorkplaceInit
    /\ [][WorkplaceNext]_<<part, fileVars, profileVars, tuiVars, transcriptVars, execVars, nativeVars,
                           tmuxVars, hostVars, readerVars>>

\* The types of the parts.
WorkplaceTypeOK ==
  /\ FilesTypeOK /\ MemoryTypeOK /\ SkillsTypeOK /\ TuiTypeOK
  /\ NativeTypeOK /\ TmuxTypeOK /\ HostsTypeOK

\* Memories and SkillStore: what fx said it keeps in the profile, it keeps.
ProfileKept == MemoryKept /\ SkillsKept

\* TuiApp and Transcript: the interface waits for what is under way and shows what came.
InterfaceSound == TuiSound /\ TranscriptSound

\* NativeTerminal, TmuxTerminal and HostLifecycle: no terminal is left running out of
\* reach, and no host retires from under a session.
TerminalsSound == NativeSound /\ TmuxSound /\ HostsSound
=============================================================================
