---------------------------- MODULE TmuxTerminal ----------------------------
(***************************************************************************)
(* The sessions of TmuxTerminalHost (fx-process/src/tmux_terminal.rs).     *)
(* They live in a tmux server that all processes of the user share and     *)
(* that outlives them; what fx knows of a session is a directory with its  *)
(* metadata and the log of its output.  Nothing is locked: every command   *)
(* of tmux, and every access to a file that another call may have changed  *)
(* since the last, is an action.  A call reads the metadata first, and is  *)
(* refused when they name a workspace that is no longer a directory.       *)
(***************************************************************************)
EXTENDS Naturals, Sequences, FiniteSets

CONSTANTS
  Hosts,         \* threads that serve calls, of any process
  Panes,         \* sessions, each with one pane
  Sizes,         \* dimensions
  MaxListed,     \* MAX_LIST_RESULTS: entries list looks at
  MaxLog,        \* bound: bytes a pane writes
  MaxTmuxCalls,  \* bound: calls
  MaxTmuxFaults, \* bound: failures and crashes
  MaxMoves       \* bound: workspaces that are removed or moved

NoMetadata == [size |-> "none", reader |-> 0]
NoCall == [at |-> "idle", on |-> "none", meta |-> NoMetadata, size |-> "none"]

\* What stands for no session and for no size is neither, and the bounds are numbers.
ASSUME TmuxAssumption ==
  /\ "none" \notin Panes /\ "none" \notin Sizes /\ IsFiniteSet(Panes)
  /\ MaxListed \in Nat /\ MaxLog \in Nat /\ MaxTmuxFaults \in Nat

VARIABLES
  pane,       \* of the server: "none", "running", "dead", kept by remain-on-exit, "gone"
  remains,    \* remain-on-exit is on
  window,     \* the dimensions of the window
  buffers,    \* the paste buffers of the server, the newest first: numbers of texts
  pasted,     \* history: how often each text was pasted
  directory,  \* the directories that exist
  metadata,   \* session.json
  outputs,    \* the sessions whose output.log is in their directory
  log,        \* what was written to output.log: its length
  workspaces, \* the sessions whose workspace_root is a directory
  piped,      \* pipe-pane is on
  request,    \* the call of each host
  stray,      \* history: sessions a failure has left in the server
  disturbed,  \* history: sessions of two calls at a time, or of a call cut short
  tmuxCalls, tmuxFaults, moves

tmuxVars == <<pane, remains, window, buffers, pasted, directory, metadata, outputs, log, workspaces, piped,
              request, stray, disturbed, tmuxCalls, tmuxFaults, moves>>
serverVars == <<pane, remains, window, buffers, pasted, log, piped>>
recordVars == <<directory, metadata, outputs>>
countVars == <<stray, disturbed, tmuxCalls, tmuxFaults>>
placeVars == <<workspaces, moves>>

TmuxFault == tmuxFaults < MaxTmuxFaults /\ tmuxFaults' = tmuxFaults + 1
Here(h) == request[h].on
Doing(h, at) == request[h].at = at
GoesTo(h, at) == request' = [request EXCEPT ![h].at = at]
Ends(h) == request' = [request EXCEPT ![h] = NoCall]
Kill(s) == pane' = [pane EXCEPT ![s] = IF @ = "none" THEN "none" ELSE "gone"]

HasRecord(s) == metadata[s] # NoMetadata

\* remove_dir_all is under way: what is left of the two files when it has listed them.
Removing == {"remove", "remove-record", "remove-log", "rmdir"}
Removed(s) == \E h \in Hosts : Here(h) = s /\ request[h].at \in Removing

-----------------------------------------------------------------------------
(* start_tmux.                                                             *)

\* The directory, the empty log in it and the command file; until its metadata are written
\* only list sees it, and passes over it.
CreateDirectory(h, s, size) ==
  /\ Doing(h, "idle") /\ tmuxCalls < MaxTmuxCalls /\ tmuxCalls' = tmuxCalls + 1
  /\ pane[s] = "none" /\ s \notin directory /\ \A g \in Hosts : Here(g) # s
  /\ directory' = directory \cup {s} /\ outputs' = outputs \cup {s}
  /\ request' = [request EXCEPT ![h] = [at |-> "create", on |-> s, meta |-> NoMetadata, size |-> size]]
  /\ UNCHANGED <<serverVars, metadata, stray, disturbed, tmuxFaults, placeVars>>

NewSession(h) ==
  /\ Doing(h, "create")
  /\ pane' = [pane EXCEPT ![Here(h)] = "running"]
  /\ window' = [window EXCEPT ![Here(h)] = request[h].size]
  /\ GoesTo(h, "set-option")
  /\ UNCHANGED <<remains, buffers, pasted, log, piped, recordVars, countVars, placeVars>>

\* A tmux that does not start leaves the directory; one that refuses has it removed.
NewSessionFails(h) ==
  /\ Doing(h, "create") /\ TmuxFault
  /\ Ends(h) \/ GoesTo(h, "remove")
  /\ UNCHANGED <<serverVars, recordVars, stray, disturbed, tmuxCalls, placeVars>>

\* configure_session: set-option, pipe-pane and send-keys; tmux refuses each when the session
\* has gone, which it does when the shell ends before remain-on-exit is on.
SetOption(h) ==
  /\ Doing(h, "set-option") /\ pane[Here(h)] # "gone"
  /\ remains' = remains \cup {Here(h)} /\ GoesTo(h, "pipe-pane")
  /\ UNCHANGED <<pane, window, buffers, pasted, log, piped, recordVars, countVars, placeVars>>

PipePane(h) ==
  /\ Doing(h, "pipe-pane") /\ pane[Here(h)] # "gone"
  /\ piped' = piped \cup {Here(h)} /\ GoesTo(h, "send-keys")
  /\ UNCHANGED <<pane, remains, window, buffers, pasted, log, recordVars, countVars, placeVars>>

SendCommand(h) ==
  /\ Doing(h, "send-keys") /\ pane[Here(h)] # "gone" /\ GoesTo(h, "write")
  /\ UNCHANGED <<serverVars, recordVars, countVars, placeVars>>

ConfigureRefused(h) ==
  /\ request[h].at \in {"set-option", "pipe-pane", "send-keys"}
  /\ IF pane[Here(h)] = "gone" THEN UNCHANGED tmuxFaults ELSE TmuxFault
  /\ UNCHANGED <<serverVars, recordVars, stray, disturbed, tmuxCalls, placeVars>>

\* Mutant: the session is left in the server.
ConfigureForgets(h) == ConfigureRefused(h) /\ GoesTo(h, "remove")

\* The session is killed and the directory removed, whatever comes of both.
ConfigureFails(h) == ConfigureRefused(h) /\ GoesTo(h, "undo")

\* The metadata are validated and written last; when that fails nothing is undone.
WriteNew(h) ==
  /\ Doing(h, "write") /\ Here(h) \in workspaces
  /\ metadata' = [metadata EXCEPT ![Here(h)] = [size |-> request[h].size, reader |-> 0]]
  /\ Ends(h)
  /\ UNCHANGED <<serverVars, directory, outputs, countVars, placeVars>>

WriteNewFails(h) ==
  /\ Doing(h, "write")
  /\ IF Here(h) \notin workspaces THEN UNCHANGED tmuxFaults ELSE TmuxFault
  /\ stray' = stray \cup {Here(h)} /\ Ends(h)
  /\ UNCHANGED <<serverVars, recordVars, disturbed, tmuxCalls, placeVars>>

-----------------------------------------------------------------------------
(* The other calls: each begins by loading the metadata.                   *)

\* A call that finds no metadata, or those of a workspace that has gone, has ended with that;
\* a second call on a session disturbs it.
Load(h, s, call, size) ==
  /\ Doing(h, "idle") /\ tmuxCalls < MaxTmuxCalls /\ tmuxCalls' = tmuxCalls + 1
  /\ HasRecord(s) /\ s \in workspaces
  /\ request' = [request EXCEPT ![h] = [at |-> call, on |-> s, meta |-> metadata[s], size |-> size]]
  /\ disturbed' = IF \E g \in Hosts : Here(g) = s THEN disturbed \cup {s} ELSE disturbed
  /\ UNCHANGED <<serverVars, recordVars, stray, tmuxFaults, placeVars>>

\* The session, the log or the directory a call works on, or the workspace, has gone, or a
\* removal takes the file it has staged; or tmux or the disk fails.
CallRefused(h) ==
  \/ request[h].at \in {"load-buffer", "paste-buffer", "kill-pane"} /\ pane[Here(h)] # "running"
  \/ Doing(h, "resize") /\ pane[Here(h)] = "gone"
  \/ Doing(h, "read") /\ Here(h) \notin outputs
  \/ Doing(h, "keep") /\ (Here(h) \notin directory \cap workspaces \/ Removed(Here(h)))

CallFails(h) ==
  /\ request[h].at \in {"load-buffer", "paste-buffer", "kill-pane", "resize", "read", "keep"}
  /\ (CallRefused(h) /\ UNCHANGED tmuxFaults) \/ TmuxFault
  /\ disturbed' = IF Doing(h, "keep") THEN disturbed \cup {Here(h)} ELSE disturbed
  /\ Ends(h)
  /\ UNCHANGED <<serverVars, recordVars, stray, tmuxCalls, placeVars>>

Keeps(h, m) == request' = [request EXCEPT ![h].at = "keep", ![h].meta = m]

\* read_tmux, from an offset that the log has; the log may be unlinked by now.
ReadLog(h) ==
  /\ Doing(h, "read") /\ Here(h) \in outputs
  /\ \E end \in 0 .. log[Here(h)] : Keeps(h, [request[h].meta EXCEPT !.reader = end])
  /\ UNCHANGED <<serverVars, recordVars, countVars, placeVars>>

ResizeTo(h, m) ==
  /\ Doing(h, "resize") /\ pane[Here(h)] \in {"running", "dead"}
  /\ window' = [window EXCEPT ![Here(h)] = request[h].size] /\ Keeps(h, m)
  /\ UNCHANGED <<pane, remains, buffers, pasted, log, piped, recordVars, countVars, placeVars>>

\* Mutant: the new dimensions are not kept.
ResizeForgets(h) == ResizeTo(h, request[h].meta)

ResizeWindow(h) == ResizeTo(h, [request[h].meta EXCEPT !.size = request[h].size])

\* write_metadata: what was loaded, with what the call changes; what others have written
\* since is lost, and what a removal has unlinked is there again.
Remember(h) ==
  /\ Doing(h, "keep") /\ Here(h) \in directory \cap workspaces
  /\ metadata' = [metadata EXCEPT ![Here(h)] = request[h].meta] /\ Ends(h)
  /\ UNCHANGED <<serverVars, directory, outputs, countVars, placeVars>>

\* write_tmux of a paste: the text is loaded into the newest buffer of the server, and the
\* newest buffer of that moment is pasted and deleted.
LoadBuffer(h) ==
  /\ Doing(h, "load-buffer") /\ pane[Here(h)] = "running"
  /\ buffers' = <<Len(pasted) + 1>> \o buffers /\ pasted' = Append(pasted, 0) /\ GoesTo(h, "paste-buffer")
  /\ UNCHANGED <<pane, remains, window, log, piped, recordVars, countVars, placeVars>>

\* Mutant: the buffer is not deleted.
PasteKeeps(h) ==
  /\ buffers # <<>> /\ pasted' = [pasted EXCEPT ![Head(buffers)] = @ + 1]
  /\ UNCHANGED buffers

Paste(h) ==
  /\ buffers # <<>> /\ pasted' = [pasted EXCEPT ![Head(buffers)] = @ + 1]
  /\ buffers' = Tail(buffers)

PasteBuffer(h) ==
  /\ Doing(h, "paste-buffer") /\ pane[Here(h)] = "running"
  /\ Paste(h) /\ Ends(h)
  /\ UNCHANGED <<pane, remains, window, log, piped, recordVars, countVars, placeVars>>

\* signal_tmux: kill-pane ends the session with its only pane; a key is left to the shell.
KillPane(h) ==
  /\ Doing(h, "kill-pane") /\ pane[Here(h)] = "running"
  /\ Kill(Here(h)) /\ Ends(h)
  /\ UNCHANGED <<remains, window, buffers, pasted, log, piped, recordVars, countVars, placeVars>>

\* close_tmux, and a start that is undone: the session is killed; that this fails is not
\* looked at.
KillSession(h) ==
  /\ request[h].at \in {"close", "undo"} /\ Kill(Here(h)) /\ GoesTo(h, "remove")
  /\ UNCHANGED <<remains, window, buffers, pasted, log, piped, recordVars, countVars, placeVars>>

KillFails(h) ==
  /\ request[h].at \in {"close", "undo"} /\ pane[Here(h)] \in {"running", "dead"} /\ TmuxFault
  /\ stray' = stray \cup {Here(h)} /\ GoesTo(h, "remove")
  /\ UNCHANGED <<serverVars, recordVars, disturbed, tmuxCalls, placeVars>>

\* remove_dir_all: the files in either order, and the directory, which must be empty by then.
\* That another call has taken one of them is passed over.
UnlinkRecord(h) ==
  /\ request[h].at \in {"remove", "remove-record"}
  /\ metadata' = [metadata EXCEPT ![Here(h)] = NoMetadata]
  /\ GoesTo(h, IF Doing(h, "remove") THEN "remove-log" ELSE "rmdir")
  /\ UNCHANGED <<serverVars, directory, outputs, countVars, placeVars>>

UnlinkLog(h) ==
  /\ request[h].at \in {"remove", "remove-log"}
  /\ outputs' = outputs \ {Here(h)}
  /\ GoesTo(h, IF Doing(h, "remove") THEN "remove-record" ELSE "rmdir")
  /\ UNCHANGED <<serverVars, directory, metadata, countVars, placeVars>>

RemoveDirectory(h) ==
  /\ Doing(h, "rmdir") /\ ~HasRecord(Here(h)) /\ Here(h) \notin outputs
  /\ directory' = directory \ {Here(h)} /\ Ends(h)
  /\ UNCHANGED <<serverVars, metadata, outputs, countVars, placeVars>>

\* There is no directory to begin with, or a file in it at the end: metadata a call has
\* written since, or has staged.
RemovalRefused(h) ==
  \/ Doing(h, "remove") /\ Here(h) \notin directory
  \/ Doing(h, "rmdir") /\ \/ HasRecord(Here(h)) \/ Here(h) \in outputs
                          \/ \E g \in Hosts : Here(g) = Here(h) /\ Doing(g, "keep")

RemovalFails(h) ==
  /\ request[h].at \in Removing
  /\ (RemovalRefused(h) /\ UNCHANGED tmuxFaults) \/ TmuxFault
  /\ disturbed' = disturbed \cup {Here(h)} /\ Ends(h)
  /\ UNCHANGED <<serverVars, recordVars, stray, tmuxCalls, placeVars>>

-----------------------------------------------------------------------------
\* The shell writes, and cat appends it to the log.
PaneWrites(s) ==
  /\ pane[s] = "running" /\ s \in piped /\ log[s] < MaxLog
  /\ log' = [log EXCEPT ![s] = @ + 1]
  /\ UNCHANGED <<pane, remains, window, buffers, pasted, piped, recordVars, request, countVars, placeVars>>

PaneEnds(s) ==
  /\ pane[s] = "running"
  /\ pane' = [pane EXCEPT ![s] = IF s \in remains THEN "dead" ELSE "gone"]
  /\ UNCHANGED <<remains, window, buffers, pasted, log, piped, recordVars, request, countVars, placeVars>>

\* The process of a host dies in the middle of its call; the server does not notice.
HostDies(h) ==
  /\ ~Doing(h, "idle") /\ TmuxFault
  /\ stray' = IF request[h].at \in {"set-option", "pipe-pane", "send-keys", "write", "undo"}
              THEN stray \cup {Here(h)} ELSE stray
  /\ disturbed' = disturbed \cup {Here(h)}
  /\ Ends(h)
  /\ UNCHANGED <<serverVars, recordVars, tmuxCalls, placeVars>>

\* Somebody removes or moves the directory of the workspace, or puts it back.
WorkspaceGoes(s) ==
  /\ s \in workspaces /\ moves < MaxMoves /\ moves' = moves + 1 /\ workspaces' = workspaces \ {s}
  /\ UNCHANGED <<serverVars, recordVars, request, countVars>>

WorkspaceReturns(s) ==
  /\ s \notin workspaces /\ workspaces' = workspaces \cup {s}
  /\ UNCHANGED <<serverVars, recordVars, request, countVars, moves>>

TmuxInit ==
  /\ pane = [s \in Panes |-> "none"] /\ remains = {} /\ window = [s \in Panes |-> "none"]
  /\ buffers = <<>> /\ pasted = <<>>
  /\ directory = {} /\ metadata = [s \in Panes |-> NoMetadata] /\ outputs = {} /\ log = [s \in Panes |-> 0]
  /\ workspaces = Panes /\ piped = {} /\ request = [h \in Hosts |-> NoCall]
  /\ stray = {} /\ disturbed = {} /\ tmuxCalls = 0 /\ tmuxFaults = 0 /\ moves = 0

TmuxNext ==
  \/ \E h \in Hosts :
       \/ NewSession(h) \/ NewSessionFails(h) \/ SetOption(h) \/ PipePane(h) \/ SendCommand(h)
       \/ ConfigureFails(h) \/ WriteNew(h) \/ WriteNewFails(h) \/ CallFails(h) \/ ReadLog(h)
       \/ ResizeWindow(h) \/ Remember(h) \/ LoadBuffer(h) \/ PasteBuffer(h) \/ KillPane(h)
       \/ KillSession(h) \/ KillFails(h) \/ UnlinkRecord(h) \/ UnlinkLog(h) \/ RemoveDirectory(h)
       \/ RemovalFails(h) \/ HostDies(h)
       \/ \E s \in Panes :
            \/ (\E size \in Sizes : CreateDirectory(h, s, size) \/ Load(h, s, "resize", size))
            \/ \E call \in {"read", "load-buffer", "kill-pane", "close"} : Load(h, s, call, "none")
  \/ \E s \in Panes : PaneWrites(s) \/ PaneEnds(s) \/ WorkspaceGoes(s) \/ WorkspaceReturns(s)

-----------------------------------------------------------------------------
(* list_tmux: what a call would answer now.                                *)

\* The entries read_dir gives first.
Entries ==
  {some \in SUBSET directory :
     Cardinality(some) = IF Cardinality(directory) <= MaxListed THEN Cardinality(directory) ELSE MaxListed}

\* Mutant: a directory without metadata is an error too.
ListFailsOnEmpty(some) == \E s \in some : ~(HasRecord(s) /\ s \in workspaces /\ s \in outputs)

\* One entry whose workspace or log has gone is an error of the whole list.
ListFails(some) == \E s \in some : HasRecord(s) /\ ~(s \in workspaces /\ s \in outputs)

List(some) == IF ListFails(some) THEN {} ELSE {s \in some : HasRecord(s)}

-----------------------------------------------------------------------------
TmuxTypeOK ==
  /\ pane \in [Panes -> {"none", "running", "dead", "gone"}]
  /\ metadata \in [Panes -> [size : Sizes \cup {"none"}, reader : 0 .. MaxLog]]
  /\ directory \subseteq Panes /\ stray \subseteq Panes /\ tmuxFaults \in 0 .. MaxTmuxFaults

Starting == {"create", "set-option", "pipe-pane", "send-keys", "write", "undo"}
Started(s) == \E h \in Hosts : Here(h) = s /\ request[h].at \in Starting
Keeping(s) == \E h \in Hosts : Here(h) = s /\ Doing(h, "keep")

\* Nothing keeps a list of these entries from being answered: the workspace of each is
\* there, none is being removed, and none had a removal cut short or a second call.
Undisturbed(some) ==
  \A s \in some : HasRecord(s) => s \in workspaces /\ s \notin disturbed /\ ~Removed(s)

\* A session that is in the server is recorded, so that close reaches it whenever its
\* workspace is there and every list that gets to its entry shows it, unless the workspace
\* of an entry has gone or a removal of one is under way or was disturbed; or it is being
\* started, or one of the failures nothing is done about has left it there.
InReach ==
  \A s \in Panes : pane[s] \in {"running", "dead"} =>
    \/ s \in stray \/ Started(s)
    \/ /\ HasRecord(s)
       /\ \A some \in Entries : Undisturbed(some) =>
            s \in List(some) \/ (s \notin some /\ Cardinality(directory) > MaxListed)

\* What is recorded of a session is in its directory, with its log, and never ahead of what
\* was written; its dimensions are those of its window.  Only a disturbance, or a removal or
\* a resize that is not done, leaves metadata without the log or with other dimensions.
RecordSound ==
  \A s \in Panes : HasRecord(s) =>
    /\ s \in directory /\ metadata[s].reader <= log[s]
    /\ s \in outputs \/ s \in disturbed \/ Removed(s)
    /\ metadata[s].size = window[s] \/ s \in disturbed \/ Keeping(s)

\* No session is out of reach, no record is wrong, and a text is pasted once at most.
TmuxSound ==
  /\ InReach /\ RecordSound
  /\ \A text \in DOMAIN pasted : pasted[text] <= 1
=============================================================================
