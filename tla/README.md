# TLA+ models of fx-rs

fx-rs is a coding agent: a library of crates behind two front ends (an ACP
server and a terminal user interface) and one detached process that owns
terminals. This directory holds TLA+ modules translated from its source, TLC
configurations that check them on small instances, and TLAPS proofs.
`PROJECT.json` is the index: components, runs, the line map from definitions to
source, hazards, findings and theorems.

Paths below are relative to `src/crates/`.

## 1. The system

| component | state it keeps | operations | interacts with |
|---|---|---|---|
| session store (`fx-store/src/lib.rs`) | one directory per session: `events.jsonl`, `commit.json`, `session.json`, `session.lock` | `save`, `load`, `list` | called by the runtime; several processes share the files |
| tool results (`fx-store/src/lib.rs`) | one file per result | store, read a range, search | called by tools of the agent loop |
| memory (`fx-store/src/memory.rs`) | one file of facts, one lock | list, save, clear | a tool |
| terminal monitors (`fx-process/src/monitor.rs`, `terminal_monitor_store.rs`) | per session a JSON file: monitors, event ring, cursor | add, update, pause, resume, remove, inspect, acknowledge, evaluate, end | called by host threads under one mutex |
| terminal host (`fx-process/src/terminal_host_server.rs`, `native_terminal.rs`) | sessions with retained output, `monitors_present`, cancellations | start, read, screen, write, wait, monitor, inspect, list, resize, signal, close | client threads, a supervisor thread, a reader and a waiter thread per session |
| host lifecycle (`terminal_host_server.rs`: `run`, `HostClient`) | a lock file, a socket | connect or spawn, idle exit | processes of the agent |
| tmux and foreground exec (`tmux_terminal.rs`, `lib.rs`, `sandbox.rs`) | held by tmux or by the child process | as above; one run per call | the operating system |
| agent loop (`fx-core/src/agent.rs`) | the messages of a run | a step: gateway request, tool batch | gateway, tools, approvals, cancellation |
| permissions (`fx-core/src/permission.rs`) | mode, rules, session grants | decide, grant, set mode | agent loop |
| context projection (`fx-core/src/context.rs`, `fx-context`) | delivered rule files | project, select | agent loop |
| runtime (`fx-runtime/src/lib.rs`) | session slots: a session under an async mutex, a cancellation flag, a mode | create, load, prompt, cancel, configure, close | store, agent loop, providers, subagents |
| subagents (`fx-subagent/src/lib.rs`) | children: snapshot, cancellation flag, queue | create, inspect, message, configure, relationship, lifecycle | runtime, its own persisted file |
| credentials (`fx-auth/src/lib.rs`) | one file and one lock per provider | lease, replace, delete | providers |
| providers (`fx-provider`) | the model catalog; stream readers | authenticate, refresh, logout, gateway | credentials, HTTP |
| file tools (`fx-tools`) | read evidence of the session | prepare, commit; read, search | the file system, outside writers |
| skills (`fx-tools/src/skills`) | installed directories | list, load, install | the file system |
| MCP (`fx-mcp`) | connected servers | connect, call | servers |
| front ends (`fx-cli`, `fx-tui`), configuration (`fx-config`), paths (`fx-workspace`) | drawing state, settings | | runtime |

### What is hard, and what makes each part correct

* **Session store.** Processes save concurrently, readers take no lock, and a
  save is four writes that can each be cut short. Correct: the directory always
  loads, a successful save is what is loaded next, a load returns a state the
  session had, older states do not replace newer ones; in short, it is an
  atomic register.
* **Terminal monitors and host.** Client threads, the supervisor, reader and
  waiter threads interleave between three mutexes and one atomic flag; the
  monitors outlive the host, the session does not; output is observed in
  chunks, late, and with gaps. Correct: no false match, no missed match,
  nothing after a lifetime, events never lost in silence, ended monitors stay
  ended, stored monitors are evaluated, nothing keeps an orphaned host alive.
* **Agent loop.** Cancellation between any two awaits, batches of which a part
  runs in parallel, failures of approvals. Correct: every tool call in a history
  gets exactly one result, nothing runs that was not admitted.
* **Runtime and subagents.** Flags that are reset by the next run, slots that
  are removed while in use, saves that fail half way, a manager restored from the
  file while the runs of its predecessor go on. Correct: a cancelled run
  stops, one run per session at a time, every queued child settles, no message
  is handed to two runs, no child exceeds the authority of the root.
* **Credentials and providers.** Leases with timeouts around network requests,
  rotation of tokens. Correct: the token stored is the last one issued, one
  refresh at a time.
* **Completions.** Items stream in as deltas, as finished items and once more at
  the end; requests are tried again; the turn may have gone on. Correct: text and
  calls are kept once and whole, a request is delivered once at most.
* **MCP.** Servers that fail half way, names that collide. Correct: what a
  session offers reaches the tool it names, and no server is missing in silence.
* **File tools.** Outside writers between check and rename. Correct: a commit
  replaces only what was reviewed.
* **Memory and skills.** Several processes write one profile and may die between
  two renames. Correct: what was reported as kept is there, and whole.
* **Terminals and hosts.** Sessions that outlive their caller, processes that
  retire while others connect. Correct: no terminal runs that nobody can reach,
  and no host goes from under a session.
* **Foreground exec.** Readers that end long after the shell. Correct: the answer
  shows what was written and how the command ended.
* **User interface.** One phase for several things under way. Correct: a prompt
  is sent once and in order, and the interface waits for what is out.

## 2. Modules

| module | models | abstract or detailed |
|---|---|---|
| `SessionRegister` | the `SessionStore` port of `fx-core/src/session.rs`: an atomic register with a replacement rule | abstract specification |
| `EventLog` | frames and well-formed prefixes of `events.jsonl` | definitions |
| `EventReplay` | the loop of `replay_committed`, frame by frame, against `EventLog` | algorithm |
| `SessionStore` | `save_sync` and `load_id` with crashes | detailed specification, implements `SessionRegister` |
| `SessionStoreProofs` | the theorems about it | proofs |
| `PatternFeed` | `pattern_feed`, the incremental matcher | algorithm |
| `Monitor` | one monitor: `Monitor::new`, `observe`, `timer_decision`, `pause`, `resume`, `degrade_for_raw_gap` | operators |
| `MonitorSet` | `PersistedMonitorSet` and `MonitorStore`: every operation from stored set to stored set | operators |
| `TerminalHost` | the threads of the host around them | specification |
| `TerminalProofs` | the theorems about it and `MonitorSet` | proofs |
| `Permissions` | `PermissionEngine::decide` | operators |
| `AgentLoop` | `run_controlled`: steps, tool batches, reviews, cancellation | actions of a turn |
| `RuntimeSession` | one session of `FxRuntime` behind the ACP dispatcher, around `AgentLoop` | specification |
| `RuntimeProofs` | types and cancellation of it | proofs |
| `ConversationProofs` | what the store, the session and the run hold of a conversation | proofs |
| `SubagentManager` | `fx-subagent`: the managers of a session's children, their runs, the snapshot file, restores | specification |
| `SubagentProofs` | the theorems about it | proofs |
| `Credentials` | the credential files, logins, refreshes and the registry's catalog | specification |
| `GatewayStream` | one completion: the abandoned thread, retries, the streams of both transports | specification |
| `McpClient` | the start of servers, the listing and naming of tools, their calls | specification |
| `ServicesProofs` | the theorems about `Credentials`, `GatewayStream`, `McpClient` and the types of `MCServices` | proofs |
| `FileTools` | the tools that change files, against the user's own changes | specification |
| `Memories` | the memory tool of several processes | specification |
| `SkillStore` | `install_skill` and the catalog of a session | specification |
| `ForegroundExec` | one command, its readers and its answer | specification |
| `NativeTerminal` | the sessions of `NativeTerminalHost` and their threads | specification |
| `TmuxTerminal` | the sessions of `TmuxTerminalHost` in a shared tmux server | specification |
| `HostLifecycle` | the processes of fx-terminal-host and the clients that connect or spawn | specification |
| `TuiApp` | the phases, queue, operations and dialogs of the user interface | specification |
| `Transcript` | the entries the user interface keeps | specification |
| `WorkplaceProofs` | the theorems about `FileTools` to `Transcript` above, `EventReplay` and `PatternFeed`, and of `MCWorkplace` as a whole | proofs |
| `NaturalLemmas` | induction, least elements and the first naturals, without an operator as a parameter | proofs |
| `MC...` | instances for TLC | |

`MCServices` and `MCWorkplace` put several specifications side by side in one
run and extend all of them. The parts share no state in the code either (or, as
the store and the provider, only through an interface another module abstracts),
so a behaviour is a behaviour of one of them, chosen by `part`; the parts are
composed for the sake of the run, and no claim is made about their interplay.

### SessionStore

One session directory, any number of savers and lock-free readers. An action is
one system call of consequence: take the lock, reject, truncate, append a frame
(or a torn one), sync, publish the watermark, write the manifest; a reader looks
for the watermark, reads it, reads the log, or reads the legacy file. `Crash`
kills a saver between any two, `PowerLoss` also drops or tears what was not
synced. A frame is the unit of length and a digest is the sequence it digests
(no collisions). Redaction is a function that is idempotent. The two sentinels
`Corrupt` and `Absent` are the results of `load_id` other than a session.

### TerminalHost

`Monitor` and `MonitorSet` are functions from value to value, so that each is
read against one function of the code: `EvaluateSet` is `evaluate_terminal` with
its passes in the order of the code (gap, output, timers, poll, lifecycle), and
it keeps the code's own notion of "changed", since only then is the set saved.
`TerminalHost` adds who calls them and when: every action holds one lock of the
code, and what a thread remembers between two locks is in `client[c]` or
`worker`. So `Sample` and `Operate` are two actions, as are `Count` (the store
is read) and `Flag` (the atomic is stored). `Look` takes the cursor that
`Request` read under the store lock; `Evaluate` works on the observation that
was taken in between. A failed write (`StoreFails`) ends a request; a failure of
the supervisor ends the host, which is a case of `Crash`. The bytes of the
process are single letters, appended at any time; an observation covers whatever
has accumulated, so chunks of every size occur.

The clock does not step back in the model. A matcher state is the set of
positions that the code keeps as a bit set. A probe answers yes or no. One
session is modelled; sessions share only the flag, the mutex and the idle exit.
An idle host stops in one step, whereas the code joins the supervisor after
releasing its lock (see the hazards).

### AgentLoop and RuntimeSession

`AgentLoop` has the variables of a turn (`run`, the flag, the permissions, the
delivered instructions) and one action per stretch between two points where the
turn looks at the flag or awaits. `RuntimeSession` extends it with the store,
the slot and the client. The server and the user interface run on a
current-thread executor, so other tasks run only where the turn awaits
something: `Yielded` names these places and guards the handlers. A review is one
of them; an answer of the user travels through the same ordered dispatch as
every other message, and `handler` is the message whose handler has not
returned. `HandleConfig`, `HandleClose` and `LoadBuilt` stop in front of the
lock of the session; `HandlerLocks` and `ConfigModelLocks` go on when it is
free. The lock is fair: a prompt is refused while a handler waits.

A text is the number of its deltas, so any two texts of the same length are the
same text; a tool call is a record of what the loop asks about it. Tools end,
with a result or an error. A call has one permission request. The store is an
atomic register whose write may fail; that the files behave so is the subject of
`SessionStore`. `ConfigModelSaved` writes the copy that was made before the
await, as the code does.

Left out: the yolo mode, which ACP offers no identifier for; the child executor;
the catalog refresh, which takes the lock for an instant; loading a session
from another directory.

### SubagentManager

A child is a record, a run is a member of `tasks`. fx runs on a current-thread
executor, so everything between two awaits is one action: a command, the start of
a run, a settle, a look of a waiting parent. `children` is what a manager has
in memory, `disk` what the snapshot file says. Every command saves; a save that
fails returns the error and leaves the memory as it was changed, as the code does.
A caller is a child that runs, or the root.

A session may have several managers. Loading it makes a new one from the file
(`fx-runtime/src/lib.rs:648`), and `close_session` (`:519`) neither cancels nor
waits for the runs of the old one: they go on with their own children, queues and
commands and save the same file. `Restore(others)` makes manager number
`restores`; `others` are those that live on. With none it is a host that has died,
with one a session that is closed and loaded again in one process, or loaded by a
second process. Every live manager takes commands of the root, since a second
process gives them too. `handed` counts per manager, and `shared` notes the
messages that were queued in the file when a manager was restored beside another:
the code hands those out by both, and `AtMostOnce` excepts them.

`ParentAnswered` and `ClosedStaysClosed` speak of the children each manager has in
memory. The file is what the manager that saved last has, so a child one of them
has closed may be open in the file, and in the next manager restored from it.

### Credentials, GatewayStream, McpClient

A worker of `Credentials` is a blocking thread in one call; a lease of a file is
held from the read to the write, across the request to the authorization server,
and whoever waits for it may give up. Tokens are numbers, `live` the refresh
tokens the server would take. In `GatewayStream` a message or an argument string
is two pieces, so that a delta, a finished item and the terminal event can each
bring a part, all, or the same again; the events of a provider come in any order
its protocol does not exclude. One assumption on it is not the code's: an item that
is added is empty. The code would take the text or the arguments of an added item
(`fx-provider/src/transport.rs:486`, `:500`) and append the deltas to them.
`McpClient` follows the configuration server by server; the pages, cursors and
collisions of names are inputs.

### FileTools, Memories, SkillStore

Each system call that another process can see or come between is an action. A
stamp stands for a file's identity (device, inode, size, times), which every
change renews. Between the last check and the rename the code cannot see a
change: `raced` is history for it, and `ReplacesWhatWasReviewed` excepts it.
`FileTools` resolves the path of a call anew each time, as the code does, and the
user may lead it elsewhere in between.

### ForegroundExec, NativeTerminal, TmuxTerminal, HostLifecycle

Bytes are numbered in the order in which they were written, so that a lost, a
doubled or a displaced byte shows. A session of `NativeTerminal` lives as long as
somebody refers to it: the map, or a call that has found it. In `ForegroundExec` a
background process of the command is a member of its process group; one that has
left the group survives the kill of the group, and is outside the model.

`TmuxTerminal` has no locks, since the code has none: each command of tmux and each
access to a file is an action. Every call begins with `Load`, which refuses when
there is no metadata or when they name a workspace that is no longer a directory
(`TmuxMetadata::validate`, also looked at by `write_metadata`); `WorkspaceGoes` and
`WorkspaceReturns` are somebody who removes or moves that directory and puts it
back. `remove_dir_all` is a step for each file and one for the directory: a crash
or a failure may come between them, and a call that loaded the metadata before may
write them again, after which the directory is not empty and stays, with
`session.json` and without `output.log`. `Entries`, `ListFails` and `List` are what
`list_tmux` would answer in the present state: it looks at the first `MaxListed`
directories (256), in any order, passes over one without metadata, and fails as a
whole when one has metadata but not its workspace or its log. History is kept of
sessions two calls were at work on together, or of a call or a removal that was cut
short (`disturbed`), and of those a failure has left in the server (`stray`).

`TmuxSound` says what the code does keep, and where it does not: a session in the
server is recorded, unless it is being started or stray, so that close reaches it
whenever its workspace is there; and every list that gets to its entry shows it,
unless the workspace of an entry of that list has gone, or a removal of one is
under way or was disturbed (section 5).

In `HostLifecycle` a session is the number of the connection that asked for it;
the process's supervisor and its monitors are in `TerminalHost`.

### TuiApp, Transcript

A prompt is the number of its Enter. A key is an action with the guard of the
paths in `handle_key` that lead to its effect; menus and the input line are left
out. An entry of the transcript is its kind, its key and its size.

## 3. Runs

| run | shows | bounds, and why they are enough |
|---|---|---|
| `session_store` | type, readability, saves are loaded, loads are consistent, committed prefix stable, implements the register | 2 savers (the third would wait for the same lock), 1 reader, sessions of one and two chunks, one secret to redact, a foreign identity; a log of 7 frames holds a commit, an aborted tail and a second commit |
| `terminal_events` | sets stay valid, no silent loss, ended stays ended | 2 clients, ring of 2 events and limit of 2 monitors (both overflow), all operations, acknowledgements |
| `terminal_output` | matches are real, none is missed | patterns `aab` and `aa` (self-overlapping), 4 bytes of which 3 are retained, so that a gap occurs; a screen monitor beside them |
| `terminal_timers` | quiet is quiet, nothing after a lifetime, monitors of a session that is gone end | a clock of 5 readings against spans of 1 and 2 and a lifetime of 3, pauses and resumes, one crash; one client, since two can bring about finding 2 |
| `runtime_session` | store, session and turn hold one conversation; nobody writes beside a prompt; a cancelled turn ends | 3 messages of the client, in any order and at any time, one waiting at once: two prompts and one request, a prompt and two requests (close and load), three prompts; a request and two reads that are asked about; one step per turn |
| `agent_turn` | results pair with calls, no result of a tool that ran is lost, nothing begins after a cancellation | one turn with a cancellation, or two turns; two steps each, so that a deferred change comes back; batches with provider calls, malformed ones, denied ones, a deferred one and parallel reads of which one is asked about |
| `services` | subagents: authority, delivery, waking; credentials: live tokens, refreshes; completions: faithful, delivered once; MCP: every tool named, no server missing | 2 children and the root, 4 commands and 1 mishap (a save that fails or a restore), so that a child under a child is moved, a run is cancelled and started again and a host restarts in between; where two managers live side by side the commands end with the third (`MaxBeside`), which is enough for a message to be queued, loaded and handed out by both; 3 workers of two processes, 3 operations and 3 tokens, so that one waits while another refreshes and a refresh overtakes a login; a message, two calls and a search with 1 retry; 2 servers with names that collide after the cut |
| `workplace` | files: only what was reviewed is replaced; the profile is kept; the interface is consistent; the answer of a command; no terminal out of reach, no host from under a session; the replay of a log; the pattern matcher | 2 callers everywhere, who meet in every lock and every gap; 2 files, 2 outside changes; 3 facts for a limit of 2; 2 installs, 2 faults; 3 prompts, 2 operations, 2 requests; 4 updates for a limit of 3 bytes; 4 bytes per stream against limits of 1 to 3; 2 sessions over a capacity of 1; in tmux 3 calls, 2 failures or crashes and a workspace that goes, 2 sessions within a list of 2 (the cut is covered by the proof, for every limit); 2 hosts and 4 connections, which a start and a close take; every sequence of up to 12 frames of two states; patterns up to 4 over two letters and both wildcards, texts up to 6 |
| `session_first_commit`, `terminal_flag`, `runtime_dispatch`, `agent_text` | a violation each: section 5 | |

Deadlock is checked where a run has no reason to stop. The instances of
`TerminalHost`, `RuntimeSession`, `MCServices` and `MCWorkplace` reach the bounds
on time, output, calls or messages and stop there, so they set
`CHECK_DEADLOCK FALSE`. Every property of a
passing run has a mutant of the code (`PROJECT.json`, "mutants") that the run
finds.

`MaxEventId` stops clients from sending operations once that many events were
recorded; events of the supervisor are not bounded by it. `MaxTime`,
`MaxOutput`, `MaxFrames` and `MaxCrashes` bound the clock, the output, the log
and the crashes.

`MatchSound` is checked where monitors are not paused (`terminal_output`): a
pause breaks it (section 5). `MaxText`, `MaxSteps`, `MaxMessages` and `MaxInbox`
bound a turn and its client; a limit of steps is part of the program, which also
knows none.

### Fairness

`OrphansEnd` in `terminal_timers` and `CancelEnds` in `runtime_session` need it.
`CancelEnds` assumes `WF` of `Moves`: what a turn does without anybody outside
it. The store answers, tools end, the relay of the gateway polls the flag every
10 ms, and the wait for a review ends with the flag. Nothing is assumed of the
user, the client or the provider.

For `OrphansEnd`, the threads of the host are scheduled by the
operating system and none of the waits between two locks is unbounded, so a
request that has begun ends and a pass of the supervisor ends; the supervisor
polls every 10 ms while the flag is up. `Fairness` states this as recurrence (a
thread is idle again and again) instead of `WF` of its steps: each step stays
enabled until it is taken, so the two say the same, and the recurrence spares
TLC the evaluation of `ENABLED` on `EvaluateSet`. Nothing is assumed of the
process, the clients, the clock, crashes or restarts.

## 4. Proofs

`SessionStoreProofs` proves for every set of savers, readers, identities, texts,
calls and legacy sessions, from the assumptions named in `EventLog` and
`SessionStore`:

* `TypeCorrect`: the type invariant. `TInv` strengthens it by mutual exclusion
  past the lock (`Exclusive`) and by what a reader has seen (`Attentive`):
  without them an append could not be shown to continue a committed prefix.
* `AlwaysReadable`, `SavesAreLoaded`: from the inductive invariant `IInv`. Its
  core is `CommittedOK` (the watermark describes a durable, well-formed prefix
  of the log) and `DigestOK` (what a saver past the lock has digested is exactly
  what lies in the log: the committed prefix and then its own frames in order).
  `Readable` alone says nothing of the uncommitted tail, and publishing a
  watermark needs just that.
* `PrefixIsStable`: from `CommittedOK`, which says where the committed prefix ends.
* `Refinement`: every step of the directory is a step or a stutter of
  `SessionRegister`, with the value it would load as the value of the register.
* `LoadsAreConsistent`: a lock-free load returns a state the session had while
  the load ran, unless the first commit overtook it. `LInv` adds to `IInv` what
  each reader may still return.

All but `TypeCorrect` assume `FreshResave`: no caller saves a legacy session exactly as it was loaded. The
store alone does not ensure it (section 5); the runtime does, since it stamps
every save with the current time.

`SubagentProofs` proves for any names, messages, modes of the root and bounds,
from `ManagerAssumption` (the root and "nobody" are no children, the names are
finitely many, the generic prompt of a resumed child is no message of a user,
modes are 0 to 2):

* `AuthorityHolds`: nobody has a mode above the root's and parent links close no
  circle. The two parts are inductive only together with `Anchored`: every
  parent exists, in memory and in the file. Without it a create could draw the
  name of a parent that is not there and close a circle by it. The argument for
  a move is the set the walk of `relationship_would_cycle` goes through: it is
  closed under parents and does not hold the child, so whatever set would be
  closed after the move has a smaller one that was closed before. Saves may fail,
  the host may die and managers may overwrite one another's file, so `IInv` claims
  `Sound` of the memory of every manager and of the file on their own, and of the
  runs that their rank is bounded and their child exists (`TasksOK`).
* `ClosedChildren`: each step that takes a child of a manager out of "archived"
  leaves the runs as they are; a restore adds a manager, which had no children.
* `ManagerTyped`: the type invariant, from the same `IInv`.
* `ParentsAreAnswered`, `HandedAtMostOnce`: both follow from `IInv /\ Delivery`.
  `ParentAnswered` is inductive given the types. For `AtMostOnce` a message must
  be followed on its whole way. `Singly` says it of each manager, whatever fails:
  the message lies in one queue at one place, or with one task, or was handed to
  an executor, never two of them. A restore brings that about because the file,
  whoever wrote it, has a message in one queue at most (`FileOnce`) and the new
  manager has handed out nothing (`Unused`). Between managers `Exclusive` needs
  that no save fails: the file then has what some live manager has, so a message a
  restored manager reads was queued with one manager, which lives on, and then the
  message is in `shared`, or has gone with its queue.
* `WalksSuffice`: the walks that the code cuts off after `children.len()` links
  have met every ancestor. A walk that had not left the children after that many
  links would have been at one of them twice (pigeonhole), and the children
  between the two visits would be closed under parents, which `Authority`
  excludes.

`RuntimeProofs` and `ConversationProofs` prove about `RuntimeSession`, the turn of
`AgentLoop` included, for any rules, batches of tool calls, models and bounds,
from `RulesAssumption`, `AgentAssumption` and `RuntimeAssumption` (the constants
have their types; there is a step and a default model):

* `TypeInvariant`: the types, the lock that is the prompt's exactly while a turn
  runs, and what a batch in progress looks like (`RunOK`: the outcomes and the
  group that is being admitted never reach past the calls). Every index the turn
  uses is in range by it.
* `Cancellation`: no request goes out and no tool starts while the flag is up, one
  case per step of the turn, the client and the handlers, given the types.
* `Nesting` (`HistoriesNest`): what the store, the session and the run hold are
  prefixes of one conversation when the delivered instructions are left out
  (`Talk`). `NestOK` says where they may differ at all: the store falls behind the
  session only by a save that failed, the session behind the run only in a turn.
* `Answering` (`CallsAnswered`): every call of an answer has its result, in the
  order of the calls, or none has after a cancellation. `AnswersOK` adds the batch
  that is under way: the last message of the run is the answer whose calls it
  works on, and whatever is before it is answered. It is claimed of the store, the
  session and the run, since a load takes the first for the second and an error
  discards the third.
* `Keeping` (`TurnKept`): a turn that ends without an error has the result of
  every tool that ran in it, and, unless it was cancelled, the text the user saw
  and as many results as calls. `KeptOK` keeps the books from the prompt on: what
  ran is the results in the messages and the outcomes under way, what was seen is
  the text in the messages and the partial answer, what was called is the results
  in the messages and the calls under way. The sums are `SincePrompt`, of which
  the proof needs what an append and a prompt do to them.

`ServicesProofs` proves about `Credentials`, for any workers, processes, catalogs
and bounds, from `CredentialsAssumption`:

* `TokensAreLive`: while no answer of the authorization server is lost, the
  refresh token in the file is one the server takes, or its successor is with the
  worker that holds the lease. The invariant is about places: a live token is in
  the file or with one worker (`PlaceOK`), a lease is with the worker that is in
  it (`LeaseOK`), what it read is still in the file (`ReadOK`), and the next token
  is new (`FreshOK`). With two copies of a token one worker would spend the
  other's.
* `RefreshesReplaceTheirOwn`: a refresh writes over the expired credential it read;
  by `ReadOK`, since nobody else writes while the lease is held.
* `ListedCanBeUsed`: what the registry lists is accepted; `RegistryOK` follows the
  catalog through a refresh that another overtakes.
* `StoreTyped`: the types.

about `McpClient`, for any servers, tools, names and limits, from `McpAssumption`:

* `McpIsComplete` (`McpComplete`): every server that was to be started is connected
  or warned of, and a tool that a connected server offered has a name that leads to
  it, or the listing failed. `DealtOK` says it of the servers whose turn is past,
  `NamedOK` of the tools of those that were listed, the one in between included
  (what is not yet named is still in the listing), and `RoomOK` bounds the tools by
  the servers listed, so that a tool can always be given a number that is free.

about `GatewayStream`, for any items, styles of transport, fragments and retries,
from `GatewayAssumption`:

* `AnswersAreFaithful` (`StreamFaithful`): what is answered is what was streamed: the
  text in its order and once, every call that was ended with all of its input. The
  invariant follows the calls from the wire to the answer: which are pending and how
  much of their input has come (`PendingOK`), which are done (`CallsOK`), what text
  was shown (`TextOK`), which were announced (`BegunOK`). For the last item of
  Codex's transport, which holds the whole output again, the proof takes the items
  one after the other and shows that those already there change nothing.
* `RequestsGoOnce` (`DeliveredOnce`): nothing is sent again that may have been
  delivered, by `PostedOK`: a request has been posted once when the stream is open,
  and not at all when the answer says so.

and about the three and the subagents together `ServicesAreTyped`
(`ServicesTypeOK`): a behaviour of `MCServices` is a behaviour of each part, so the
types are those of the parts' invariants.

`TerminalProofs` proves about `TerminalHost` and the operations of `MonitorSet`,
for any clients, definitions and bounds, from `StoreAssumption` and
`HostAssumption` (the bounds are naturals; the monitors of a session at its start
are a finite list; a pattern is a text and a span a number, as `validate` has it):

* `TypeCorrect`, `LossesAreTold`, `EndsAreFinal`: from `IInv`, which says of a
  stored set that its log is the newest events without a hole, that the event
  before the log is the last one acknowledged or the last one dropped, that the
  ids of the monitors rise and are below the next, and that a monitor with a final
  event is no longer stored. `validate` accepts such a set; the code's own check is
  weaker than what its operations keep.
* `ExpiredAreSilent`: a monitor past its lifetime records its expiry and nothing
  else, in any step but a client's own operation on it. An evaluation is five
  passes over the monitors in the order of the code; `Carries` relates the set in
  the middle of an evaluation to the set it began with: it is a valid set, no
  deadline has moved, and whatever was recorded since about a monitor that was due
  is its expiry. Each pass keeps it, by induction over the monitors. `SetMoves`
  says of every step of the host that it leaves the set, starts a new one, or adds
  events only of those kinds.
* `MatchesAreReal` (`MatchSound`) where `"pause" \notin Kinds`, since a pause
  breaks it (section 5), and `QuietIsReal` (`QuietSound`) where `"update" \notin
  Kinds`, since the events of a monitor that was given another condition tell of
  the one it had. Both rest on a second invariant, `ReadOK`: what an
  observation shows is the stretch of the output it names (`Seen`), whatever was
  written since; no thread is ahead of the output; and every stored monitor `Fits`
  the output up to the cursor of the set: the prefixes an automaton is in are ones
  that output ends with (`Ends`), a matched literal is in it (`Holds`), and the
  next check of a monitor on quiet is a span after its last byte (`Waits`).
  Neither property is inductive without the cursor: inside an evaluation the
  monitors that have heard of the chunk fit its end and the others its start
  (`Fine` keeps the two apart by the ids of the first), until the cursor moves; a
  gap moves all of them at once, which is right because it empties every automaton
  and every timer (`Deafens`).

`WorkplaceProofs` proves for any agents, users, files, skills, processes, hosts and
bounds, from the assumptions named in each module (bounds are naturals, "free" is
nobody's name, what stands for no state is none):

* `EditsReplaceTheirPreview`: a write or an edit is put in place of the content its
  preview showed. `LooksOK` carries it over the gap between the last check and
  the rename: the file is still what was checked, or the change was recorded in
  `raced`, which excepts the very race the code cannot see. A call that lasts, a
  link that is led elsewhere, a file that was deleted and made again and a second
  agent in the same gap all fall under it.
* `NoTerminalIsLost` (`TerminalsSound`), of three:
  `NativeIsSound`: a shell that runs is held by the map of sessions, by a call, or
  was told to hang up (`ShellOK`, `OpOK`); the capacity is exceeded by one for each
  further thread at most (`RoomOK` counts the sessions in the map with the calls
  that were let in); and what is kept of a shell's output is a stretch up to the
  last byte (`RawOK`).
  `TmuxIsSound`: a session in the server is recorded, is being started, or was left
  there by a failure, and what is recorded is next to its log unless a removal is
  under way or was disturbed (`PaneOK`); a session that is being started is its
  starter's alone (`BeginsOK`); a call works with what it loaded, which is what is
  recorded unless the session was disturbed (`WorksOK`); a removal is of a session
  that has been killed, left or never made (`RemovesOK`); no text is pasted twice
  (`PasteOK`). That a list shows the session follows from these for any choice of
  the entries it looks at.
  `HostsAreSound`: a host that retires has no session, and a client's session is
  with the host it asked until that breaks. `ProcessInv` follows the lock, the
  socket and who can still be connected to a process, `ClientInv` whose each
  connection is, which the first needs to know that a session still has an owner.
* `NothingKeptIsLost` (`ProfileKept`), of two: `MemoryIsKept`, for which it is enough
  that whoever has read the facts holds the lock; and `SkillsAreKept`, where a skill
  that was there is in its place, or is the backup of who replaces it, or of one who
  died doing so (`SkillOK`), and who replaces it holds its lock and has a whole tree
  to put there (`WorkOK`).
* `CommandsAreAnswered` (`ExecSound`): the answer shows the beginning and the end of
  what was written, and how the command ended. `ReadersOK` says that what is
  captured of a stream is a function of how much of it was read (its first half
  limit and its last, `HeldBytes`); that a chunk of any size keeps it so, and that
  the rendered answer is what is promised of such a capture, are lemmas about
  intervals.
* `InterfaceIsSound` (`InterfaceSound`), of two: `InterfaceWaits`, by `PhaseOK` and
  `QueueOK` (what waits has something in flight; the prompts not sent yet are the
  queue, in order); and `TranscriptIsIndexed`: the count of bytes is the sum over the
  entries, the index leads each tool to its newest card, the selection is on an entry
  or none, through appending, growing, replacing and trimming from the front.
* `LogsAreReplayed` (`LoopReadsPrefix`): the replay loop accepts just the well-formed
  prefixes of the log and returns what the last replacement committed. The loop
  looks at one frame and at the replacement that is pending; `ReplayInv` says what
  it then knows of all frames before: they are in order, what is pending is the
  last frame's replacement with the part that frame had, and what is committed is
  what the last whole replacement held.
* `PatternsAreFound` (`FoundIffContained`): the matcher reports a pattern exactly when
  the output fed so far contains a stretch that matches it, whatever the pattern and
  the chunks. `Ending` says where the first k tokens can end in a text, which goes
  by tokens; the matcher goes by bytes. `Reach` is what the places it has reached
  after a byte mean in those terms (the first k tokens end here, or a star after
  them is under way), and `ReachAdvances` shows that a byte leads from one such set
  to the next; `EndsAgree` that later output changes nothing of it. A pattern that
  is found in nothing (all stars) is reported with the first byte.
* `WorkplaceIsTyped` (`WorkplaceTypeOK`): the types and the bounds of the counters.
  For most parts they are in the invariants above; the files need `StampsOK` (the
  stamps given are at most the changes begun, of which each call that is under way
  has one to come), the hosts that a session is numbered by its connection
  (`HostedOK`), the shells who reads and waits for each (`ThreadsOK`).

Each part is proved from its own specification, and `WorkplaceParts` shows that a
behaviour of `MCWorkplace` is one of each.

Induction over data is done by counting: `SetInduction` in `NaturalLemmas` says
that a set of naturals with 0 and every successor is all of them. The walks, the
sums of `SincePrompt`, the passes of an evaluation, the bytes of a transcript, the
replay loop and the matcher are recursive functions, and each proof first shows
that the function the definition chooses exists. This works for functions over a
length, not for the library's induction theorems or folds.

Only model-checked:

* liveness: `OrphansEnd`, `CancelEnds`, with their fairness;
* `OutputHeard`: it needs the opposite of `ReadOK`, that an automaton is in every
  prefix the output ends with, which holds of monitors there from the start that
  were never paused, changed or degraded and have not reached their lifetime, and
  only while one evaluation records no more events than the ring holds.

## 5. Findings

Each is a run that TLC ends with a counterexample, quoted in `PROJECT.json`.

1. `session_first_commit`: `load_id` looks for the watermark and then reads
   `session.json`, without a lock. A first save in between makes it report a
   healthy session as corrupt. The next load succeeds.
2. `terminal_flag`: `refresh_monitors_present` stores the flag after releasing
   the lock under which it counted. Two refreshes that cross leave the flag down
   with a monitor stored: nobody evaluates it and the host may retire.
3. `runtime_dispatch`: the handlers of configure, close and load wait for the
   lock of the session inside the ordered dispatch. While the prompt that holds
   it waits for an approval, the answer and a cancellation queue up behind the
   handler: neither ends. A close and a load raise the flag first and so end the
   turn, unless it was about to reset the flag (`GatewayReady`).
4. `agent_text`: a partial answer is not kept when it equals the last assistant
   text in the history, even one of an earlier turn; and a failure keeps nothing
   of the steps of its turn before the one that failed.

Seen while modelling, and not kept as runs:

* Saving a legacy session unchanged replaces it by a manifest that needs a log
  there is not (`fx-store/src/lib.rs:367`); the session is lost. Not reachable
  through the runtime, which changes the time of every save. The proofs assume
  it away (`FreshResave`).
* A request to the terminal host that samples `exited` before the supervisor does
  stores it as the last lifecycle; the supervisor sees no transition, and
  monitors on the exit never fire (`terminal_monitor_store.rs:269`).
* A paused monitor keeps its matcher state, and after the resume it matches text
  from before the pause joined with text from after it
  (`terminal_monitor_store.rs:503`).
* The count of a quiet check that decides nothing is not saved, so
  `every_n_checks` with 3 or more never fires on `output_quiet`
  (`terminal_monitor_store.rs:572`).
* A cancellation between the lock of a session and the reset of its flag is lost
  (`fx-runtime/src/lib.rs:708`); `CancelEnds` speaks of the time after the reset.
* A turn cancelled when its response has just arrived leaves calls without
  results in the history (`fx-core/src/agent.rs:272`), which `CallsAnswered`
  allows.

* A save that fails after a child was set to queued leaves it queued with nothing
  to run it, and no waiting parent is woken (`fx-subagent/src/lib.rs:208`);
  `ParentAnswered` speaks of runs whose saves succeed.
* A token the authorization server has rotated is lost when the write of the new
  one fails or the process dies before it (`fx-provider/src/codex.rs:141`); the
  user must log in again. `SavedTokenIsLive` speaks of runs without such a loss.
* Two calls that start native sessions at the limit both pass the check of the
  capacity, which is looked at and used under two locks
  (`fx-process/src/native_terminal.rs`); `NativeSound` states the bound that
  holds, one more for each further thread.
* A session that is closed and loaded again in one process has two managers of its
  child agents (`fx-runtime/src/lib.rs:519`, `:648`): the runs of the old one go
  on. A message that was queued is handed out by both, and each save replaces the
  other's. `AtMostOnce` excepts these messages as `shared`.
* A start in tmux that fails or is killed before its metadata is written leaves a
  session in the server that fx never lists (`fx-process/src/tmux_terminal.rs:155`),
  which `TmuxSound` excepts as `stray`.
* When the workspace of a tmux session is removed or moved, every call on the
  session fails, close included, and so does every list, of all sessions
  (`tmux_terminal.rs:786`, `:448`). The session is in the server and recorded, and
  can be closed only when the workspace is there again.
* A removal of a session's directory that is cut short, or that a concurrent read
  writes the metadata into, may leave `session.json` without `output.log`
  (`tmux_terminal.rs:550`, `:253`), after which every list fails (`:716`).
* A list looks at 256 directories in no order (`tmux_terminal.rs:438`), those
  without a session among them; a session beyond them is not shown.
* A native session is forgotten when its shell has been signalled, not when it
  has ended; `NativeSound` asks of such a shell only that it was (`hung`).
* A spawned host that meets the lock of one that is retiring ends with success;
  its client polls on and times out, though nothing failed
  (`terminal_host_server.rs:221`, `:401`).
* Outside changes between the last check and the rename are overwritten
  (`fx-tools/src/file_mutation.rs`); no check can see them.

## 6. Not modelled, and the plan

1. Proofs: `OutputHeard` of a `TerminalHost` whose monitors are neither added later,
   paused nor changed, have no lifetime, and whose ring holds the events of an
   evaluation.
2. `SafeRetryGateway` in front of the provider inside `AgentLoop`; several
   sessions and the child executor in `RuntimeSession`.
3. `TerminalHost`: several sessions, the directory of monitor files.
4. `ContextProjector`, the listing of sessions, the store of tool results.

Left out within the modelled components: see the notes in `PROJECT.json`. In
`HostLifecycle` a start always succeeds, requests are not cancelled, and
monitors do not keep a host up. In `SkillStore` the user's own directories, in
`TuiApp` menus and editing, in `GatewayStream` reasoning, usage and limits of
size are not there.

Left out for good: parsers and projections (configuration, skills' front matter,
JSON of the protocols, the chunks of server-sent events), drawing, path
resolution, probes, sandbox profiles and redaction patterns, which have no state
or whose behaviour is that of the operating system; searches and web pages,
which are stateless; MCP and ACP framing, which are libraries.
