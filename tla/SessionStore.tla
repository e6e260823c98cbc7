---------------------------- MODULE SessionStore ----------------------------
(***************************************************************************)
(* The event-log store of one session directory (fx-store/src/lib.rs).     *)
(*                                                                         *)
(*   events.jsonl  log        frames appended in place, truncated to the   *)
(*                            committed prefix before each save            *)
(*   commit.json   watermark  replaced atomically, publishes a log prefix  *)
(*   session.json  manifest   listing projection; before the first commit  *)
(*                            it may be a legacy (schema 1 or 2) session   *)
(*   session.lock  lock       advisory lock held by one saver              *)
(*                                                                         *)
(* Savers are processes that call save_sync; readers call load_id and take *)
(* no lock.  Any of them may be killed, a write may fail, and power may be *)
(* lost, which drops what was not yet synced.                              *)
(*                                                                         *)
(* Abstractions.  A frame is the unit of length: event_log_bytes and       *)
(* last_event_seq both count frames.  A digest is the sequence it digests. *)
(* EventLog says what a frame and a session state are.                     *)
(***************************************************************************)
EXTENDS EventLog

CONSTANTS
  Savers, Readers,
  Scrub,       \* fx_core::redact_secrets on a session's text
  Calls,       \* the sessions that callers pass to save
  Legacy,      \* schema 1 and 2 sessions that may lie in session.json at first
  MaxFrames,   \* bound: no save starts once the committed prefix is this long
  Absent,      \* NotFound
  Free         \* a lock nobody holds

\* What commit.json and session.json hold.
Watermarks == [frames : Nat, digest : Seq(Frames)]
Manifests == [schema : {1, 2, 3}, state : SessionState]

ASSUME DataAssumption ==
  /\ Scrub \in [Texts -> Texts]
  /\ \A t \in Texts : Scrub[Scrub[t]] = Scrub[t]
  /\ Calls \subseteq SessionState
  /\ Legacy \subseteq SessionState
  /\ MaxFrames \in Nat

ASSUME SentinelAssumption ==
  /\ Absent \notin SessionState \union {Corrupt, None}
  /\ None \notin Watermarks \union Manifests
  /\ Free \notin Savers

VARIABLES
  log,         \* events.jsonl: a sequence of frames
  synced,      \* how many of them sync_all has made durable
  watermark,   \* commit.json or None
  manifest,    \* session.json or None
  lock,        \* the saver that holds session.lock, or Free
  pc,          \* where each saver is in save_sync
  request,     \* the session each saver was called with
  hashed,      \* log_hash of each saver: the frames it has digested so far
  reader       \* each reader's progress through load_id

disk == <<log, synced, watermark, manifest>>
savers == <<lock, pc, request, hashed>>
vars == <<disk, savers, reader>>

-----------------------------------------------------------------------------
\* replay_committed against watermark w.
Replay(l, w) ==
  IF /\ w.frames <= Len(l)
     /\ SubSeq(l, 1, w.frames) = w.digest
     /\ WellFormed(SubSeq(l, 1, w.frames))
  THEN l[w.frames].state
  ELSE Corrupt

\* load_legacy_optional: a v3 manifest without a watermark is corrupt.
LoadLegacy(m) ==
  IF m = None THEN Absent ELSE IF m.schema = 3 THEN Corrupt ELSE m.state

\* load_id, executed in one piece.
Loaded ==
  IF watermark # None THEN Replay(log, watermark) ELSE LoadLegacy(manifest)

CommittedFrames == IF watermark = None THEN 0 ELSE watermark.frames

\* redact_durable_session.
Stored(s) == [s EXCEPT !.text = Scrub[s.text]]

\* Mutant: any session may replace another.
MayReplaceAny(previous, next) == TRUE

\* validate_replacement.
MayReplace(previous, next) ==
  /\ next.identity = previous.identity
  /\ next.updated >= previous.updated

-----------------------------------------------------------------------------

IdleReader == [at |-> "idle", wm |-> None, seen |-> {}, got |-> Absent]

Init ==
  /\ log = << >>
  /\ synced = 0
  /\ watermark = None
  /\ manifest \in {None} \union [schema : {1, 2}, state : Legacy]
  /\ lock = Free
  /\ pc = [p \in Savers |-> "idle"]
  /\ request = [p \in Savers |-> None]
  /\ hashed = [p \in Savers |-> << >>]
  /\ reader = [r \in Readers |-> IdleReader]

Goto(p, label) == pc' = [pc EXCEPT ![p] = label]

\* save_sync is left: its locals and its lock file are dropped.
Leave(p) ==
  /\ Goto(p, "idle")
  /\ lock' = IF lock = p THEN Free ELSE lock
  /\ request' = [request EXCEPT ![p] = None]
  /\ hashed' = [hashed EXCEPT ![p] = << >>]

BeginSave(p) ==
  /\ pc[p] = "idle"
  /\ CommittedFrames < MaxFrames
  /\ \E s \in Calls : request' = [request EXCEPT ![p] = s]
  /\ Goto(p, "lock")
  /\ UNCHANGED <<disk, lock, hashed, reader>>

\* Mutant: the lock is taken whoever holds it.
LockSessionAnyway(p) ==
  /\ pc[p] = "lock"
  /\ lock' = p
  /\ Goto(p, "open")
  /\ UNCHANGED <<disk, request, hashed, reader>>

LockSession(p) ==
  /\ pc[p] = "lock"
  /\ lock = Free
  /\ lock' = p
  /\ Goto(p, "open")
  /\ UNCHANGED <<disk, request, hashed, reader>>

\* lock_session gives up after LOCK_TIMEOUT.
LockTimeout(p) ==
  /\ pc[p] = "lock"
  /\ lock # Free
  /\ Leave(p)
  /\ UNCHANGED <<disk, reader>>

\* The existing state does not load, or the new one may not replace it.
RejectSave(p) ==
  /\ pc[p] = "open"
  /\ Loaded # Absent
  /\ Loaded # Corrupt => ~MayReplace(Loaded, Stored(request[p]))
  /\ Leave(p)
  /\ UNCHANGED <<disk, reader>>

\* Nothing to write but the projection.
KeepState(p) ==
  /\ pc[p] = "open"
  /\ Loaded = Stored(request[p])
  /\ Goto(p, "project")
  /\ UNCHANGED <<disk, lock, request, hashed, reader>>

\* Mutant: frames are written from the start of the file, not its committed end.
TruncateWithoutSeek(p) ==
  /\ pc[p] = "open"
  /\ Loaded # Corrupt
  /\ Loaded # Stored(request[p])
  /\ Loaded # Absent => MayReplace(Loaded, Stored(request[p]))
  /\ log' = SubSeq(log, 1, CommittedFrames)
  /\ synced' = CommittedFrames
  /\ hashed' = [hashed EXCEPT ![p] = << >>]
  /\ Goto(p, "append")
  /\ UNCHANGED <<watermark, manifest, lock, request, reader>>

\* Drop an uncommitted tail and start the digest from the committed prefix.
TruncateLog(p) ==
  /\ pc[p] = "open"
  /\ Loaded # Corrupt
  /\ Loaded # Stored(request[p])
  /\ Loaded # Absent => MayReplace(Loaded, Stored(request[p]))
  /\ log' = SubSeq(log, 1, CommittedFrames)
  /\ synced' = CommittedFrames
  /\ hashed' = [hashed EXCEPT ![p] = SubSeq(log, 1, CommittedFrames)]
  /\ Goto(p, "append")
  /\ UNCHANGED <<watermark, manifest, lock, request, reader>>

\* What write_event puts at the saver's offset in the log.
WriteAt(n, f) ==
  IF n < Len(log) THEN [log EXCEPT ![n + 1] = f] ELSE Append(log, f)

\* Mutant: the part is counted from one too low.
NextFrameShifted(p) ==
  [seq   |-> Len(hashed[p]) + 1,
   part  |-> Len(hashed[p]) - CommittedFrames - 1,
   state |-> Stored(request[p])]

NextFrame(p) ==
  [seq   |-> Len(hashed[p]) + 1,
   part  |-> Len(hashed[p]) - CommittedFrames,
   state |-> Stored(request[p])]

\* write_event, once for started, for each chunk and for committed.
AppendFrame(p) ==
  /\ pc[p] = "append"
  /\ log' = WriteAt(Len(hashed[p]), NextFrame(p))
  /\ hashed' = [hashed EXCEPT ![p] = Append(@, NextFrame(p))]
  /\ Goto(p, IF NextFrame(p).part = LastPart(Stored(request[p])) THEN "sync" ELSE "append")
  /\ UNCHANGED <<synced, watermark, manifest, lock, request, reader>>

\* A write that fails may leave part of the frame behind.
AppendFails(p) ==
  /\ pc[p] = "append"
  /\ log' \in {log, WriteAt(Len(hashed[p]), Torn)}
  /\ Leave(p)
  /\ UNCHANGED <<synced, watermark, manifest, reader>>

\* Mutant: the log is published without sync_all.
SyncLogSkipped(p) ==
  /\ pc[p] = "sync"
  /\ Goto(p, "publish")
  /\ UNCHANGED <<disk, lock, request, hashed, reader>>

SyncLog(p) ==
  /\ pc[p] = "sync"
  /\ synced' = Len(log)
  /\ Goto(p, "publish")
  /\ UNCHANGED <<log, watermark, manifest, lock, request, hashed, reader>>

\* The digested frames become the committed prefix in one rename.
Publish(p) ==
  /\ pc[p] = "publish"
  /\ watermark' = [frames |-> Len(hashed[p]), digest |-> hashed[p]]
  /\ Goto(p, "project")
  /\ UNCHANGED <<log, synced, manifest, lock, request, hashed>>
  /\ reader' = [r \in Readers |->
                  IF reader[r].at = "idle" THEN reader[r]
                  ELSE [reader[r] EXCEPT !.seen = @ \union {Loaded'}]]

\* sync_all or the atomic write of the watermark fails before the rename.
CommitFails(p) ==
  /\ pc[p] \in {"sync", "publish"}
  /\ Leave(p)
  /\ UNCHANGED <<disk, reader>>

\* write_manifest_best_effort.
WriteManifest(p) ==
  /\ pc[p] = "project"
  /\ manifest' = [schema |-> 3, state |-> Stored(request[p])]
  /\ Leave(p)
  /\ UNCHANGED <<log, synced, watermark, reader>>

ManifestFails(p) ==
  /\ pc[p] = "project"
  /\ Leave(p)
  /\ UNCHANGED <<disk, reader>>

\* The process is killed: the kernel releases its lock, the files stay.
Crash(p) ==
  /\ pc[p] # "idle"
  /\ Leave(p)
  /\ UNCHANGED <<disk, reader>>

\* Every process dies, and of the frames that were not synced only a prefix
\* survives, the last of it possibly torn.
PowerLoss ==
  /\ \E n \in synced..Len(log) :
       \/ log' = SubSeq(log, 1, n)
       \/ n < Len(log) /\ log' = Append(SubSeq(log, 1, n), Torn)
  /\ lock' = Free
  /\ pc' = [p \in Savers |-> "idle"]
  /\ request' = [p \in Savers |-> None]
  /\ hashed' = [p \in Savers |-> << >>]
  /\ reader' = [r \in Readers |-> IdleReader]
  /\ UNCHANGED <<synced, watermark, manifest>>

-----------------------------------------------------------------------------
(* load_id takes no lock.  seen collects the states that the directory     *)
(* held while the load ran; it is a history variable.                      *)

BeginLoad(r) ==
  /\ reader[r].at = "idle"
  /\ reader' = [reader EXCEPT ![r] = [IdleReader EXCEPT !.at = "check", !.seen = {Loaded}]]
  /\ UNCHANGED <<disk, savers>>

\* Mutant: session.json is read although there is a watermark.
CheckWatermarkNever(r) ==
  /\ reader[r].at = "check"
  /\ reader' = [reader EXCEPT ![r].at = "legacy"]
  /\ UNCHANGED <<disk, savers>>

CheckWatermark(r) ==
  /\ reader[r].at = "check"
  /\ reader' = [reader EXCEPT ![r].at = IF watermark # None THEN "watermark" ELSE "legacy"]
  /\ UNCHANGED <<disk, savers>>

ReadWatermark(r) ==
  /\ reader[r].at = "watermark"
  /\ reader' = [reader EXCEPT ![r].at = "log", ![r].wm = watermark]
  /\ UNCHANGED <<disk, savers>>

Finish(r, result) ==
  reader' = [reader EXCEPT ![r].at = "done", ![r].got = result]

ReadLog(r) ==
  /\ reader[r].at = "log"
  /\ Finish(r, Replay(log, reader[r].wm))
  /\ UNCHANGED <<disk, savers>>

ReadLegacy(r) ==
  /\ reader[r].at = "legacy"
  /\ Finish(r, LoadLegacy(manifest))
  /\ UNCHANGED <<disk, savers>>

EndLoad(r) ==
  /\ reader[r].at = "done"
  /\ reader' = [reader EXCEPT ![r] = IdleReader]
  /\ UNCHANGED <<disk, savers>>

-----------------------------------------------------------------------------

Save(p) ==
  \/ BeginSave(p) \/ LockSession(p) \/ LockTimeout(p)
  \/ RejectSave(p) \/ KeepState(p) \/ TruncateLog(p)
  \/ AppendFrame(p) \/ AppendFails(p)
  \/ SyncLog(p) \/ Publish(p) \/ CommitFails(p)
  \/ WriteManifest(p) \/ ManifestFails(p) \/ Crash(p)

Load(r) ==
  \/ BeginLoad(r) \/ CheckWatermark(r) \/ ReadWatermark(r)
  \/ ReadLog(r) \/ ReadLegacy(r) \/ EndLoad(r)

Next == (\E p \in Savers : Save(p)) \/ (\E r \in Readers : Load(r)) \/ PowerLoss

Spec == Init /\ [][Next]_vars

-----------------------------------------------------------------------------

Labels == {"idle", "lock", "open", "append", "sync", "publish", "project"}
LoadLabels == {"idle", "check", "watermark", "log", "legacy", "done"}
Results == SessionState \union {Absent, Corrupt}

\* Types of the files and of the local state of savers and readers.
TypeOK ==
  /\ log \in Seq(Frames)
  /\ synced \in Nat
  /\ watermark \in Watermarks \union {None}
  /\ manifest \in Manifests \union {None}
  /\ lock \in Savers \union {Free}
  /\ pc \in [Savers -> Labels]
  /\ request \in [Savers -> Calls \union {None}]
  /\ hashed \in [Savers -> Seq(Frames)]
  /\ reader \in [Readers -> [at : LoadLabels, wm : Watermarks \union {None},
                             seen : SUBSET Results, got : Results]]

\* load_id never finds the directory corrupt: not after a failed or torn
\* write, a killed saver or a power loss, and not while a save is going on.
Readable == Loaded # Corrupt

\* A save that has published its watermark, or found nothing to change, is
\* what load_id returns when the save returns Ok, whatever else is going on.
SavedIsLoaded ==
  \A p \in Savers : pc[p] = "project" => Loaded = Stored(request[p])

\* A lock-free load returns a state the session had at some moment of the
\* load; only a load that the very first commit overtakes may instead report
\* corruption, because it found no watermark and then a v3 manifest.
LoadsConsistent ==
  \A r \in Readers : reader[r].at = "done" =>
    \/ reader[r].got \in reader[r].seen
    \/ /\ reader[r].got = Corrupt
       /\ watermark # None
       /\ reader[r].seen \intersect (Legacy \union {Absent}) # {}

\* The same without the exception: loads are atomic with respect to saves.
LoadsAtomic ==
  \A r \in Readers : reader[r].at = "done" => reader[r].got \in reader[r].seen

\* The committed prefix is append-only: whatever a save truncates, overwrites
\* or loses in a crash lies behind the watermark readers may be using.
PrefixStable ==
  [][/\ CommittedFrames' >= CommittedFrames
     /\ SubSeq(log', 1, CommittedFrames) = SubSeq(log, 1, CommittedFrames)]_<<log, watermark>>

\* No caller saves a legacy session exactly as it was loaded.  The runtime
\* stamps every save with the current time.
FreshResave == \A s \in Calls : Stored(s) \notin Legacy

Register == INSTANCE SessionRegister WITH
  States <- {Stored(s) : s \in Calls},
  Initial <- Legacy \union {Absent},
  value <- Loaded

\* The directory implements the atomic register.
ImplementsRegister == Register!Spec

-----------------------------------------------------------------------------
(* The inductive invariants behind the theorems of SessionStoreProofs.      *)

Writing == {"append", "sync", "publish"}

\* Past the lock only its holder moves, and what it digests starts with the
\* committed prefix.
Exclusive(p) ==
  /\ pc[p] \notin {"idle", "lock"} => lock = p
  /\ pc[p] # "idle" => request[p] \in Calls
  /\ pc[p] \in Writing => CommittedFrames <= Len(hashed[p])

\* A reader past the watermark check has seen one, and has it once it goes
\* for the log.
Attentive(r) ==
  /\ reader[r].at = "watermark" => watermark # None
  /\ reader[r].at = "log" => watermark # None /\ reader[r].wm # None

TInv ==
  /\ TypeOK
  /\ \A p \in Savers : Exclusive(p)
  /\ \A r \in Readers : Attentive(r)

\* What load_id returns, read from the watermark's digest instead of the log.
Current ==
  IF watermark # None THEN watermark.digest[watermark.frames].state ELSE LoadLegacy(manifest)

\* The watermark describes a durable, well-formed prefix of the log.
CommittedOK ==
  watermark # None =>
    /\ watermark.frames = Len(watermark.digest)
    /\ watermark.frames <= synced
    /\ \A i \in 1..watermark.frames : log[i] = watermark.digest[i]
    /\ WellFormed(watermark.digest)

\* Until the first commit session.json is absent or legacy.
ManifestOK ==
  watermark = None /\ manifest # None => manifest.schema # 3 /\ manifest.state \in Legacy

\* The frame a saver puts at index i of a log with c committed frames.
FrameAt(i, c, state) == [seq |-> i, part |-> i - 1 - c, state |-> state]

\* The frames a saver has digested are those of the log: the committed prefix
\* and then its own replacement.
DigestOK(p) ==
  LET c == CommittedFrames
      state == Stored(request[p])
  IN  /\ Current # Absent => MayReplace(Current, state)
      /\ Len(hashed[p]) <= Len(log)
      /\ \A i \in 1..Len(hashed[p]) : log[i] = hashed[p][i]
      /\ \A i \in (c + 1)..Len(hashed[p]) : hashed[p][i] = FrameAt(i, c, state)
      /\ IF pc[p] = "append"
         THEN Len(hashed[p]) <= c + LastPart(state)
         ELSE Len(hashed[p]) = c + LastPart(state) + 1
      /\ pc[p] = "publish" => Len(hashed[p]) <= synced

SaverOK(p) ==
  /\ pc[p] \in Writing => DigestOK(p)
  /\ pc[p] = "project" => watermark # None /\ Current = Stored(request[p])

IInv ==
  /\ TInv
  /\ synced <= Len(log)
  /\ CommittedOK
  /\ ManifestOK
  /\ \A p \in Savers : SaverOK(p)

\* A load under way has seen the state it is about to return, except that a
\* load that found no watermark may come upon the manifest of a later commit.
Before == Legacy \union {Absent}

ReaderOK(r) ==
  LET seen == reader[r].seen
      wm == reader[r].wm
      result == LoadLegacy(manifest)
  IN  /\ reader[r].at \in {"check", "watermark"} => Current \in seen
      /\ reader[r].at = "log" =>
           /\ wm.frames = Len(wm.digest) /\ wm.frames <= CommittedFrames
           /\ WellFormed(wm.digest)
           /\ \A i \in 1..wm.frames : watermark.digest[i] = wm.digest[i]
           /\ wm.digest[wm.frames].state \in seen
      /\ reader[r].at = "legacy" =>
           /\ result \in seen \/ (result = Corrupt /\ watermark # None)
           /\ seen \intersect Before # {}
      /\ reader[r].at = "done" =>
           \/ reader[r].got \in seen
           \/ reader[r].got = Corrupt /\ watermark # None /\ seen \intersect Before # {}

LInv == IInv /\ \A r \in Readers : ReaderOK(r)

===============================================================================
