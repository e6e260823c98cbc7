-------------------------- MODULE SessionStoreProofs --------------------------
(***************************************************************************)
(* Proofs about SessionStore, for any savers, readers, texts and calls.    *)
(***************************************************************************)
EXTENDS SessionStore, SequenceTheorems, TLAPS

-----------------------------------------------------------------------------
(* Facts about the helpers.                                                *)

USE DataAssumption, SentinelAssumption, LogAssumption

\* redact_durable_session yields a session state.
LEMMA StoredType ==
  ASSUME NEW s \in Calls
  PROVE  /\ Stored(s) \in SessionState
         /\ Stored(s) # Absent /\ Stored(s) # Corrupt /\ Stored(s) # None
         /\ LastPart(Stored(s)) \in Nat
         /\ LastPart(Stored(s)) >= 2
BY DEF Stored, SessionState, LastPart

\* A prefix of a log is a log.
LEMMA PrefixType ==
  ASSUME NEW S, NEW s \in Seq(S), NEW n \in 0..Len(s)
  PROVE  /\ SubSeq(s, 1, n) \in Seq(S)
         /\ Len(SubSeq(s, 1, n)) = n
         /\ \A i \in 1..n : SubSeq(s, 1, n)[i] = s[i]
<1>1. \A i \in 1..n : s[i] \in S
  BY ElementOfSeq, LenProperties
<1>2. 1 \in Int /\ n \in Int /\ n - 1 + 1 = n
  BY LenProperties
<1> QED
  BY <1>1, <1>2, SubSeqProperties

\* replay_committed returns a session state or Corrupt, whatever the log is.
LEMMA ReplayType ==
  ASSUME NEW l \in Seq(Frames), NEW w \in Watermarks
  PROVE  Replay(l, w) \in Results
<1>1. CASE Replay(l, w) = Corrupt
  BY <1>1 DEF Results
<1>2. CASE Replay(l, w) # Corrupt
  <2> DEFINE prefix == SubSeq(l, 1, w.frames)
  <2>1. w.frames \in Nat /\ w.frames <= Len(l) /\ WellFormed(prefix)
    BY <1>2 DEF Replay, Watermarks
  <2>2. Len(prefix) = w.frames /\ prefix \in Seq(Frames)
        /\ \A i \in 1..w.frames : prefix[i] = l[i]
    BY <2>1, LenProperties, PrefixType
  <2>3. w.frames >= 1
    BY <2>1, <2>2, EmptySeq DEF WellFormed
  <2>4. w.frames \in 1..Len(l)
    BY <2>1, <2>3
  <2>5. l[w.frames].state # None /\ l[w.frames] \in Frames
    BY <2>1, <2>2, <2>3, <2>4, ElementOfSeq DEF WellFormed
  <2> QED
    BY <2>5, <1>2 DEF Replay, Frames, Results
<1> QED
  BY <1>1, <1>2

\* What is read from session.json alone.
LEMMA LegacyType ==
  ASSUME NEW m \in Manifests \union {None}
  PROVE  LoadLegacy(m) \in Results
BY DEF LoadLegacy, Manifests, Results

\* load_id returns a session state, Absent or Corrupt.
LEMMA LoadedType == TypeOK => Loaded \in Results
BY ReplayType, LegacyType DEF TypeOK, Loaded

\* A directory that loads has its committed prefix in the log.
LEMMA LoadedFrames ==
  ASSUME TypeOK, Loaded # Corrupt
  PROVE  CommittedFrames \in 0..Len(log)
<1>1. Len(log) \in Nat
  BY LenProperties DEF TypeOK
<1> QED
  BY <1>1 DEF TypeOK, Loaded, Replay, CommittedFrames, Watermarks

\* A torn frame is a frame of the log.
LEMMA TornType == Torn \in Frames
BY DEF Torn, Frames

\* The frame a saver is about to append is one.
LEMMA NextFrameType ==
  ASSUME TInv, NEW p \in Savers, pc[p] = "append"
  PROVE  /\ NextFrame(p) \in Frames
         /\ Len(hashed[p]) \in Nat
         /\ CommittedFrames \in 0..Len(hashed[p])
         /\ Stored(request[p]) \in SessionState
<1>1. hashed[p] \in Seq(Frames) /\ request[p] \in Calls /\ CommittedFrames <= Len(hashed[p])
  BY DEF TInv, TypeOK, Exclusive, Attentive, Writing
<1>2. Len(hashed[p]) \in Nat /\ CommittedFrames \in Nat
  BY <1>1, LenProperties DEF TInv, TypeOK, CommittedFrames, Watermarks
<1>3. Len(hashed[p]) + 1 \in Nat /\ Len(hashed[p]) - CommittedFrames \in Nat
  BY <1>1, <1>2
<1>4. Stored(request[p]) \in SessionState
  BY <1>1, StoredType
<1> QED
  BY <1>1, <1>2, <1>3, <1>4 DEF NextFrame, Frames

\* write_event turns a log into a log.
LEMMA WriteAtType ==
  ASSUME NEW n \in Nat, log \in Seq(Frames), NEW f \in Frames
  PROVE  WriteAt(n, f) \in Seq(Frames)
<1>1. Len(log) \in Nat
  BY LenProperties
<1>2. CASE n < Len(log)
  BY <1>1, <1>2, ExceptSeq DEF WriteAt
<1>3. CASE ~(n < Len(log))
  BY <1>3, AppendProperties DEF WriteAt
<1> QED
  BY <1>2, <1>3

\* It puts the frame at the saver's offset and leaves what is before it.
LEMMA WriteAtContents ==
  ASSUME NEW n \in Nat, n <= Len(log), log \in Seq(Frames), NEW f \in Frames
  PROVE  /\ Len(WriteAt(n, f)) \in Nat
         /\ Len(WriteAt(n, f)) >= n + 1
         /\ Len(WriteAt(n, f)) >= Len(log)
         /\ WriteAt(n, f)[n + 1] = f
         /\ \A i \in 1..n : WriteAt(n, f)[i] = log[i]
<1>1. Len(log) \in Nat
  BY LenProperties
<1>2. CASE n < Len(log)
  <2>1. n + 1 \in 1..Len(log)
    BY <1>1, <1>2
  <2>2. WriteAt(n, f) = [log EXCEPT ![n + 1] = f]
    BY <1>2 DEF WriteAt
  <2> QED
    BY <1>1, <1>2, <2>1, <2>2, ExceptSeq
<1>3. CASE n = Len(log)
  <2>1. WriteAt(n, f) = Append(log, f)
    BY <1>1, <1>3 DEF WriteAt
  <2> QED
    BY <1>1, <1>3, <2>1, AppendProperties
<1> QED
  BY <1>1, <1>2, <1>3

-----------------------------------------------------------------------------
(* Types.                                                                  *)

\* Leaving save_sync keeps the types and the exclusion of savers.
LEMMA LeaveTyped ==
  ASSUME TInv, NEW p \in Savers, Leave(p)
  PROVE  /\ lock' \in Savers \union {Free}
         /\ pc' \in [Savers -> Labels]
         /\ request' \in [Savers -> Calls \union {None}]
         /\ hashed' \in [Savers -> Seq(Frames)]
         /\ CommittedFrames' = CommittedFrames => \A q \in Savers : Exclusive(q)'
<1>1. << >> \in Seq(Frames)
  BY EmptySeq
<1> QED
  BY <1>1 DEF TInv, TypeOK, Leave, Goto, Labels, Exclusive, Writing

\* Reader r goes to x, with the watermark as it is.
Moves(r, x, Progress) ==
  /\ reader \in [Readers -> Progress] /\ x \in Progress /\ reader' = [reader EXCEPT ![r] = x]
  /\ watermark' = watermark
  /\ x.at # "watermark" /\ (x.at = "log" => watermark # None /\ x.wm # None)

\* It stays attentive, and so do the others.
LEMMA MoveAttentive ==
  ASSUME \A q \in Readers : Attentive(q), NEW Progress, NEW r \in Readers, NEW x, Moves(r, x, Progress)
  PROVE  /\ reader' \in [Readers -> Progress]
         /\ \A q \in Readers : Attentive(q)'
<1>0. /\ reader \in [Readers -> Progress] /\ x \in Progress /\ reader' = [reader EXCEPT ![r] = x]
      /\ watermark' = watermark
      /\ x.at # "watermark" /\ (x.at = "log" => watermark # None /\ x.wm # None)
  BY Zenon DEF Moves
<1> USE <1>0
<1>1. reader' \in [Readers -> Progress]
  OBVIOUS
<1>2. reader'[r] = x /\ \A q \in Readers : q # r => reader'[q] = reader[q]
  OBVIOUS
<1>3. ASSUME NEW q \in Readers
      PROVE  Attentive(q)'
  <2>1. CASE q = r
    BY <1>2, <2>1 DEF Attentive
  <2>2. CASE q # r
    <3>1. reader'[q] = reader[q] /\ Attentive(q)
      BY <1>2, <2>2
    <3> QED
      BY <3>1 DEF Attentive
  <2> QED
    BY <2>1, <2>2
<1> QED
  BY <1>1, <1>3

LEMMA TypedInit == Init => TInv
<1> SUFFICES ASSUME Init PROVE TInv
  OBVIOUS
<1>1. << >> \in Seq(Frames)
  BY EmptySeq
<1>2. manifest \in Manifests \union {None}
  BY DEF Init, Manifests
<1>3. reader \in [Readers -> [at : LoadLabels, wm : Watermarks \union {None},
                              seen : SUBSET Results, got : Results]]
  BY DEF Init, IdleReader, LoadLabels, Results
<1>4. TypeOK
  BY <1>1, <1>2, <1>3 DEF Init, TypeOK, Labels
<1> QED
  BY <1>4 DEF Init, TInv, Exclusive, Attentive, IdleReader, Writing

LEMMA TypedStep == TInv /\ [Next]_vars => TInv'
<1> SUFFICES ASSUME TInv, [Next]_vars PROVE TInv'
  OBVIOUS
<1> USE DEF TInv
<1>1. ASSUME NEW p \in Savers, BeginSave(p) PROVE TInv'
  BY <1>1 DEF BeginSave, Goto, disk, TypeOK, Exclusive, Attentive, Labels, Writing, CommittedFrames
<1>2. ASSUME NEW p \in Savers, LockSession(p) PROVE TInv'
  BY <1>2 DEF LockSession, Goto, disk, TypeOK, Exclusive, Attentive, Labels, Writing, CommittedFrames
<1>3. ASSUME NEW p \in Savers, LockTimeout(p) PROVE TInv'
  BY <1>3, LeaveTyped DEF LockTimeout, disk, TypeOK, Attentive, CommittedFrames
<1>4. ASSUME NEW p \in Savers, RejectSave(p) PROVE TInv'
  BY <1>4, LeaveTyped DEF RejectSave, disk, TypeOK, Attentive, CommittedFrames
<1>5. ASSUME NEW p \in Savers, KeepState(p) PROVE TInv'
  BY <1>5 DEF KeepState, Goto, disk, TypeOK, Exclusive, Attentive, Labels, Writing, CommittedFrames
<1>6. ASSUME NEW p \in Savers, TruncateLog(p) PROVE TInv'
  <2> DEFINE prefix == SubSeq(log, 1, CommittedFrames)
  <2>1. CommittedFrames \in 0..Len(log)
    BY <1>6, LoadedFrames DEF TruncateLog
  <2>2. prefix \in Seq(Frames) /\ Len(prefix) = CommittedFrames
    BY <2>1, PrefixType DEF TypeOK
  <2> HIDE DEF prefix
  <2>3. log' = prefix /\ synced' = CommittedFrames /\ hashed' = [hashed EXCEPT ![p] = prefix]
    BY <1>6 DEF TruncateLog, prefix
  <2> QED
    BY <1>6, <2>1, <2>2, <2>3
       DEF TruncateLog, Goto, TypeOK, Exclusive, Attentive, Labels, Writing, CommittedFrames
<1>7. ASSUME NEW p \in Savers, AppendFrame(p) PROVE TInv'
  <2> DEFINE f == NextFrame(p)
             n == Len(hashed[p])
  <2>1. f \in Frames
    BY <1>7, NextFrameType DEF AppendFrame
  <2>2. hashed[p] \in Seq(Frames) /\ n \in Nat /\ CommittedFrames \in 0..n
    BY <1>7, NextFrameType DEF AppendFrame, TypeOK
  <2>3. WriteAt(n, f) \in Seq(Frames)
    BY <2>1, <2>2, WriteAtType DEF TypeOK
  <2>4. Append(hashed[p], f) \in Seq(Frames) /\ Len(Append(hashed[p], f)) = n + 1
    BY <2>1, <2>2, AppendProperties
  <2> QED
    BY <1>7, <2>2, <2>3, <2>4
       DEF AppendFrame, Goto, TypeOK, Exclusive, Attentive, Labels, Writing, CommittedFrames
<1>8. ASSUME NEW p \in Savers, AppendFails(p) PROVE TInv'
  <2>1. Len(hashed[p]) \in Nat
    BY <1>8, NextFrameType DEF AppendFails
  <2>2. WriteAt(Len(hashed[p]), Torn) \in Seq(Frames)
    BY <2>1, WriteAtType, TornType DEF TypeOK
  <2>3. log' \in Seq(Frames)
    BY <1>8, <2>2 DEF AppendFails, TypeOK
  <2> QED
    BY <1>8, <2>3, LeaveTyped DEF AppendFails, TypeOK, Attentive, CommittedFrames
<1>9. ASSUME NEW p \in Savers, SyncLog(p) PROVE TInv'
  BY <1>9, LenProperties
     DEF SyncLog, Goto, TypeOK, Exclusive, Attentive, Labels, Writing, CommittedFrames
<1>10. ASSUME NEW p \in Savers, Publish(p) PROVE TInv'
  <2>1. watermark' \in Watermarks
    BY <1>10, LenProperties DEF Publish, TypeOK, Watermarks
  <2>2. reader' \in [Readers -> [at : LoadLabels, wm : Watermarks \union {None},
                                seen : SUBSET Results, got : Results]]
    <3>1. Loaded' \in Results
      BY <1>10, <2>1, ReplayType, LegacyType DEF Publish, TypeOK, Loaded
    <3> DEFINE Progress == [at : LoadLabels, wm : Watermarks \union {None},
                            seen : SUBSET Results, got : Results]
    <3>2. reader \in [Readers -> Progress]
      BY DEF TypeOK
    <3>3. ASSUME NEW x \in Progress
          PROVE  [x EXCEPT !.seen = x.seen \union {Loaded'}] \in Progress
      BY <3>1
    <3>4. reader' = [r \in Readers |->
                       IF reader[r].at = "idle" THEN reader[r]
                       ELSE [reader[r] EXCEPT !.seen = reader[r].seen \union {Loaded'}]]
      BY <1>10 DEF Publish
    <3> HIDE DEF Progress
    <3>5. reader' \in [Readers -> Progress]
      BY <3>2, <3>3, <3>4
    <3> QED
      BY <3>5 DEF Progress
  <2>3. TypeOK'
    BY <1>10, <2>1, <2>2 DEF Publish, Goto, TypeOK, Labels
  <2>4. ASSUME NEW q \in Savers PROVE Exclusive(q)'
    BY <1>10 DEF Publish, Goto, TypeOK, Exclusive, Writing
  <2>5. watermark' # None
    BY <2>1
  <2>6. ASSUME NEW r \in Readers PROVE Attentive(r)'
    BY <1>10, <2>5 DEF Publish, TypeOK, Attentive
  <2> QED
    BY <2>3, <2>4, <2>6
<1>11. ASSUME NEW p \in Savers, CommitFails(p) PROVE TInv'
  BY <1>11, LeaveTyped DEF CommitFails, disk, TypeOK, Attentive, CommittedFrames
<1>12. ASSUME NEW p \in Savers, WriteManifest(p) PROVE TInv'
  BY <1>12, LeaveTyped, StoredType
     DEF WriteManifest, TypeOK, CommittedFrames, Manifests, Exclusive, Attentive
<1>13. ASSUME NEW p \in Savers, ManifestFails(p) PROVE TInv'
  BY <1>13, LeaveTyped DEF ManifestFails, disk, TypeOK, Attentive, CommittedFrames
<1>14. ASSUME NEW p \in Savers, Crash(p) PROVE TInv'
  BY <1>14, LeaveTyped DEF Crash, disk, TypeOK, Attentive, CommittedFrames
<1>15. ASSUME NEW r \in Readers, Load(r) PROVE TInv'
  <2> DEFINE Progress == [at : LoadLabels, wm : Watermarks \union {None},
                          seen : SUBSET Results, got : Results]
  <2>1. reader \in [Readers -> Progress] /\ IdleReader \in Progress
    BY DEF TypeOK, IdleReader, LoadLabels, Results
  <2>2. UNCHANGED <<disk, savers>>
    BY <1>15 DEF Load, BeginLoad, CheckWatermark, ReadWatermark, ReadLog, ReadLegacy, EndLoad
  <2>3. /\ reader' \in [Readers -> Progress]
        /\ \A q \in Readers : Attentive(q)'
    <3>1. CASE BeginLoad(r)
      BY <2>1, <2>2, <3>1, LoadedType DEF BeginLoad, LoadLabels, IdleReader, Attentive, disk
    <3>2. CASE CheckWatermark(r)
      BY <2>1, <2>2, <3>2 DEF CheckWatermark, LoadLabels, Attentive, disk
    <3>3. CASE ReadWatermark(r)
      <4>1. /\ reader[r].at = "watermark" /\ reader' = [reader EXCEPT ![r].at = "log", ![r].wm = watermark]
            /\ watermark' = watermark
        BY <2>2, <3>3 DEF ReadWatermark, disk
      <4>2. watermark # None /\ watermark \in Watermarks \union {None} /\ "log" \in LoadLabels
        BY <4>1 DEF Attentive, TypeOK, LoadLabels
      <4>3. PICK x : x = [reader[r] EXCEPT !.at = "log", !.wm = watermark]
        OBVIOUS
      <4>4. x \in Progress /\ x.at = "log" /\ x.wm = watermark
        BY <2>1, <4>2, <4>3
      <4>5. reader' = [reader EXCEPT ![r] = x]
        BY <4>1, <4>3
      <4> QED
        <5> HIDE DEF Progress
        <5>1. x.at # "watermark" /\ watermark # None /\ x.wm # None
          BY <4>2, <4>4
        <5>2. Moves(r, x, Progress)
          BY <2>1, <4>1, <4>4, <4>5, <5>1, Zenon DEF Moves
        <5> QED
          BY <5>2, MoveAttentive, Zenon
    <3>4. CASE ReadLog(r)
      <4>1. /\ reader[r].at = "log" /\ watermark' = watermark
            /\ reader' = [reader EXCEPT ![r].at = "done", ![r].got = Replay(log, reader[r].wm)]
        BY <2>2, <3>4 DEF ReadLog, Finish, disk
      <4>2. reader[r].wm # None /\ reader[r].wm \in Watermarks \union {None}
        BY <2>1, <4>1 DEF Attentive
      <4>3. PICK got \in Results : got = Replay(log, reader[r].wm)
        BY <4>2, ReplayType DEF TypeOK
      <4>4. PICK x : x = [reader[r] EXCEPT !.at = "done", !.got = got]
        OBVIOUS
      <4>5. x \in Progress /\ x.at = "done"
        BY <2>1, <4>4 DEF LoadLabels
      <4>6. reader' = [reader EXCEPT ![r] = x]
        BY <4>1, <4>3, <4>4
      <4> QED
        <5> HIDE DEF Progress
        <5>1. x.at # "watermark" /\ x.at # "log"
          BY <4>5
        <5>2. Moves(r, x, Progress)
          BY <2>1, <4>1, <4>5, <4>6, <5>1, Zenon DEF Moves
        <5> QED
          BY <5>2, MoveAttentive, Zenon
    <3>5. CASE ReadLegacy(r)
      <4>1. /\ watermark' = watermark
            /\ reader' = [reader EXCEPT ![r].at = "done", ![r].got = LoadLegacy(manifest)]
        BY <2>2, <3>5 DEF ReadLegacy, Finish, disk
      <4>2. PICK got \in Results : got = LoadLegacy(manifest)
        BY LegacyType DEF TypeOK
      <4>3. PICK x : x = [reader[r] EXCEPT !.at = "done", !.got = got]
        OBVIOUS
      <4>4. x \in Progress /\ x.at = "done"
        BY <2>1, <4>3 DEF LoadLabels
      <4>5. reader' = [reader EXCEPT ![r] = x]
        BY <4>1, <4>2, <4>3
      <4> QED
        <5> HIDE DEF Progress
        <5>1. x.at # "watermark" /\ x.at # "log"
          BY <4>4
        <5>2. Moves(r, x, Progress)
          BY <2>1, <4>1, <4>4, <4>5, <5>1, Zenon DEF Moves
        <5> QED
          BY <5>2, MoveAttentive, Zenon
    <3>6. CASE EndLoad(r)
      BY <2>1, <2>2, <3>6 DEF EndLoad, IdleReader, Attentive, disk
    <3> QED
      BY <1>15, <3>1, <3>2, <3>3, <3>4, <3>5, <3>6 DEF Load
  <2> QED
    BY <2>2, <2>3 DEF disk, savers, TypeOK, Exclusive, CommittedFrames
<1>16. ASSUME PowerLoss PROVE TInv'
  <2>1. log' \in Seq(Frames)
    <3>1. log \in Seq(Frames) /\ Len(log) \in Nat /\ synced \in Nat
      BY LenProperties DEF TypeOK
    <3>2. PICK n \in synced..Len(log) :
            \/ log' = SubSeq(log, 1, n)
            \/ n < Len(log) /\ log' = Append(SubSeq(log, 1, n), Torn)
      BY <1>16 DEF PowerLoss
    <3>3. SubSeq(log, 1, n) \in Seq(Frames)
      BY <3>1, PrefixType
    <3> QED
      BY <3>2, <3>3, TornType, AppendProperties
  <2>2. << >> \in Seq(Frames)
    BY EmptySeq
  <2> QED
    BY <1>16, <2>1, <2>2
       DEF PowerLoss, IdleReader, TypeOK, Exclusive, Attentive, Labels, LoadLabels, Results, Writing
<1>17. CASE UNCHANGED vars
  BY <1>17 DEF vars, disk, savers, TypeOK, Exclusive, Attentive, CommittedFrames
<1> QED
  BY <1>1, <1>2, <1>3, <1>4, <1>5, <1>6, <1>7, <1>8, <1>9, <1>10, <1>11, <1>12,
     <1>13, <1>14, <1>15, <1>16, <1>17 DEF Next, Save

\* TypeOK: every file and every local variable of save_sync and load_id keeps
\* its type, in particular no saver hashes less than the committed prefix.
THEOREM TypeCorrect == Spec => []TypeOK
<1>1. TInv => TypeOK
  BY DEF TInv
<1> QED
  BY <1>1, TypedInit, TypedStep, PTL DEF Spec

-----------------------------------------------------------------------------
(* The inductive invariant.                                                *)

\* h is d, of c frames, and then one whole replacement by state.
Extends(h, d, c, state) ==
  /\ h \in Seq(Frames) /\ c \in Nat /\ state \in SessionState
  /\ Len(h) = c + LastPart(state) + 1
  /\ \A i \in (c + 1)..Len(h) : h[i] = FrameAt(i, c, state)
  /\ c # 0 => WellFormed(d) /\ Len(d) = c
  /\ \A i \in 1..c : h[i] = d[i]

\* One whole replacement after a well-formed prefix is well-formed, and its
\* state is what the prefix then holds.
LEMMA ReplacementWellFormed ==
  ASSUME NEW h, NEW d, NEW c, NEW state, Extends(h, d, c, state)
  PROVE  WellFormed(h) /\ h[Len(h)].state = state
<1> USE DEF Extends
<1> DEFINE L == LastPart(state)
           n == Len(h)
<1>1. L \in Nat /\ L >= 2 /\ n \in Nat /\ n = c + L + 1 /\ state # None
  BY DEF LastPart, SessionState
<1> HIDE DEF L
<1>2. \A i \in (c + 1)..n : /\ h[i].seq = i
                            /\ h[i].part = i - 1 - c
                            /\ h[i].state = state
  <2> SUFFICES ASSUME NEW i \in (c + 1)..n
               PROVE  h[i].seq = i /\ h[i].part = i - 1 - c /\ h[i].state = state
    OBVIOUS
  <2>1. h[i] = FrameAt(i, c, state)
    OBVIOUS
  <2> QED
    BY <2>1 DEF FrameAt
<1>3. h # << >>
  BY <1>1, EmptySeq
<1>4. \A i \in 1..n : /\ h[i].seq = i
                      /\ h[i].state # None
                      /\ h[i].part <= LastPart(h[i].state)
  <2> SUFFICES ASSUME NEW i \in 1..n
               PROVE  h[i].seq = i /\ h[i].state # None /\ h[i].part <= LastPart(h[i].state)
    OBVIOUS
  <2>1. CASE i <= c
    <3>1. c # 0 /\ i \in 1..c /\ i \in 1..Len(d) /\ WellFormed(d) /\ h[i] = d[i]
      BY <1>1, <2>1
    <3> QED
      BY <3>1 DEF WellFormed
  <2>2. CASE i > c
    <3>1. i \in (c + 1)..n /\ i - 1 - c <= L
      BY <1>1, <2>2
    <3> QED
      BY <1>1, <1>2, <3>1 DEF L
  <2> QED
    BY <1>1, <2>1, <2>2
<1>5. h[1].part = 0
  <2>1. CASE c = 0
    BY <1>1, <1>2, <2>1
  <2>2. CASE c # 0
    BY <2>2 DEF WellFormed
  <2> QED
    BY <2>1, <2>2
<1>6. c # 0 => h[c].part = LastPart(h[c].state)
  BY DEF WellFormed
<1>7. \A i \in 2..n : Follows(h[i], h[i - 1])
  <2> SUFFICES ASSUME NEW i \in 2..n PROVE Follows(h[i], h[i - 1])
    OBVIOUS
  <2>1. CASE i <= c
    <3>1. c # 0 /\ i \in 2..Len(d) /\ WellFormed(d) /\ h[i] = d[i] /\ h[i - 1] = d[i - 1]
      BY <1>1, <2>1
    <3> QED
      BY <3>1 DEF WellFormed
  <2>2. CASE i = c + 1
    <3>1. h[i].part = 0 /\ c # 0 /\ i - 1 = c
      BY <1>1, <1>2, <2>2
    <3> QED
      BY <1>6, <3>1 DEF Follows
  <2>3. CASE i > c + 1
    <3>1. i \in (c + 1)..n /\ i - 1 \in (c + 1)..n
      BY <1>1, <2>3
    <3>2. h[i].part = i - 1 - c /\ h[i - 1].part = i - 2 - c /\ h[i].state = h[i - 1].state
      BY <1>2, <3>1
    <3> QED
      BY <1>1, <2>3, <3>2 DEF Follows
  <2> QED
    BY <1>1, <2>1, <2>2, <2>3
<1>8. n \in (c + 1)..n /\ n - 1 - c = L
  BY <1>1
<1> QED
  BY <1>2, <1>3, <1>4, <1>5, <1>7, <1>8 DEF WellFormed, L

\* A log that starts with the digested frames replays to their last state.
LEMMA ReplayDigest ==
  ASSUME NEW l \in Seq(Frames), NEW w \in Watermarks,
         w.frames = Len(w.digest), w.frames <= Len(l), WellFormed(w.digest),
         \A i \in 1..w.frames : l[i] = w.digest[i]
  PROVE  /\ Replay(l, w) = w.digest[w.frames].state
         /\ w.digest[w.frames].state \in SessionState
         /\ w.frames >= 1
<1> DEFINE n == w.frames
           d == w.digest
<1>1. n \in Nat /\ d \in Seq(Frames) /\ Len(l) \in Nat
  BY LenProperties DEF Watermarks
<1>2. n >= 1 /\ n \in 1..n
  BY <1>1, EmptySeq DEF WellFormed
<1>3. /\ SubSeq(l, 1, n) \in Seq(Frames) /\ Len(SubSeq(l, 1, n)) = n
      /\ \A i \in 1..n : SubSeq(l, 1, n)[i] = l[i]
  BY <1>1, PrefixType
<1>4. SubSeq(l, 1, n) = d
  BY <1>1, <1>3, SeqEqual
<1>5. WellFormed(SubSeq(l, 1, n)) /\ l[n] = d[n]
  <2>1. WellFormed(SubSeq(l, 1, n))
    BY <1>4, Zenon
  <2> QED
    BY <1>2, <2>1
<1>6. Replay(l, w) = d[n].state
  BY <1>4, <1>5 DEF Replay
<1>7. d[n] \in Frames
  BY <1>1, <1>2, ElementOfSeq
<1>8. d[n].state # None
  BY <1>1, <1>2 DEF WellFormed
<1> QED
  BY <1>2, <1>6, <1>7, <1>8 DEF Frames

\* Under the invariant what load_id returns is what the watermark's digest
\* says, or the legacy session, or nothing.
LEMMA LoadedIsCurrent ==
  ASSUME TypeOK, synced <= Len(log), CommittedOK, ManifestOK
  PROVE  /\ Loaded = Current
         /\ Current \in SessionState \union {Absent}
         /\ watermark = None => Current \in Legacy \union {Absent}
         /\ CommittedFrames \in 0..synced
<1>1. log \in Seq(Frames) /\ Len(log) \in Nat /\ synced \in Nat
  BY LenProperties DEF TypeOK
<1>2. CASE watermark = None
  BY <1>1, <1>2 DEF Loaded, Current, LoadLegacy, ManifestOK, CommittedFrames
<1>3. CASE watermark # None
  <2>1. /\ watermark \in Watermarks /\ watermark.frames = Len(watermark.digest)
        /\ watermark.frames \in Nat /\ watermark.frames <= synced
        /\ WellFormed(watermark.digest)
        /\ \A i \in 1..watermark.frames : log[i] = watermark.digest[i]
    BY <1>3 DEF TypeOK, Watermarks, CommittedOK
  <2>2. watermark.frames <= Len(log)
    BY <1>1, <2>1
  <2>3. /\ Replay(log, watermark) = watermark.digest[watermark.frames].state
        /\ watermark.digest[watermark.frames].state \in SessionState
    BY <1>1, <2>1, <2>2, ReplayDigest
  <2> QED
    BY <1>1, <1>3, <2>1, <2>3 DEF Loaded, Current, CommittedFrames
<1> QED
  BY <1>2, <1>3

\* While a saver is past the lock, no other one is.
LEMMA OthersWait ==
  ASSUME TInv, NEW p \in Savers, pc[p] \notin {"idle", "lock"},
         NEW q \in Savers, q # p
  PROVE  pc[q] \in {"idle", "lock"}
BY DEF TInv, Exclusive

\* A step of a saver past the lock that leaves what is committed as it is
\* needs to be looked at for that saver only.
LEMMA HolderMoves ==
  ASSUME TInv, NEW p \in Savers, pc[p] \notin {"idle", "lock"},
         \A q \in Savers : q # p => pc'[q] = pc[q],
         SaverOK(p)'
  PROVE  \A q \in Savers : SaverOK(q)'
BY OthersWait DEF SaverOK, Writing

\* Leaving save_sync, with the directory as it was, keeps the invariant.
LEMMA LeaveKeeps ==
  ASSUME IInv, NEW p \in Savers, Leave(p), UNCHANGED disk
  PROVE  /\ synced' <= Len(log')
         /\ CommittedOK'
         /\ ManifestOK'
         /\ \A q \in Savers : SaverOK(q)'
<1>1. log' = log /\ synced' = synced /\ watermark' = watermark /\ manifest' = manifest
  BY DEF disk
<1>2. CommittedOK' /\ ManifestOK' /\ Current' = Current /\ CommittedFrames' = CommittedFrames
  BY <1>1 DEF IInv, CommittedOK, ManifestOK, Current, CommittedFrames
<1>3. ASSUME NEW q \in Savers PROVE SaverOK(q)'
  <2>1. CASE q = p
    BY <2>1 DEF Leave, Goto, IInv, TInv, TypeOK, SaverOK, Writing
  <2>2. CASE q # p
    BY <1>1, <1>2, <2>2
       DEF Leave, Goto, IInv, TInv, TypeOK, SaverOK, DigestOK
  <2> QED
    BY <2>1, <2>2
<1> QED
  BY <1>1, <1>2, <1>3 DEF IInv

LEMMA InductiveInit == Init => IInv
<1> SUFFICES ASSUME Init PROVE IInv
  OBVIOUS
<1>1. TInv
  BY TypedInit
<1>2. synced <= Len(log)
  BY EmptySeq DEF Init
<1>3. CommittedOK
  BY DEF Init, CommittedOK
<1>4. ManifestOK
  BY DEF Init, ManifestOK
<1>5. \A p \in Savers : SaverOK(p)
  BY DEF Init, SaverOK, Writing
<1> QED
  BY <1>1, <1>2, <1>3, <1>4, <1>5 DEF IInv

LEMMA InductiveStep == FreshResave /\ IInv /\ [Next]_vars => IInv'
<1> DEFINE DirOK == synced <= Len(log) /\ CommittedOK /\ ManifestOK
           SaversOK == \A q \in Savers : SaverOK(q)
<1> SUFFICES ASSUME FreshResave, IInv, [Next]_vars PROVE DirOK' /\ SaversOK'
  BY TypedStep DEF IInv
<1>1. /\ TInv /\ TypeOK /\ DirOK /\ SaversOK
      /\ log \in Seq(Frames) /\ Len(log) \in Nat /\ synced \in Nat
  BY LenProperties DEF IInv, TInv, TypeOK
<1>2. /\ Loaded = Current /\ Current \in SessionState \union {Absent}
      /\ watermark = None => Current \in Legacy \union {Absent}
      /\ CommittedFrames \in 0..synced
  BY <1>1, LoadedIsCurrent
<1>3. ASSUME UNCHANGED disk
      PROVE  DirOK' /\ Current' = Current /\ CommittedFrames' = CommittedFrames
  BY <1>1, <1>3 DEF disk, CommittedOK, ManifestOK, Current, CommittedFrames
<1> HIDE DEF DirOK, SaversOK
<1>4. ASSUME NEW p \in Savers, BeginSave(p) PROVE DirOK' /\ SaversOK'
  BY <1>1, <1>3, <1>4
     DEF BeginSave, Goto, TInv, TypeOK, SaversOK, SaverOK, DigestOK, Writing, disk
<1>5. ASSUME NEW p \in Savers, LockSession(p) PROVE DirOK' /\ SaversOK'
  BY <1>1, <1>3, <1>5
     DEF LockSession, Goto, TInv, TypeOK, SaversOK, SaverOK, DigestOK, Writing, disk
<1>6. ASSUME NEW p \in Savers,
             LockTimeout(p) \/ RejectSave(p) \/ CommitFails(p) \/ ManifestFails(p) \/ Crash(p)
      PROVE  DirOK' /\ SaversOK'
  BY <1>6, LeaveKeeps DEF LockTimeout, RejectSave, CommitFails, ManifestFails, Crash, disk,
                          DirOK, SaversOK
<1>7. ASSUME NEW p \in Savers, KeepState(p) PROVE DirOK' /\ SaversOK'
  <2>1. request[p] \in Calls
    BY <1>1, <1>7 DEF KeepState, TInv, Exclusive
  <2>2. Stored(request[p]) \notin Legacy \union {Absent}
    BY <2>1, StoredType DEF FreshResave
  <2>3. watermark # None
    BY <1>2, <1>7, <2>2 DEF KeepState
  <2>4. SaverOK(p)'
    BY <1>1, <1>2, <1>3, <1>7, <2>3
       DEF KeepState, Goto, TInv, TypeOK, SaverOK, Writing, disk
  <2>5. SaversOK'
    BY <1>1, <1>7, <2>4, HolderMoves DEF KeepState, Goto, TInv, TypeOK, SaversOK
  <2> QED
    BY <1>3, <1>7, <2>5 DEF KeepState
<1>8. ASSUME NEW p \in Savers, TruncateLog(p) PROVE DirOK' /\ SaversOK'
  <2> DEFINE c == CommittedFrames
             prefix == SubSeq(log, 1, c)
  <2>1. c \in 0..Len(log) /\ c \in Nat
    BY <1>1, <1>2 DEF DirOK
  <2>2. prefix \in Seq(Frames) /\ Len(prefix) = c /\ \A i \in 1..c : prefix[i] = log[i]
    BY <1>1, <2>1, PrefixType
  <2> HIDE DEF prefix
  <2>3. log' = prefix /\ synced' = c /\ hashed'[p] = prefix
        /\ pc'[p] = "append" /\ request' = request
        /\ watermark' = watermark /\ manifest' = manifest
    BY <1>1, <1>8 DEF TruncateLog, Goto, prefix, TInv, TypeOK
  <2>4. Current' = Current /\ CommittedFrames' = c
    BY <2>3 DEF Current, CommittedFrames
  <2>5. DirOK'
    BY <1>1, <2>1, <2>2, <2>3 DEF DirOK, CommittedOK, ManifestOK, CommittedFrames
  <2>6. request[p] \in Calls
    BY <1>1, <1>8 DEF TruncateLog, TInv, Exclusive
  <2>7. DigestOK(p)'
    BY <1>2, <1>8, <2>1, <2>2, <2>3, <2>4, <2>6, StoredType DEF TruncateLog, DigestOK
  <2>8. SaversOK'
    BY <1>1, <1>8, <2>3, <2>7, HolderMoves
       DEF TruncateLog, Goto, TInv, TypeOK, SaversOK, SaverOK
  <2> QED
    BY <2>5, <2>8
<1>9. ASSUME NEW p \in Savers, AppendFrame(p) PROVE DirOK' /\ SaversOK'
  <2> DEFINE c == CommittedFrames
             n == Len(hashed[p])
             f == NextFrame(p)
             state == Stored(request[p])
  <2>1. /\ f \in Frames /\ n \in Nat /\ c \in 0..n /\ hashed[p] \in Seq(Frames)
        /\ request[p] \in Calls /\ LastPart(state) \in Nat
    BY <1>1, <1>9, NextFrameType, StoredType DEF AppendFrame, TInv, TypeOK, Exclusive
  <2>2. DigestOK(p)
    BY <1>1, <1>9 DEF AppendFrame, SaversOK, SaverOK, Writing
  <2>3. /\ n <= Len(log) /\ n <= c + LastPart(state)
        /\ \A i \in 1..n : log[i] = hashed[p][i]
        /\ \A i \in (c + 1)..n : hashed[p][i] = FrameAt(i, c, state)
        /\ Current # Absent => MayReplace(Current, state)
    BY <1>9, <2>2 DEF AppendFrame, DigestOK
  <2>4. f = FrameAt(n + 1, c, state)
    BY <2>1 DEF NextFrame, FrameAt
  <2>5. log' = WriteAt(n, f) /\ hashed'[p] = Append(hashed[p], f)
    BY <1>1, <1>9 DEF AppendFrame, TInv, TypeOK
  <2>6. UNCHANGED <<synced, watermark, manifest, request>> /\ Current' = Current /\ c' = c
        /\ state' = state
    BY <1>9 DEF AppendFrame, Current, CommittedFrames
  <2>7. pc'[p] = IF f.part = LastPart(state) THEN "sync" ELSE "append"
    BY <1>1, <1>9 DEF AppendFrame, Goto, TInv, TypeOK
  <2> HIDE DEF f, n, state
  <2>8. /\ Len(log') \in Nat /\ Len(log') >= n + 1 /\ Len(log') >= Len(log)
        /\ log'[n + 1] = f /\ \A i \in 1..n : log'[i] = log[i]
    <3>1. n \in Nat /\ n <= Len(log) /\ f \in Frames
      BY <2>1, <2>3
    <3>2. LET new == WriteAt(n, f)
          IN  /\ Len(new) \in Nat /\ Len(new) >= n + 1 /\ Len(new) >= Len(log)
              /\ new[n + 1] = f /\ \A i \in 1..n : new[i] = log[i]
      BY <1>1, <3>1, WriteAtContents
    <3> QED
      BY <2>5, <3>2
  <2>9. /\ Len(hashed'[p]) = n + 1 /\ hashed'[p][n + 1] = f
        /\ \A i \in 1..n : hashed'[p][i] = hashed[p][i]
    BY <2>1, <2>5, AppendProperties DEF n
  <2>10. DirOK'
    BY <1>1, <2>1, <2>3, <2>6, <2>8 DEF DirOK, CommittedOK, ManifestOK, CommittedFrames
  <2>11. ASSUME NEW i \in 1..(n + 1) PROVE log'[i] = hashed'[p][i]
    <3>1. i = n + 1 \/ i \in 1..n
      BY <2>1
    <3> QED
      BY <2>3, <2>8, <2>9, <3>1
  <2>12. ASSUME NEW i \in (c + 1)..(n + 1) PROVE hashed'[p][i] = FrameAt(i, c, state)
    <3>1. CASE i = n + 1
      BY <2>4, <2>9, <3>1
    <3>2. CASE i # n + 1
      <4>1. i \in (c + 1)..n /\ i \in 1..n
        BY <2>1, <3>2
      <4>2. hashed[p][i] = FrameAt(i, c, state)
        BY <2>3, <4>1
      <4>3. hashed'[p][i] = hashed[p][i]
        BY <2>9, <4>1
      <4> QED
        BY <4>2, <4>3
    <3> QED
      BY <3>1, <3>2
  <2>13. IF pc'[p] = "append" THEN n + 1 <= c + LastPart(state)
         ELSE n + 1 = c + LastPart(state) + 1
    <3>1. f.part = n - c
      BY <2>1, <2>4 DEF FrameAt
    <3>2. c \in Nat
      BY <2>1
    <3> HIDE DEF c
    <3> QED
      BY <2>1, <2>3, <2>7, <3>1, <3>2
  <2>14. pc'[p] # "publish"
    BY <2>7
  <2>15. DigestOK(p)'
    <3>1. Stored(request'[p]) = state /\ CommittedFrames' = c
      BY <2>6 DEF state
    <3>2. /\ Len(hashed'[p]) <= Len(log')
          /\ \A i \in 1..Len(hashed'[p]) : log'[i] = hashed'[p][i]
          /\ \A i \in (c + 1)..Len(hashed'[p]) : hashed'[p][i] = FrameAt(i, c, state)
      BY <2>1, <2>8, <2>9, <2>11, <2>12
    <3>3. Current' # Absent => MayReplace(Current', state)
      BY <2>3, <2>6 DEF MayReplace
    <3>4. IF pc'[p] = "append" THEN Len(hashed'[p]) <= c + LastPart(state)
          ELSE Len(hashed'[p]) = c + LastPart(state) + 1
      BY <2>9, <2>13
    <3> HIDE DEF c
    <3> QED
      BY <2>14, <3>1, <3>2, <3>3, <3>4, Zenon DEF DigestOK
  <2>16. SaversOK'
    BY <1>1, <1>9, <2>7, <2>15, HolderMoves
       DEF AppendFrame, Goto, TInv, TypeOK, SaversOK, SaverOK
  <2> QED
    BY <2>10, <2>16
<1>10. ASSUME NEW p \in Savers, AppendFails(p) PROVE DirOK' /\ SaversOK'
  <2> DEFINE n == Len(hashed[p])
  <2>1. n \in Nat /\ CommittedFrames \in 0..n /\ n <= Len(log)
    BY <1>1, <1>10, NextFrameType DEF AppendFails, SaversOK, SaverOK, Writing, DigestOK
  <2>2. Len(log') \in Nat /\ Len(log') >= Len(log) /\ \A i \in 1..n : log'[i] = log[i]
    <3>1. CASE log' = log
      BY <1>1, <3>1
    <3>2. CASE log' = WriteAt(n, Torn)
      <4>1. log \in Seq(Frames) /\ Torn \in Frames /\ n \in Nat /\ n <= Len(log)
        BY <1>1, <2>1, TornType DEF TInv, TypeOK
      <4> HIDE DEF n
      <4>2. /\ Len(WriteAt(n, Torn)) \in Nat /\ Len(WriteAt(n, Torn)) >= Len(log)
            /\ \A i \in 1..n : WriteAt(n, Torn)[i] = log[i]
        BY <4>1, WriteAtContents, Zenon
      <4> QED
        BY <3>2, <4>2, Zenon
    <3> QED
      BY <1>10, <3>1, <3>2 DEF AppendFails
  <2>3. UNCHANGED <<synced, watermark, manifest>>
    BY <1>10 DEF AppendFails
  <2>4. DirOK'
    BY <1>1, <2>1, <2>2, <2>3 DEF DirOK, CommittedOK, ManifestOK, CommittedFrames
  <2>5. SaverOK(p)' /\ \A q \in Savers : q # p => pc'[q] = pc[q]
    BY <1>1, <1>10 DEF AppendFails, Leave, Goto, TInv, TypeOK, SaverOK, Writing
  <2> QED
    BY <1>1, <1>10, <2>4, <2>5, HolderMoves DEF AppendFails, SaversOK
<1>11. ASSUME NEW p \in Savers, SyncLog(p) PROVE DirOK' /\ SaversOK'
  <2>1. UNCHANGED <<log, watermark, manifest, request, hashed>> /\ synced' = Len(log)
        /\ pc[p] = "sync" /\ pc'[p] = "publish" /\ \A q \in Savers : q # p => pc'[q] = pc[q]
    BY <1>1, <1>11 DEF SyncLog, Goto, TInv, TypeOK
  <2>2. Current' = Current /\ CommittedFrames' = CommittedFrames
    BY <2>1 DEF Current, CommittedFrames
  <2>3. DirOK'
    BY <1>1, <1>2, <2>1 DEF DirOK, CommittedOK, ManifestOK, CommittedFrames
  <2>4. DigestOK(p)
    BY <1>1, <2>1 DEF SaversOK, SaverOK, Writing
  <2>5. SaverOK(p)'
    BY <2>1, <2>2, <2>4 DEF DigestOK, SaverOK
  <2> QED
    BY <1>1, <2>1, <2>3, <2>5, HolderMoves DEF SaversOK
<1>12. ASSUME NEW p \in Savers, Publish(p) PROVE DirOK' /\ SaversOK'
  <2> DEFINE c == CommittedFrames
             h == hashed[p]
             d == watermark.digest
             state == Stored(request[p])
  <2>1. /\ pc[p] = "publish" /\ pc'[p] = "project"
        /\ \A q \in Savers : q # p => pc'[q] = pc[q]
        /\ watermark' = [frames |-> Len(h), digest |-> h]
        /\ UNCHANGED <<log, synced, manifest, request>>
    BY <1>1, <1>12 DEF Publish, Goto, TInv, TypeOK
  <2>2. DigestOK(p)
    BY <1>1, <2>1 DEF SaversOK, SaverOK, Writing
  <2>3. /\ Len(h) <= synced /\ Len(h) = c + LastPart(state) + 1
        /\ \A i \in 1..Len(h) : log[i] = h[i]
        /\ \A i \in (c + 1)..Len(h) : h[i] = FrameAt(i, c, state)
    BY <2>1, <2>2 DEF DigestOK
  <2>4. h \in Seq(Frames) /\ Len(h) \in Nat /\ c \in Nat /\ state \in SessionState
        /\ LastPart(state) \in Nat
    BY <1>1, <1>2, <2>1, StoredType, LenProperties DEF TInv, TypeOK, Exclusive
  <2>5. c # 0 => WellFormed(d) /\ Len(d) = c
    BY <1>1 DEF DirOK, CommittedOK, CommittedFrames
  <2>6. \A i \in 1..c : h[i] = d[i]
    <3> SUFFICES ASSUME NEW i \in 1..c PROVE h[i] = d[i]
      OBVIOUS
    <3>1. watermark # None /\ i \in 1..watermark.frames
      BY <2>4 DEF CommittedFrames
    <3>2. log[i] = d[i]
      BY <1>1, <3>1 DEF DirOK, CommittedOK
    <3>3. i \in 1..Len(h)
      BY <2>3, <2>4
    <3> QED
      BY <2>3, <3>2, <3>3
  <2> HIDE DEF c, h, d, state
  <2>7. WellFormed(h) /\ h[Len(h)].state = state
    <3>1. Extends(h, d, c, state)
      BY <2>3, <2>4, <2>5, <2>6 DEF Extends
    <3> QED
      BY <3>1, ReplacementWellFormed
  <2>8. watermark' # None
    BY <1>12, TypedStep, <2>1, <2>4 DEF Watermarks
  <2>9. DirOK'
    BY <1>1, <2>1, <2>3, <2>7, <2>8 DEF DirOK, CommittedOK, ManifestOK
  <2>10. SaverOK(p)'
    BY <2>1, <2>7, <2>8 DEF SaverOK, Current, Writing, h, state
  <2> QED
    BY <1>1, <2>1, <2>9, <2>10, HolderMoves DEF SaversOK
<1>13. ASSUME NEW p \in Savers, WriteManifest(p) PROVE DirOK' /\ SaversOK'
  <2>1. UNCHANGED <<log, synced, watermark>> /\ watermark # None /\ pc[p] = "project"
    BY <1>1, <1>13 DEF WriteManifest, SaversOK, SaverOK
  <2>2. DirOK'
    BY <1>1, <2>1 DEF DirOK, CommittedOK, ManifestOK
  <2>3. SaverOK(p)' /\ \A q \in Savers : q # p => pc'[q] = pc[q]
    BY <1>1, <1>13 DEF WriteManifest, Leave, Goto, TInv, TypeOK, SaverOK, Writing
  <2> QED
    BY <1>1, <2>1, <2>2, <2>3, HolderMoves DEF SaversOK
<1>14. ASSUME NEW r \in Readers, Load(r) PROVE DirOK' /\ SaversOK'
  <2>1. UNCHANGED <<disk, savers>>
    BY <1>14 DEF Load, BeginLoad, CheckWatermark, ReadWatermark, ReadLog, ReadLegacy, EndLoad
  <2> QED
    BY <1>1, <1>3, <2>1 DEF SaversOK, SaverOK, DigestOK, savers, disk
<1>15. ASSUME PowerLoss PROVE DirOK' /\ SaversOK'
  <2>1. PICK n \in synced..Len(log) :
          \/ log' = SubSeq(log, 1, n)
          \/ n < Len(log) /\ log' = Append(SubSeq(log, 1, n), Torn)
    BY <1>15 DEF PowerLoss
  <2>2. /\ SubSeq(log, 1, n) \in Seq(Frames) /\ Len(SubSeq(log, 1, n)) = n
        /\ \A i \in 1..n : SubSeq(log, 1, n)[i] = log[i]
    BY <1>1, PrefixType
  <2>3. Len(log') \in Nat /\ Len(log') >= n /\ \A i \in 1..n : log'[i] = log[i]
    <3>1. CASE log' = SubSeq(log, 1, n)
      BY <1>1, <2>2, <3>1
    <3>2. CASE log' = Append(SubSeq(log, 1, n), Torn)
      <4> DEFINE s == SubSeq(log, 1, n)
      <4>1. s \in Seq(Frames) /\ Len(s) = n /\ \A i \in 1..n : s[i] = log[i]
        BY <2>2
      <4> HIDE DEF s
      <4>2. Len(Append(s, Torn)) = n + 1 /\ \A i \in 1..n : Append(s, Torn)[i] = s[i]
        BY <4>1, TornType, AppendProperties
      <4> QED
        BY <1>1, <3>2, <4>1, <4>2 DEF s
    <3> QED
      BY <2>1, <3>1, <3>2
  <2>4. UNCHANGED <<synced, watermark, manifest>> /\ \A q \in Savers : pc'[q] = "idle"
    BY <1>15 DEF PowerLoss
  <2>5. DirOK'
    BY <1>1, <2>3, <2>4 DEF DirOK, CommittedOK, ManifestOK, TInv, TypeOK, Watermarks
  <2> QED
    BY <2>4, <2>5 DEF SaversOK, SaverOK, Writing
<1>16. CASE UNCHANGED vars
  BY <1>1, <1>3, <1>16 DEF vars, savers, disk, SaversOK, SaverOK, DigestOK
<1> QED
  BY <1>4, <1>5, <1>6, <1>7, <1>8, <1>9, <1>10, <1>11, <1>12, <1>13, <1>14, <1>15, <1>16
     DEF Next, Save

\* Under FreshResave the invariant holds of every reachable state.
LEMMA Invariance ==
  ASSUME FreshResave
  PROVE  Spec => []IInv
<1>1. IInv /\ [Next]_vars => IInv'
  BY InductiveStep
<1> QED
  BY <1>1, InductiveInit, PTL DEF Spec

-----------------------------------------------------------------------------
(* What follows from it.                                                   *)

\* Readable: load_id never finds the directory corrupt, whatever is killed,
\* torn or lost, if no legacy session is saved back unchanged.
THEOREM AlwaysReadable ==
  ASSUME FreshResave
  PROVE  Spec => []Readable
<1>1. IInv => Readable
  <2> SUFFICES ASSUME IInv PROVE Loaded # Corrupt
    BY DEF Readable
  <2> QED
    BY LoadedIsCurrent DEF IInv, TInv
<1> QED
  BY <1>1, Invariance, PTL

\* SavedIsLoaded: what a save has committed is what load_id returns by the
\* time the save returns Ok.
THEOREM SavesAreLoaded ==
  ASSUME FreshResave
  PROVE  Spec => []SavedIsLoaded
<1>1. IInv => SavedIsLoaded
  <2> SUFFICES ASSUME IInv, NEW p \in Savers, pc[p] = "project"
               PROVE  Loaded = Stored(request[p])
    BY DEF SavedIsLoaded
  <2> QED
    BY LoadedIsCurrent DEF IInv, TInv, SaverOK
<1> QED
  BY <1>1, Invariance, PTL

\* Only Publish moves the watermark, and only a saver that has one behind it
\* turns session.json into a v3 manifest.
LEMMA StepKinds ==
  ASSUME IInv, [Next]_vars
  PROVE  \/ \E p \in Savers : Publish(p)
         \/ /\ watermark' = watermark
            /\ \/ manifest' = manifest
               \/ watermark # None /\ LoadLegacy(manifest)' = Corrupt
<1>1. ASSUME NEW p \in Savers, WriteManifest(p)
      PROVE  watermark' = watermark /\ watermark # None /\ LoadLegacy(manifest)' = Corrupt
  <2>1. watermark' = watermark /\ watermark # None
    BY <1>1 DEF WriteManifest, IInv, SaverOK
  <2>2. manifest' \in Manifests /\ manifest'.schema = 3
    BY <1>1, StoredType DEF WriteManifest, IInv, TInv, Exclusive, Manifests
  <2> QED
    BY <2>1, <2>2 DEF LoadLegacy
<1>2. ASSUME NEW p \in Savers, Save(p), ~WriteManifest(p), ~Publish(p)
      PROVE  watermark' = watermark /\ manifest' = manifest
  BY <1>2 DEF Save, BeginSave, LockSession, LockTimeout, RejectSave, KeepState, TruncateLog,
              AppendFrame, AppendFails, SyncLog, CommitFails, ManifestFails, Crash, disk
<1>3. ASSUME NEW r \in Readers, Load(r) PROVE watermark' = watermark /\ manifest' = manifest
  BY <1>3 DEF Load, BeginLoad, CheckWatermark, ReadWatermark, ReadLog, ReadLegacy, EndLoad, disk
<1>4. PowerLoss => watermark' = watermark /\ manifest' = manifest
  BY DEF PowerLoss
<1>5. UNCHANGED vars => watermark' = watermark /\ manifest' = manifest
  BY DEF vars, disk
<1> QED
  BY <1>1, <1>2, <1>3, <1>4, <1>5 DEF Next

\* A published watermark replaces the current state by the saver's.
LEMMA PublishStep ==
  ASSUME IInv, NEW p \in Savers, Publish(p)
  PROVE  /\ request[p] \in Calls
         /\ Current # Absent => MayReplace(Current, Stored(request[p]))
         /\ CommittedFrames' >= CommittedFrames
         /\ CommittedFrames' = Len(hashed[p])
         /\ log' = log
         /\ \A i \in 1..Len(hashed[p]) : log[i] = hashed[p][i]
         /\ watermark' \in Watermarks
         /\ watermark'.digest = hashed[p] /\ watermark'.frames = Len(hashed[p])
<1>1. DigestOK(p) /\ request[p] \in Calls /\ CommittedFrames <= Len(hashed[p])
  BY DEF Publish, IInv, TInv, Exclusive, SaverOK, Writing
<1>2. /\ watermark' = [frames |-> Len(hashed[p]), digest |-> hashed[p]]
      /\ log' = log
  BY DEF Publish
<1>3. watermark' \in Watermarks
  BY <1>2, LenProperties DEF IInv, TInv, TypeOK, Watermarks
<1>4. CommittedFrames' = Len(hashed[p])
  BY <1>2, <1>3 DEF CommittedFrames
<1>5. CommittedFrames \in Nat /\ Len(hashed[p]) \in Nat
  BY LenProperties DEF IInv, TInv, TypeOK, CommittedFrames, Watermarks
<1> QED
  BY <1>1, <1>2, <1>3, <1>4, <1>5 DEF DigestOK

\* No step touches a frame that is committed before it.
LEMMA CommittedStays ==
  ASSUME IInv, IInv', [Next]_vars
  PROVE  /\ CommittedFrames \in Nat
         /\ CommittedFrames' >= CommittedFrames
         /\ \A i \in 1..CommittedFrames : log'[i] = log[i]
<1>1. CommittedFrames \in Nat
  BY DEF IInv, TInv, TypeOK, CommittedFrames, Watermarks
<1>2. CASE \E p \in Savers : Publish(p)
  BY <1>1, <1>2, PublishStep
<1>3. CASE watermark' = watermark
  <2>1. CommittedFrames' = CommittedFrames
    BY <1>3 DEF CommittedFrames
  <2>2. ASSUME NEW i \in 1..CommittedFrames PROVE log'[i] = log[i]
    <3>1. watermark # None /\ i \in 1..watermark.frames
      BY <1>1, <2>2 DEF CommittedFrames
    <3> QED
      BY <1>3, <3>1 DEF IInv, CommittedOK
  <2> QED
    BY <1>1, <2>1, <2>2
<1> QED
  BY <1>1, <1>2, <1>3, StepKinds

\* PrefixStable: saves, failures and crashes leave the committed prefix of
\* events.jsonl alone, and it only grows.
THEOREM PrefixIsStable ==
  ASSUME FreshResave
  PROVE  Spec => PrefixStable
<1>1. IInv /\ IInv' /\ [Next]_vars =>
        [/\ CommittedFrames' >= CommittedFrames
         /\ SubSeq(log', 1, CommittedFrames) = SubSeq(log, 1, CommittedFrames)]_<<log, watermark>>
  <2> SUFFICES ASSUME IInv, IInv', [Next]_vars
               PROVE  /\ CommittedFrames' >= CommittedFrames
                      /\ SubSeq(log', 1, CommittedFrames) = SubSeq(log, 1, CommittedFrames)
    OBVIOUS
  <2> DEFINE c == CommittedFrames
             new == SubSeq(log', 1, c)
             old == SubSeq(log, 1, c)
  <2>1. /\ c \in Nat /\ c' >= c /\ \A i \in 1..c : log'[i] = log[i]
    BY CommittedStays
  <2>2. /\ log \in Seq(Frames) /\ log' \in Seq(Frames) /\ Len(log) \in Nat /\ Len(log') \in Nat
        /\ synced \in Nat /\ synced' \in Nat
    BY LenProperties DEF IInv, TInv, TypeOK
  <2>3. c <= Len(log)
    BY <2>1, <2>2 DEF IInv, CommittedOK, CommittedFrames
  <2>4. c' \in Nat /\ c' <= Len(log')
    BY <2>2 DEF IInv, TInv, TypeOK, Watermarks, CommittedOK, CommittedFrames
  <2>5. /\ old \in Seq(Frames) /\ Len(old) = c /\ \A i \in 1..c : old[i] = log[i]
    BY <2>1, <2>2, <2>3, PrefixType
  <2>6. /\ new \in Seq(Frames) /\ Len(new) = c /\ \A i \in 1..c : new[i] = log'[i]
    <3>1. c \in 0..Len(log')
      BY <2>1, <2>2, <2>4
    <3> QED
      BY <2>2, <3>1, PrefixType
  <2> HIDE DEF new, old, c
  <2>7. new = old
    BY <2>1, <2>5, <2>6, SeqEqual
  <2> QED
    BY <2>1, <2>7 DEF new, old, c
<1> QED
  BY <1>1, Invariance, PTL DEF Spec, PrefixStable

\* ImplementsRegister: with crashes, failed writes, power loss and lock-free
\* readers, the directory is one atomic register of a session.
THEOREM Refinement ==
  ASSUME FreshResave
  PROVE  Spec => ImplementsRegister
<1>1. Init => Register!Init
  <2> SUFFICES ASSUME Init PROVE Loaded \in Legacy \union {Absent}
    BY DEF Register!Init
  <2> QED
    BY InductiveInit, LoadedIsCurrent DEF IInv, TInv, Init
<1>2. IInv => Loaded = Current
  BY LoadedIsCurrent DEF IInv, TInv
<1>3. (IInv => Loaded = Current)'
  BY <1>2, PTL
<1>4. IInv /\ IInv' /\ [Next]_vars => [Register!Next]_Loaded
  <2> SUFFICES ASSUME IInv, IInv', [Next]_vars PROVE Register!Next \/ Loaded' = Loaded
    OBVIOUS
  <2>1. Loaded = Current
    BY <1>2
  <2>2. Loaded' = Current'
    BY <1>3
  <2>3. CASE \E p \in Savers : Publish(p)
    <3>1. PICK p \in Savers : Publish(p)
      BY <2>3
    <3>2. pc'[p] = "project" /\ request' = request
      BY <3>1 DEF Publish, Goto, IInv, TInv, TypeOK
    <3>3. Current' = Stored(request[p])
      BY <3>2 DEF IInv, SaverOK
    <3> QED
      BY <2>1, <2>2, <3>1, <3>3, PublishStep
         DEF Register!Next, Register!Commit, Register!Replaces, MayReplace
  <2>4. CASE watermark' = watermark /\ (watermark # None \/ manifest' = manifest)
    BY <2>1, <2>2, <2>4 DEF Current
  <2> QED
    BY <2>3, <2>4, StepKinds
<1> QED
  BY <1>1, <1>4, Invariance, PTL DEF Spec, Register!Spec, ImplementsRegister

-----------------------------------------------------------------------------
(* Lock-free readers.                                                      *)

\* A reader whose watermark is a prefix of the present one replays it.
LEMMA ReaderReplays ==
  ASSUME IInv, NEW r \in Readers, Attentive(r), ReaderOK(r), reader[r].at = "log"
  PROVE  Replay(log, reader[r].wm) \in reader[r].seen
<1> DEFINE wm == reader[r].wm
<1>1. /\ wm \in Watermarks /\ wm.frames = Len(wm.digest) /\ wm.frames \in Nat
      /\ WellFormed(wm.digest) /\ wm.frames <= watermark.frames
      /\ \A i \in 1..wm.frames : watermark.digest[i] = wm.digest[i]
      /\ wm.digest[wm.frames].state \in reader[r].seen
      /\ watermark # None
  BY DEF IInv, TInv, TypeOK, Attentive, ReaderOK, CommittedFrames, Watermarks
<1>2. /\ watermark.frames \in Nat /\ watermark.frames <= synced /\ synced \in Nat
      /\ log \in Seq(Frames) /\ Len(log) \in Nat /\ synced <= Len(log)
      /\ \A i \in 1..watermark.frames : log[i] = watermark.digest[i]
  BY <1>1, LenProperties DEF IInv, TInv, TypeOK, CommittedOK, Watermarks
<1> HIDE DEF wm
<1>3. ASSUME NEW i \in 1..wm.frames PROVE log[i] = wm.digest[i]
  <2>1. i \in 1..watermark.frames
    BY <1>1, <1>2
  <2> QED
    BY <1>1, <1>2, <2>1
<1>4. wm.frames <= Len(log)
  BY <1>1, <1>2
<1>5. Replay(log, wm) = wm.digest[wm.frames].state
  BY <1>1, <1>2, <1>3, <1>4, ReplayDigest
<1> QED
  BY <1>1, <1>5 DEF wm

LEMMA ReaderStep ==
  ASSUME LInv, IInv', (IInv => Loaded = Current)', [Next]_vars
  PROVE  \A r \in Readers : ReaderOK(r)'
<1>1. /\ IInv /\ TypeOK /\ Loaded = Current /\ Current \in SessionState \union {Absent}
      /\ watermark = None => Current \in Before
  BY LoadedIsCurrent DEF LInv, IInv, TInv, Before
<1>2. reader \in [Readers -> [at : LoadLabels, wm : Watermarks \union {None},
                              seen : SUBSET Results, got : Results]]
  BY <1>1 DEF TypeOK
<1>3. ASSUME NEW r \in Readers, reader'[r] = reader[r], watermark' = watermark,
             manifest' = manifest \/ (watermark # None /\ LoadLegacy(manifest)' = Corrupt)
      PROVE  ReaderOK(r)'
  <2>1. Current' = Current /\ CommittedFrames' = CommittedFrames
    BY <1>3 DEF Current, CommittedFrames
  <2>2. LoadLegacy(manifest)' = LoadLegacy(manifest)
        \/ (watermark # None /\ LoadLegacy(manifest)' = Corrupt)
    BY <1>3
  <2>3. ReaderOK(r)
    BY DEF LInv
  <2> QED
    BY <1>3, <2>1, <2>2, <2>3 DEF ReaderOK
<1>4. ASSUME NEW p \in Savers, Publish(p), NEW r \in Readers PROVE ReaderOK(r)'
  <2> DEFINE old == reader[r]
             h == hashed[p]
  <2>1. CASE old.at = "idle"
    BY <1>4, <2>1 DEF Publish, ReaderOK
  <2>2. CASE old.at # "idle"
    <3>1. reader'[r] = [old EXCEPT !.seen = old.seen \union {Loaded'}]
      BY <1>2, <1>4, <2>2 DEF Publish
    <3>2. /\ reader'[r].at = old.at /\ reader'[r].wm = old.wm /\ reader'[r].got = old.got
          /\ old.seen \subseteq reader'[r].seen /\ Current' \in reader'[r].seen
      BY <1>2, <3>1
    <3>3. ReaderOK(r) /\ Attentive(r) /\ manifest' = manifest
      BY <1>1, <1>4 DEF LInv, IInv, TInv, Publish
    <3>4. watermark' # None
      BY <1>4, PublishStep, <1>1
    <3>5. CASE old.at = "log"
      <4> DEFINE n == old.wm.frames
      <4>1. /\ watermark # None /\ old.wm \in Watermarks /\ n \in Nat /\ n <= CommittedFrames
            /\ CommittedFrames = watermark.frames /\ watermark.frames \in Nat
        BY <1>1, <1>2, <3>3, <3>5 DEF ReaderOK, Attentive, CommittedFrames, TypeOK, Watermarks
      <4>2. /\ CommittedFrames' = Len(h) /\ Len(h) >= CommittedFrames /\ Len(h) \in Nat
            /\ watermark'.digest = h /\ \A i \in 1..Len(h) : log[i] = h[i]
        BY <1>1, <1>4, PublishStep, LenProperties DEF TypeOK
      <4>3. ASSUME NEW i \in 1..n PROVE watermark'.digest[i] = old.wm.digest[i]
        <5>1. i \in 1..watermark.frames /\ i \in 1..Len(h)
          BY <4>1, <4>2
        <5>2. log[i] = watermark.digest[i]
          BY <1>1, <4>1, <5>1 DEF IInv, CommittedOK
        <5>3. watermark.digest[i] = old.wm.digest[i]
          BY <3>3, <3>5 DEF ReaderOK
        <5> QED
          BY <4>2, <5>1, <5>2, <5>3
      <4>4. old.wm.frames <= CommittedFrames'
        BY <4>1, <4>2
      <4> QED
        BY <3>2, <3>3, <3>5, <4>3, <4>4 DEF ReaderOK
    <3>6. CASE old.at # "log"
      BY <3>2, <3>3, <3>4, <3>6 DEF ReaderOK
    <3> QED
      BY <3>5, <3>6
  <2> QED
    BY <2>1, <2>2
<1>5. ASSUME NEW q \in Readers, Load(q), NEW r \in Readers PROVE ReaderOK(r)'
  <2>1. watermark' = watermark /\ manifest' = manifest /\ log' = log
    BY <1>5 DEF Load, BeginLoad, CheckWatermark, ReadWatermark, ReadLog, ReadLegacy, EndLoad, disk
  <2>2. ReaderOK(r) /\ Attentive(r)
    BY <1>1 DEF LInv, IInv, TInv
  <2>3. CASE r # q
    <3>1. reader'[r] = reader[r]
      BY <1>2, <1>5, <2>3 DEF Load, BeginLoad, CheckWatermark, ReadWatermark, ReadLog,
                              ReadLegacy, EndLoad, Finish
    <3> QED
      BY <1>3, <2>1, <3>1
  <2>4. CASE r = q
    <3>1. Current' = Current /\ CommittedFrames' = CommittedFrames
      BY <2>1 DEF Current, CommittedFrames
    <3>2. CASE BeginLoad(r)
      BY <1>1, <1>2, <3>1, <3>2 DEF BeginLoad, IdleReader, ReaderOK
    <3>3. CASE CheckWatermark(r)
      <4>1. reader'[r].seen = reader[r].seen /\ Current \in reader[r].seen
        BY <1>2, <2>2, <3>3 DEF CheckWatermark, ReaderOK
      <4>2. CASE watermark # None
        BY <1>2, <2>1, <3>1, <3>3, <4>1, <4>2 DEF CheckWatermark, ReaderOK
      <4>3. CASE watermark = None
        <5>1. reader'[r].at = "legacy"
          BY <1>2, <3>3, <4>3 DEF CheckWatermark
        <5>2. LoadLegacy(manifest) = Current /\ Current \in Before
          BY <1>1, <4>3 DEF Current
        <5> QED
          BY <2>1, <4>1, <5>1, <5>2 DEF ReaderOK
      <4> QED
        BY <4>2, <4>3
    <3>4. CASE ReadWatermark(r)
      <4>1. /\ reader'[r].at = "log" /\ reader'[r].wm = watermark
            /\ reader'[r].seen = reader[r].seen /\ Current \in reader[r].seen
            /\ watermark # None
        BY <1>2, <2>2, <3>4 DEF ReadWatermark, ReaderOK, Attentive
      <4>2. CommittedFrames = watermark.frames /\ Current = watermark.digest[watermark.frames].state
            /\ watermark.frames \in Nat
        BY <1>1, <4>1 DEF CommittedFrames, Current, TypeOK, Watermarks
      <4> QED
        BY <1>1, <2>1, <3>1, <4>1, <4>2 DEF ReaderOK, IInv, CommittedOK
    <3>5. CASE ReadLog(r)
      <4>1. Replay(log, reader[r].wm) \in reader[r].seen
        BY <1>1, <2>2, <3>5, ReaderReplays DEF ReadLog
      <4> QED
        BY <1>2, <3>5, <4>1 DEF ReadLog, Finish, ReaderOK
    <3>6. CASE ReadLegacy(r)
      BY <1>2, <2>1, <2>2, <3>6 DEF ReadLegacy, Finish, ReaderOK
    <3>7. CASE EndLoad(r)
      BY <1>2, <3>7 DEF EndLoad, IdleReader, ReaderOK
    <3> QED
      BY <1>5, <2>4, <3>2, <3>3, <3>4, <3>5, <3>6, <3>7 DEF Load
  <2> QED
    BY <2>3, <2>4
<1>6. PowerLoss => \A r \in Readers : ReaderOK(r)'
  BY DEF PowerLoss, IdleReader, ReaderOK
<1>7. ASSUME NEW p \in Savers, Save(p), ~Publish(p) PROVE reader' = reader
  BY <1>7 DEF Save, BeginSave, LockSession, LockTimeout, RejectSave, KeepState, TruncateLog,
              AppendFrame, AppendFails, SyncLog, CommitFails, WriteManifest, ManifestFails, Crash
<1>8. UNCHANGED vars => reader' = reader
  BY DEF vars
<1>9. CASE reader' = reader /\ ~(\E p \in Savers : Publish(p))
  BY <1>1, <1>3, <1>9, StepKinds
<1> QED
  BY <1>4, <1>5, <1>6, <1>7, <1>8, <1>9 DEF Next

\* LoadsConsistent: a load without the lock returns a state the session had
\* while it ran; only the very first commit can make it report corruption.
THEOREM LoadsAreConsistent ==
  ASSUME FreshResave
  PROVE  Spec => []LoadsConsistent
<1>1. Init => LInv
  <2>1. ASSUME Init, NEW r \in Readers PROVE ReaderOK(r)
    BY <2>1 DEF Init, IdleReader, ReaderOK
  <2> QED
    BY <2>1, InductiveInit DEF LInv
<1>2. IInv => Loaded = Current
  BY LoadedIsCurrent DEF IInv, TInv
<1>3. (IInv => Loaded = Current)'
  BY <1>2, PTL
<1>4. LInv /\ [Next]_vars => LInv'
  BY <1>3, InductiveStep, ReaderStep DEF LInv
<1>5. LInv => LoadsConsistent
  BY DEF LInv, ReaderOK, LoadsConsistent, Before
<1> QED
  BY <1>1, <1>4, <1>5, PTL DEF Spec

===============================================================================
