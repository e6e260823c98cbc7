----------------------------- MODULE EventReplay -----------------------------
(***************************************************************************)
(* The loop of replay_committed, frame by frame, against EventLog's        *)
(* reading of a prefix.  An accepted prefix grows by any frame whatever,   *)
(* so every sequence of at most MaxLen frames is read up to the frame that *)
(* makes the loop return an error.                                         *)
(***************************************************************************)
EXTENDS EventLog

CONSTANTS
  Alphabet,   \* the frames a prefix is made of, sequence numbers aside
  MaxLen      \* bound on the length of a prefix

\* What stands for no replacement is none.
ASSUME ReplayAssumption ==
  Alphabet \subseteq Frames /\ MaxLen \in Nat /\ None \notin [state : SessionState, next : Nat]

VARIABLE prefix

\* The loop's state: the pending replacement, the last committed state, and
\* whether every frame so far was accepted.
Start == [pending |-> None, session |-> None, ok |-> TRUE]

Refuse(acc) == [acc EXCEPT !.ok = FALSE]

\* state_replacement_started: replacements do not nest.
ApplyStarted(acc, f) ==
  IF acc.pending # None
  THEN Refuse(acc)
  ELSE [acc EXCEPT !.pending = [state |-> f.state, next |-> 0]]

\* state_replacement_chunk: the next chunk of the pending replacement.
ApplyChunk(acc, f) ==
  IF \/ acc.pending = None
     \/ acc.pending # None /\ (\/ acc.pending.state # f.state
                               \/ acc.pending.next # f.part - 1)
  THEN Refuse(acc)
  ELSE [acc EXCEPT !.pending.next = @ + 1]

\* Mutant: a replacement is committed before its last chunk.
ApplyCommittedEarly(acc, f) ==
  IF \/ acc.pending = None
     \/ acc.pending # None /\ acc.pending.state # f.state
  THEN Refuse(acc)
  ELSE [acc EXCEPT !.pending = None, !.session = f.state]

\* state_replacement_committed: all chunks of the pending one are there.
ApplyCommitted(acc, f) ==
  IF \/ acc.pending = None
     \/ acc.pending # None /\ (\/ acc.pending.state # f.state
                               \/ acc.pending.next # ChunksOf[f.state.text])
  THEN Refuse(acc)
  ELSE [acc EXCEPT !.pending = None, !.session = f.state]

ApplyEvent(acc, f) ==
  IF f.part = 0 THEN ApplyStarted(acc, f)
  ELSE IF f.part = LastPart(f.state) THEN ApplyCommitted(acc, f)
  ELSE ApplyChunk(acc, f)

\* One turn of the loop: a torn frame does not parse, the sequence is exact.
ReplayFrame(acc, f, i) ==
  IF \/ f.state = None
     \/ f.seq # i
     \/ f.state # None /\ f.part > LastPart(f.state)
  THEN Refuse(acc)
  ELSE ApplyEvent(acc, f)

AfterLoop(frames) ==
  LET after[n \in 0 .. Len(frames)] ==
        IF n = 0 THEN Start ELSE ReplayFrame(after[n - 1], frames[n], n)
  IN  after[Len(frames)]

ReplayLoop ==
  LET end == AfterLoop(prefix)
  IN  IF end.ok /\ end.pending = None /\ end.session # None THEN end.session ELSE Corrupt

ReplayInit == prefix = << >>

ReplayNext ==
  /\ Len(prefix) < MaxLen
  /\ AfterLoop(prefix).ok
  /\ \E f \in Alphabet, skew \in {0, 1} :
       prefix' = Append(prefix, [f EXCEPT !.seq = Len(prefix) + 1 + skew])

ReplaySpec == ReplayInit /\ [][ReplayNext]_prefix

\* The incremental reader accepts exactly the well-formed prefixes, and what
\* it returns is the state of their last replacement.
LoopReadsPrefix ==
  ReplayLoop = IF WellFormed(prefix) THEN prefix[Len(prefix)].state ELSE Corrupt

===============================================================================
