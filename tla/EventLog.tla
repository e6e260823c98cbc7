------------------------------ MODULE EventLog ------------------------------
(***************************************************************************)
(* The frames of events.jsonl and the reading of a committed prefix        *)
(* (fx-store/src/lib.rs, replay_committed and apply_event).                *)
(*                                                                         *)
(* Random identifiers (event, replacement and log generation ids) are left *)
(* out: each is compared only with a copy written by the same save, which  *)
(* the digest of the prefix covers.  A session state is [identity,         *)
(* updated, text]: identity stands for id, created_at_ms and               *)
(* origin_workspace_root.  A frame carries the whole state it is a part    *)
(* of, in place of its bytes.                                              *)
(***************************************************************************)
EXTENDS Naturals, Sequences

CONSTANTS
  Identities, Texts,
  ChunksOf,    \* number of RAW_STATE_CHUNK_BYTES chunks a text encodes to
  Corrupt,     \* SessionStoreError::Corrupt
  None         \* no state, no file

SessionState == [identity : Identities, updated : Nat, text : Texts]

ASSUME LogAssumption ==
  /\ ChunksOf \in [Texts -> Nat \ {0}]
  /\ Corrupt \notin SessionState
  /\ None \notin SessionState

-----------------------------------------------------------------------------
(* Frames.  Part 0 is state_replacement_started, parts 1..n the chunks and *)
(* part n+1 state_replacement_committed of the replacement by `state`.     *)

LastPart(s) == ChunksOf[s.text] + 1

Frame == [seq : Nat, part : Nat, state : SessionState]
Frames == [seq : Nat, part : Nat, state : SessionState \union {None}]
Torn == [seq |-> 0, part |-> 0, state |-> None]

\* apply_event on a frame, given the frame before it: what is pending after a
\* frame is determined by that frame alone.
Follows(f, before) ==
  IF f.part = 0
  THEN before.part = LastPart(before.state)
  ELSE before.state = f.state /\ before.part + 1 = f.part

\* replay_committed accepts a prefix: every frame is whole and in sequence,
\* parts follow one another, and no replacement is pending at the end.
WellFormed(prefix) ==
  /\ prefix # << >>
  /\ \A i \in 1..Len(prefix) :
       /\ prefix[i].seq = i
       /\ prefix[i].state # None
       /\ prefix[i].part <= LastPart(prefix[i].state)
  /\ prefix[1].part = 0
  /\ \A i \in 2..Len(prefix) : Follows(prefix[i], prefix[i - 1])
  /\ prefix[Len(prefix)].part = LastPart(prefix[Len(prefix)].state)

===============================================================================
