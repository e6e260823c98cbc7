---------------------------- MODULE PatternFeed ----------------------------
(***************************************************************************)
(* pattern_feed of fx-process/src/monitor.rs: the matcher that searches    *)
(* terminal output for a literal or a wildcard pattern, chunk by chunk.    *)
(* Its bit set is the set of the pattern positions reached so far; it is   *)
(* persisted with the monitor between two chunks.                          *)
(***************************************************************************)
EXTENDS Integers, Sequences

Star == "*"
AnyOne == "?"

\* epsilon_closure: a reached star may also stand for nothing.
Closure(pattern, wildcard, reached) ==
  IF ~wildcard THEN reached
  ELSE reached \union
       {j \in 1..Len(pattern) :
          \E k \in reached : k < j /\ \A i \in k + 1..j : pattern[i] = Star}

\* Mutant: the positions reached before the byte are not forgotten.
AdvanceKeepingOld(pattern, wildcard, reached, byte) ==
  reached \union {k + 1 : k \in {k \in reached : k < Len(pattern) /\ pattern[k + 1] = byte}}

\* One byte: the search may begin again at 0, a star stays, and a position
\* whose token accepts the byte moves on.
Advance(pattern, wildcard, reached, byte) ==
  LET Stays(k) == wildcard /\ pattern[k + 1] = Star
      Accepts(k) == pattern[k + 1] = byte \/ (wildcard /\ pattern[k + 1] = AnyOne)
      alive == {k \in reached : k < Len(pattern)}
  IN  Closure(pattern, wildcard,
              {0} \union {k \in alive : Stays(k)}
                  \union {k + 1 : k \in {k \in alive : ~Stays(k) /\ Accepts(k)}})

\* The rest of a chunk is not read once the pattern has been found.
FeedByte(pattern, wildcard, so, byte) ==
  IF so.hit THEN so
  ELSE LET next == Advance(pattern, wildcard, so.reached, byte)
       IN  [reached |-> next, hit |-> Len(pattern) \in next]

\* pattern_feed: [reached, hit] after a chunk.
PatternFed(pattern, wildcard, reached, chunk) ==
  LET start == [reached |-> Closure(pattern, wildcard, reached \union {0}), hit |-> FALSE]
      after[n \in 0 .. Len(chunk)] ==
        IF n = 0 THEN start ELSE FeedByte(pattern, wildcard, after[n - 1], chunk[n])
      end == after[Len(chunk)]
  IN  [reached |-> end.reached, hit |-> Len(pattern) \in end.reached]

===============================================================================
