--------------------------- MODULE MCPatternFeed ---------------------------
(***************************************************************************)
(* The chunked matcher against its definition: a pattern is found in what  *)
(* has been fed exactly when some stretch of it matches the pattern.       *)
(***************************************************************************)
EXTENDS PatternFeed

CONSTANTS
  Letters,      \* bytes that are no wildcard token
  MaxPattern,   \* bound on the length of a pattern
  MaxPiece,     \* bound on the length of one chunk
  MaxFed        \* bound on the bytes fed in all

\* The bounds are numbers.
ASSUME SearchAssumption == MaxPattern \in Nat /\ MaxPiece \in Nat /\ MaxFed \in Nat

VARIABLES pattern, wildcard, fed, matcher

searchVars == <<pattern, wildcard, fed, matcher>>

Strings(letters, n) == UNION {[1..k -> letters] : k \in 0..n}

\* Where what token k of pattern p takes of text, after place d, can end.
TokenEnds(p, wild, text, k, d) ==
  IF wild /\ p[k] = Star THEN d .. Len(text)
  ELSE {e \in 1 .. Len(text) : e = d + 1 /\ (p[k] = text[e] \/ (wild /\ p[k] = AnyOne))}

\* Some stretch of text matches the whole of pattern p: ends[k] is where a stretch that the
\* first k tokens match, begun anywhere, can end.
Occurs(p, wild, text) ==
  LET ends[k \in 0 .. Len(p)] ==
        IF k = 0 THEN 0 .. Len(text)
        ELSE UNION {TokenEnds(p, wild, text, k, d) : d \in ends[k - 1]}
  IN  ends[Len(p)] # {}

SearchInit ==
  /\ pattern \in Strings(Letters \union {Star, AnyOne}, MaxPattern) \ {<< >>}
  /\ wildcard \in BOOLEAN
  /\ fed = << >>
  /\ matcher = [reached |-> {}, hit |-> FALSE]

Feed(chunk) ==
  /\ ~matcher.hit
  /\ Len(fed) + Len(chunk) <= MaxFed
  /\ fed' = fed \o chunk
  /\ matcher' = PatternFed(pattern, wildcard, matcher.reached, chunk)
  /\ UNCHANGED <<pattern, wildcard>>

SearchNext == \E chunk \in Strings(Letters, MaxPiece) \ {<< >>} : Feed(chunk)

SearchSpec == SearchInit /\ [][SearchNext]_searchVars

\* What pattern_feed reports of chunks, whatever the boundaries between them,
\* is whether the output fed so far contains a match of the pattern
\* (condition output_contains and output_matches).
FoundIffContained == fed # << >> => (matcher.hit <=> Occurs(pattern, wildcard, fed))

===============================================================================
