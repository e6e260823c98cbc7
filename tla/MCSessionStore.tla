--------------------------- MODULE MCSessionStore ---------------------------
(* Small instances of SessionStore for TLC. *)
EXTENDS SessionStore, FiniteSets, TLC

MCIdentities == {"mine", "other"}

\* "key" holds a secret and is stored as "mask"; "long" takes two chunks.
MCTexts == {"short", "long", "key", "mask"}
MCScrub == [t \in MCTexts |-> IF t = "key" THEN "mask" ELSE t]
MCChunksOf == [t \in MCTexts |-> IF t = "long" THEN 2 ELSE 1]

State(i, u, t) == [identity |-> i, updated |-> u, text |-> t]

MCCalls == {State("mine", 1, "long"), State("mine", 2, "key"), State("mine", 2, "short"),
            State("other", 2, "short")}
MCLegacy == {State("mine", 0, "key"), State("mine", 1, "short")}

SaverSymmetry == Permutations(Savers)

===============================================================================
