--------------------------- MODULE SessionRegister ---------------------------
(***************************************************************************)
(* What the durable session port promises of one session: a register that  *)
(* holds nothing or one session state, and that a save replaces in one     *)
(* step by a state with the same identity and a time stamp that does not   *)
(* go back.  A failed save, a crash, or a reader is a stuttering step.     *)
(***************************************************************************)
EXTENDS Naturals

CONSTANTS
  States,     \* the session states that may be stored
  Initial,    \* what the register may hold at first: Absent or a legacy state
  Absent      \* no session under this id

VARIABLE value

\* validate_replacement: identity is immutable and time does not go back.
Replaces(old, new) ==
  old # Absent => /\ new.identity = old.identity
                  /\ new.updated >= old.updated

Init == value \in Initial

Commit(s) ==
  /\ Replaces(value, s)
  /\ value' = s

Next == \E s \in States : Commit(s)

Spec == Init /\ [][Next]_value

===============================================================================
