----------------------------- MODULE Translation -----------------------------
(***************************************************************************)
(* What scanner() promises: in one step it returns the opcode vector of a  *)
(* program, refuses a text that is none, or runs out of memory.  The       *)
(* abstract specification that Scanner implements, not a model of code.    *)
(***************************************************************************)
EXTENDS Texts

CONSTANT Sources

VARIABLES src, out, status

-----------------------------------------------------------------------------
Init == src \in Sources /\ out = << >> /\ status = "scanning"

Accept ==
  /\ IsProgram(src)
  /\ out' = Translate(src)
  /\ status' = "ok"

Reject ==
  /\ ~IsProgram(src)
  /\ status' = IF NeverNegative(src) THEN "unmatched_open" ELSE "unmatched_close"
  /\ out' = out

RunOutOfMemory == status' = "oom" /\ out' = out

Next ==
  /\ status = "scanning"
  /\ Accept \/ Reject \/ RunOutOfMemory
  /\ src' = src

Spec == Init /\ [][Next]_<<src, out, status>>
=============================================================================
