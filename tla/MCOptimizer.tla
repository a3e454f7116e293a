----------------------------- MODULE MCOptimizer -----------------------------
(* optimize() on the opcode vector of every short program.                 *)
EXTENDS Optimizer

CONSTANTS MaxMixed, MaxLoops

LOCAL INSTANCE Texts

MCPrograms == ProgramsOver({"+", "-", "[", "]"}, MaxMixed)
              \cup ProgramsOver({"-", "[", "]"}, MaxLoops)

MCInputs == {Translate(s) : s \in MCPrograms}
=============================================================================
