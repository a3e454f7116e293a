------------------------------ MODULE MCX86Jit -------------------------------
(* The JIT on the optimised vector of every short program, and on every    *)
(* short vector of the whole instruction set.                              *)
EXTENDS X86JitMapping

CONSTANTS MaxMixed, MaxLoops, MaxCode

LOCAL INSTANCE ExtendedTexts
LOCAL INSTANCE Collapsing

\* Nested loops, pointer moves, input to its end, and a program that is too
\* long for the buffer.
Examples == {
  << "+", "+", "[", "[", "-", ">", "+", "<", "]", ">", "]", "." >>,
  << ",", "[", ".", ",", "]" >>,
  << ",", "[", ">", ",", "]", "<", "[", ".", "<", "]" >>,
  << ".", ",", ".", ",", ".", ",", ".", ",", "." >> }

\* A body between loops and moves, a definition in a body, a body that is a
\* loop, a definition inside a loop.
LambdaExamples == {
  << "+", "[", "-", "(", "[", "-", "]", ")", "]", "+" >>,
  << ">", "(", "+", "(", "-", ")", "!", ")", "!" >>,
  << "(", "[", "[", "-", "]", "]", ")", "(", ")", "." >> }

MCPrograms ==
  {Optimised(Translate(s)) :
     s \in Examples \cup ProgramsOver({"+", "<", ">", "[", "]", "."}, MaxMixed)
                    \cup ProgramsOver({"-", "[", "]"}, MaxLoops)}
  \cup (IF MaxCode = 0 THEN {} ELSE {Extended(s) : s \in LambdaExamples})
  \cup ExtendedOver({"+", "[", "]", "(", ")", "!"}, MaxCode)

MCInputs == {<< >>, <<1, 2>>}

\* What RunsAsInterpreter (X86Jit_proofs) asks of the programs.
ASSUME MCMovesAreFew == MovesAreFew

\* Nothing but stdin can block either the compiler or the emitted code.
MCSpec == MappedSpec /\ WF_vars(MappedNext)
=============================================================================
