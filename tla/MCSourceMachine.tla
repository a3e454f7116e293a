--------------------------- MODULE MCSourceMachine ---------------------------
(* interpreter() on the optimised vector of a text, against the text.      *)
EXTENDS Interpreter, FiniteSets

CONSTANTS MaxText, MaxBurst

LOCAL INSTANCE Texts
LOCAL INSTANCE Collapsing

\* Two variables that never change: the text that code comes from, and where
\* in it each opcode begins.
VARIABLES text, places

\* Nested loops, clear loops among others, comments, input to its end.
Examples == {
  << "+", "+", "[", ">", "+", "[", "-", "]", "<", "-", "]", ">", "." >>,
  << "x", ",", "[", ".", "x", "[", "+", "]", "x", ",", "]", "x" >>,
  << ",", ">", ",", "[", "[", "<", "+", ">", "-", "]", "]", "<", "." >> }

MCSources == Examples \cup ProgramsOver({"+", "-", ">", ".", "x", "[", "]"}, MaxText)

MCInputs == {<< >>, <<1, 2>>}

MCPrograms == {Optimised(Translate(s)) : s \in MCSources}

\* The position in s where the opcode at C index k of its optimised vector
\* begins; past the end for the end.
PlaceOf(s, k) ==
  LET old == OldIndex(Translate(s), k)
  IN  IF \E n \in Starts(s) : IndexOf(s, n) = old
      THEN CHOOSE n \in Starts(s) : IndexOf(s, n) = old
      ELSE Len(s) + 1

MCInit ==
  /\ text \in MCSources
  /\ code = Optimised(Translate(text))
  /\ places = [k \in 0 .. Len(code) |-> PlaceOf(text, k)]
  /\ Init

MCNext == Next /\ UNCHANGED <<text, places>>

MCSpec == MCInit /\ [][MCNext]_<<vars, text, places>>

\* What the opcodes wrote; the line with the time is no part of the meaning.
Written == SelectSeq(output, LAMBDA v : v # TimeLine)

Source == INSTANCE SourceMachine WITH
  pos <- places[pc], output <- Written, Sources <- MCSources, Inputs <- MCInputs

ImplementsSource == Source!Spec
=============================================================================
