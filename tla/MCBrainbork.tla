----------------------------- MODULE MCBrainbork -----------------------------
(* Whole executions of the program, from command line to exit code.        *)
EXTENDS Brainbork

CONSTANT Fuel    \* commands that are enough to end every program that ends

Source == INSTANCE SourceMachine WITH pos <- 0, Sources <- {}, MaxBurst <- 0

MCCommandLines == {
  << >>, <<"-i">>, <<"a.bf">>, <<"-i", "a.bf">>, <<"a.bf", "-j">>, <<"-j", "a.bf", "-i">>,
  <<"a.bf", "-i", "b.bf">>, <<"-i", "-x", "a.bf">> }

MCFiles == {"a.bf", "b.bf"}

\* Nothing; input and output; loops and a clear loop; an end of file; text
\* after a NUL; brackets that do not match; leaving the tape; a program too
\* long for the JIT's buffer.
MCContents == {
  << >>,
  << ",", "x", ".", ",", "." >>,
  << ",", "[", ".", "-", "]", ">", "." >>,
  << "+", "+", "[", ">", "+", "[", "-", "]", "<", "-", "]", ">", "." >>,
  << "+", ".", "NUL", "]" >>,
  << "+", "[" >>,
  << "]", "+" >>,
  << ".", "<", "." >>,
  << ".", "[", "]", "[", "]", "[", "]", "[", "]", "." >> }

MCInputs == {<< >>, <<1, 2, 1>>}

MCHosts == {"x86_64", "other"}

\* What text can have come to with in on stdin, after out has been written.
Outcomes(in, out) ==
  Source!Within(text, [Source!Start(text, in) EXCEPT !.output = out], Fuel)

\* What has been read and written is what the text, taken command by command,
\* can have read and written so far; all of it when the execution is over.
Agrees(in, out, over) ==
  \E m \in Outcomes(in, out) :
    m.input = input /\ m.output = output /\ (over => Source!Over(text, m))

(***************************************************************************)
(* Whatever runs has read from stdin and written to stdout what the        *)
(* program's text says, and the interpreter, when it is done, its line     *)
(* with the time as well (vm.c:130).  With -i and -j the JIT starts again  *)
(* on what the interpreter left of stdin, and what it writes comes after   *)
(* that line (main.c:115-126).  The text of usage(), printed when nothing  *)
(* is run, is left out.                                                    *)
(***************************************************************************)
OutputIsTheMeaning ==
  IF interpreted # "halted" THEN Agrees(stdin, << >>, exit = {0} /\ modes # {})
  ELSE \E m \in Outcomes(stdin, << >>) :
         LET written == Append(m.output, TimeLine)
         IN  /\ Source!Over(text, m)
             /\ IF phase \in X!Starting \cup {"failed"}
                THEN input = m.input /\ output = written
                ELSE Agrees(m.input, written, exit = {0})
=============================================================================
