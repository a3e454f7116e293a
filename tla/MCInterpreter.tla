---------------------------- MODULE MCInterpreter ----------------------------
(* interpreter() on every short vector of the whole instruction set.       *)
EXTENDS Interpreter, FiniteSets

CONSTANT MaxCode

LOCAL INSTANCE ExtendedTexts

\* A body called from a loop, a recursion that ends, a lambda defined in
\* another, a pointer that leaves the tape, input to its end.
Examples == {
  << "(", "-", ")", "+", "+", "[", "!", "]", "." >>,
  << "(", "-", "[", "!", "]", ")", "+", "+", "+", "!", "!" >>,
  << ">", "(", "(", "+", ")", "!", ")", "<", "!", "!", "." >>,
  << "(", ">", "+", ")", "!", ">", "!", ">", ".", ">", "0" >>,
  << ",", "[", ".", "-", "]", ",", "0", ".", "<", "<", "+" >> }

MCPrograms ==
  {Extended(s) : s \in Examples} \cup ExtendedOver({"+", ">", "[", "]", "(", ")", "!"}, MaxCode)

MCInputs == {<< >>, <<1, 2>>}

\* The program "Cat" of test.c:351-353, ,[.,] with two bytes on stdin.
Cat      == {Extended(<< ",", "[", ".", ",", "]" >>)}
CatInput == {<<1, 2>>}

\* What test.c:351-353 expects of it: it writes what it read and no more.
CatEchoesItsInput ==
  \A s \in CatInput : Len(output) <= Len(s) /\ output = SubSeq(s, 1, Len(output))

\* The program "Echo" of test.c:347-349 on one byte, and what test.c:199 and
\* 347-349 expect of what interpreter() has written when it returns: that byte.
Echo      == {Extended(<< ",", "." >>)}
EchoInput == {<<1>>}

EchoWritesItsInput == status = "halted" => output = <<1>>
=============================================================================
