---------------------------- MODULE MCAarch64Jit -----------------------------
(* The AArch64 backend on the optimised vector of every short program, and *)
(* on every short vector of the whole instruction set.                     *)
EXTENDS Aarch64Jit

CONSTANTS MaxMixed, MaxLoops, MaxCode

LOCAL INSTANCE ExtendedTexts
LOCAL INSTANCE Collapsing

Examples == {
  << ",", "[", "[", ".", ",", "]", ",", "]", "." >>,
  << ",", ".", "[", "[", "-", "]", "]", ",", "[", ".", "]", ">" >> }

\* A body between loops, a definition in a body, a definition in a loop.
LambdaExamples == {
  << ",", "[", ".", "(", "[", ",", "]", ")", "]", "." >>,
  << ",", "(", ".", "(", ",", ")", "!", ")", "!" >>,
  << "(", "[", "[", ",", "]", "]", ")", "(", ")", "." >> }

MCPrograms ==
  {Optimised(Translate(s)) :
     s \in Examples \cup ProgramsOver({"+", ",", ".", "[", "]"}, MaxMixed)
                    \cup ProgramsOver({",", "[", "]"}, MaxLoops)}
  \cup (IF MaxCode = 0 THEN {} ELSE {Extended(s) : s \in LambdaExamples})
  \cup ExtendedOver({",", "[", "]", "(", ")", "!"}, MaxCode)

MCInputs == {<< >>, <<0>>, <<1, 0, 2>>}

\* The program "Echo" of test.c:347-349 on one byte.
Echo      == {Translate(<< ",", "." >>)}
EchoInput == {<<1>>}

\* The opcode whose code holds ip; the thunk after the call counts for the
\* end of the program.
PcOf ==
  LET reached == {k \in DOMAIN addrs : addrs[k] <= ip}
  IN  CASE phase \in {"run", "undefined"} /\ ip < start ->
             Max({0} \cup {k - 1 : k \in reached})
        [] phase = "run" /\ ip > start /\ Current.name = "ret" -> Len(code)
        [] OTHER -> 0

\* A byte has been read and is in w0, not yet in the tape: only getchar is
\* followed by a strb that is reached.
Reading == Here({"strb"})

\* Code with the opcodes of the lambda syntax, which needs the helpers of
\* jit_runtime.c, is not compared.
Compared ==
  \A k \in DOMAIN code : code[k].op \notin {"op_def_lambda", "op_ret", "op_call"}

Interp == INSTANCE Interpreter WITH
  mem       <- CASE ~Compared            -> ZeroTape
                 [] Compared /\ Reading -> [mem EXCEPT ![p] = w0]
                 [] OTHER                -> mem,
  p         <- IF Compared THEN p ELSE 0,
  pc        <- IF ~Compared THEN 0 ELSE IF Reading THEN PcOf + 1 ELSE PcOf,
  input     <- IF Compared THEN input ELSE << >>,
  output    <- IF Compared THEN output ELSE << >>,
  lambdas   <- Freed,
  calls     <- Freed,
  status    <- "running",
  MaxFrames <- 0,
  Programs  <- {c \in Seq(Opcode) : WellFormed(c)},
  Inputs    <- Seq(Byte)

\* As far as it gets, the emitted code does what interpreter() does with the
\* same vector; it may stop anywhere, and does.
ImplementsInterpreter == Interp!Spec
=============================================================================
