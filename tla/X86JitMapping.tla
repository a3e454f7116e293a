---------------------------- MODULE X86JitMapping ----------------------------
(***************************************************************************)
(* What running the emitted x86-64 code means in terms of interpreter():   *)
(* the refinement mapping from X86Jit to Interpreter.                      *)
(***************************************************************************)
EXTENDS X86Jit

\* The opcode whose code holds ip: the prologue and the start of the thunk
\* count for the first opcode, both parts of a jump for the jump, and the
\* epilogue and the end of the thunk for the end of the program.
PcOf ==
  LET reached == {k \in DOMAIN addrs : addrs[k] <= ip}
  IN  CASE phase = "returned" -> Len(code)
        [] phase \in {"run", "undefined"} /\ ip < start ->
             Max({0} \cup {k - 1 : k \in reached})
        [] phase = "run" /\ ip > start /\ Current.name = "ret" -> Len(code)
        [] OTHER -> 0

\* A history variable: the data pointer while the program's own code runs.
\* The epilogue restores rbx, which interpreter() has no counterpart of.
VARIABLE pointer

InBodyOf(at) == at >= Length(Prologue) /\ at <= addrs[Len(code) + 1]

mapped == <<vars, pointer>>

MappedInit == Init /\ pointer = 0

MappedNext ==
  /\ Next
  /\ pointer' = IF phase' = "run" /\ InBodyOf(ip') THEN PtrPlus(p', 0) ELSE pointer

MappedSpec == MappedInit /\ [][MappedNext]_mapped

\* What of the state interpreter() has too.  Code with the opcodes of the
\* lambda syntax, which needs the helpers of jit_runtime.c, is not compared.
Compared ==
  \A k \in DOMAIN code : code[k].op \notin {"op_def_lambda", "op_ret", "op_call"}

Status == CASE phase = "returned"  -> "halted"
            [] phase = "undefined" -> "undefined"
            [] OTHER               -> "running"

\* interpreter() ends by printing how long it took; the emitted code does not.
WithTimeLine == IF phase = "returned" THEN Append(output, TimeLine) ELSE output

Interp == INSTANCE Interpreter WITH
  mem     <- IF Compared THEN mem ELSE ZeroTape,
  p       <- IF Compared THEN pointer ELSE 0,
  pc      <- IF Compared THEN PcOf ELSE 0,
  input   <- IF Compared THEN input ELSE << >>,
  output  <- IF Compared THEN WithTimeLine ELSE << >>,
  status  <- IF Compared THEN Status ELSE "running",
  lambdas <- Freed,
  calls   <- Freed,
  MaxFrames <- 0,
  Programs <- {c \in Seq(Opcode) : WellFormed(c)},
  Inputs  <- Seq(Byte)

\* The emitted code does step by step what interpreter() does with the same
\* vector: same tape, same input consumed, same output but for the line with
\* the time, same end.
ImplementsInterpreter == Interp!Spec

\* Where the pointer can get in the first k opcodes of c: by no more than this
\* many cells from where it is.
Moves(c) ==
  Ends([k \in DOMAIN c |->
          [len |-> IF c[k].op \in {"op_addp", "op_subp"} THEN c[k].num ELSE 0]])

\* The 64-bit rbx does not wrap where the uint32_t pointer of interpreter()
\* does, and so could be off the tape while that is back on it; not in code
\* that moves by less than 2^32 cells between two accesses.
MovesAreFew == \A c \in Programs : Moves(c)[Len(c)] <= PtrMod - TapeSize
=============================================================================
