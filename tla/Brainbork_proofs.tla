--------------------------- MODULE Brainbork_proofs ---------------------------
(***************************************************************************)
(* What the whole program guarantees for every command line, file and      *)
(* input and every size of its arrays and buffers, with proofs that TLAPS  *)
(* checks.  What the stages guarantee is taken from the modules that prove *)
(* it about each of them.                                                  *)
(***************************************************************************)
EXTENDS Brainbork, Data_proofs

\* The stages again, with what is proved about them.
SP == INSTANCE Scanner_proofs WITH
        Sources <- {}, src <- text, i <- si, code <- vector, out <- code, status <- scanned

OP == INSTANCE Optimizer_proofs WITH
        Inputs <- {}, inp <- code.data, i <- oi, out <- optimized_code, status <- optimized

-----------------------------------------------------------------------------
(* The stages of the model are those the proofs are about.                 *)

LEMMA ScannerIsScanner == S!Next = SP!Next
BY DEF S!Next, S!SkipComment, S!ScanRun, S!ScanIO, S!ScanOpen, S!ScanClose, S!Finish,
       S!Reading, S!Cmd, S!Commands, S!RunCommands, S!SingleCommands, S!OpOf, S!IsRun,
       S!Fail, S!Emit, S!Close, S!HandOver, S!Op, S!Freed, S!Pushed, S!Popped, S!Top,
       S!IsEmpty, S!PushCanFail, S!MustGrow, S!NewCapacity,
       SP!Next, SP!SkipComment, SP!ScanRun, SP!ScanIO, SP!ScanOpen, SP!ScanClose, SP!Finish,
       SP!Reading, SP!Cmd, SP!Commands, SP!RunCommands, SP!SingleCommands, SP!OpOf, SP!IsRun,
       SP!Fail, SP!Emit, SP!Close, SP!HandOver, SP!Op, SP!Freed, SP!Pushed, SP!Popped, SP!Top,
       SP!IsEmpty, SP!PushCanFail, SP!MustGrow, SP!NewCapacity

LEMMA OptimizerIsOptimizer == O!Next = OP!Next
BY DEF O!Next, O!AllocMap, O!CollapseClear, O!CopyOp, O!EndPass1, O!Remap, O!KeepOp, O!Return,
       O!Fail, O!IsClearLoop, O!Recorded, O!Emit, O!IsJump, O!NOT_MAPPED, O!Op, O!Freed,
       O!Pushed, O!PushCanFail, O!MustGrow, O!NewCapacity,
       OP!Next, OP!AllocMap, OP!CollapseClear, OP!CopyOp, OP!EndPass1, OP!Remap, OP!KeepOp,
       OP!Return, OP!Fail, OP!IsClearLoop, OP!Recorded, OP!Emit, OP!IsJump, OP!NOT_MAPPED,
       OP!Op, OP!Freed, OP!Pushed, OP!PushCanFail, OP!MustGrow, OP!NewCapacity

\* One step of scanner() keeps its invariants.
LEMMA ScannerStep ==
  ASSUME SP!IInv, SP!NoLambdas, SP!NothingLeaks, [S!Next]_(S!vars)
  PROVE  SP!IInv' /\ SP!NoLambdas' /\ SP!NothingLeaks'
<1>1. [SP!Next]_(SP!vars)
  BY ScannerIsScanner DEF S!vars, SP!vars
<1>2. SP!TypeOK
  BY DEF SP!IInv
<1>3. SP!IInv'
  BY <1>1, SP!NextIInv, InitialCapacityAssumption DEF SP!InitialCapacityAssumption, SP!SourcesAssumption
<1>4. SP!NoLambdas'
  BY <1>1, <1>2, SP!NextNoLambdas, InitialCapacityAssumption
     DEF SP!InitialCapacityAssumption, SP!SourcesAssumption
<1>5. SP!NothingLeaks'
  BY <1>1, SP!NextReleases, InitialCapacityAssumption
     DEF SP!InitialCapacityAssumption, SP!SourcesAssumption
<1>. QED BY <1>3, <1>4, <1>5

LEMMA OptimizerStep ==
  ASSUME OP!IInv, [O!Next]_(O!vars)
  PROVE  OP!IInv'
<1>1. [OP!Next]_(OP!vars)
  BY OptimizerIsOptimizer DEF O!vars, OP!vars
<1>. QED BY <1>1, OP!NextIInv, InitialCapacityAssumption
           DEF OP!InitialCapacityAssumption, OP!InputsAssumption

-----------------------------------------------------------------------------
(* The last two stages.                                                    *)

LambdaStacksFreed == lambdas = Freed /\ calls = Freed

\* One step of interpreter() on code without the lambda syntax: it can only
\* halt or leave the tape, and has freed its stacks when it halts.
LEMMA InterpreterStep ==
  ASSUME optimized_code.data \in Seq(Opcode), Plain(optimized_code.data), pc \in Nat, I!Next
  PROVE  /\ interpreted = "running" /\ pc' \in Nat
         /\ interpreted' \in {"running", "halted", "undefined"}
         /\ interpreted' = "halted" => LambdaStacksFreed'
         /\ interpreted' # "halted" => UNCHANGED <<lambdas, calls>>
<1>1. I!Freed = Freed
  BY DEF I!Freed, Freed
<1>2. ASSUME NEW types, I!At(types)
      PROVE  /\ interpreted = "running"
             /\ I!num \in Nat
             /\ ~(types \subseteq {"op_def_lambda", "op_ret", "op_call"})
  <2>1. pc + 1 \in DOMAIN optimized_code.data /\ optimized_code.data[pc + 1].op \in types
        /\ interpreted = "running"
    BY <1>2 DEF I!At
  <2>2. optimized_code.data[pc + 1] \in Opcode
    BY <2>1
  <2>. QED BY <2>1, <2>2 DEF I!num, Plain, Opcode
<1>3. CASE I!AddSub \/ I!Clear \/ I!In \/ I!Out
  BY <1>2, <1>3 DEF I!AddSub, I!Clear, I!In, I!Out, I!Store
<1>4. CASE I!MovePtr
  BY <1>2, <1>4 DEF I!MovePtr
<1>5. CASE I!Jump
  BY <1>2, <1>5 DEF I!Jump
<1>6. CASE I!OffTape
  BY <1>2, <1>6 DEF I!OffTape
<1>7. CASE I!DefLambda \/ I!Call \/ I!Ret
  BY <1>2, <1>7 DEF I!DefLambda, I!Call, I!Ret
<1>8. CASE I!Halt
  BY <1>1, <1>8 DEF I!Halt, I!Stop, LambdaStacksFreed
<1>. QED BY <1>3, <1>4, <1>5, <1>6, <1>7, <1>8 DEF I!Next

-----------------------------------------------------------------------------
JitIdle == {"create", "failed", "returned"}

\* The buffer is mapped from mmap to munmap, and its arrays are empty before
\* and after.
JitClean ==
  /\ mappings = IF phase \in JitIdle THEN 0 ELSE 1
  /\ phase \in JitIdle \cup {"calloc"} => buffer = << >> /\ addrs = << >> /\ patches = Freed

JitStarting == phase \in X!Starting

\* One step of the JIT: it does not touch the tape before the code it has
\* compiled runs, and has released everything when it returns or fails.
LEMMA JitStep ==
  ASSUME X!Next, JitClean
  PROVE  JitClean' /\ (JitStarting' => JitStarting /\ mem' = mem)
<1>1. X!Freed = Freed
  BY DEF X!Freed, Freed
<1>2. CASE X!Fail /\ UNCHANGED X!machine /\ phase \notin JitIdle
  BY <1>1, <1>2 DEF X!Fail, X!Destroyed, JitClean, JitIdle, JitStarting, X!Starting
<1>3. CASE X!MapBuffer /\ UNCHANGED X!machine
  BY <1>3 DEF X!MapBuffer, X!machine, JitClean, JitIdle, JitStarting, X!Starting
<1>4. CASE X!AllocAddresses /\ UNCHANGED X!machine
  BY <1>4 DEF X!AllocAddresses, X!machine, JitClean, JitIdle, JitStarting, X!Starting
<1>5. ASSUME phase \notin JitIdle \cup {"calloc"}, phase' \notin JitIdle \cup {"calloc"},
             mappings' = mappings
      PROVE  JitClean'
  BY <1>5 DEF JitClean
<1>6. CASE X!Compile /\ ~X!Fail /\ ~X!MapBuffer /\ ~X!AllocAddresses
  <2>1. /\ phase \in {"enter", "compile"} /\ phase' \in {"compile", "patch"}
        /\ mem' = mem /\ mappings' = mappings
    BY <1>6 DEF X!Compile, X!EnterMain, X!EmitOp, X!EnterLambda, X!LeaveLambda, X!LeaveMain,
                X!Compiling, X!machine
  <2>. QED BY <1>5, <2>1 DEF JitIdle, JitStarting, X!Starting
<1>7. CASE X!PatchJump \/ (X!CallThunk /\ ~(X!Fail /\ UNCHANGED X!machine))
  <2>1. /\ phase = "patch" /\ phase' \in {"patch", "run"}
        /\ mem' = mem /\ mappings' = mappings
    BY <1>7 DEF X!PatchJump, X!PatchNext, X!CallThunk, X!machine, X!jit
  <2>. QED BY <1>5, <2>1 DEF JitIdle, JitStarting, X!Starting
<1>8. CASE X!Ret
  <2>1. phase = "run" /\ phase' \in {"run", "returned", "undefined"}
    BY <1>8 DEF X!Ret, X!Here
  <2>2. \/ phase' = "returned" /\ X!Destroyed
        \/ phase' # "returned" /\ mappings' = mappings
    BY <1>8, <2>1 DEF X!Ret, X!jit
  <2>. QED BY <1>1, <1>5, <2>1, <2>2 DEF X!Destroyed, JitClean, JitIdle, JitStarting, X!Starting
<1>9. CASE X!PushReg \/ X!PopReg \/ X!SetReg \/ X!CallMain \/ X!WriteMem \/ X!TestMem
           \/ X!CondJump \/ X!GetChar \/ X!PutChar \/ X!Undefined
  <2>1. phase = "run" /\ phase' \in {"run", "undefined"} /\ mappings' = mappings
    BY <1>9 DEF X!PushReg, X!PopReg, X!SetReg, X!CallMain, X!WriteMem, X!TestMem,
                X!CondJump, X!GetChar, X!PutChar, X!Undefined, X!Here, X!jit
  <2>. QED BY <1>5, <2>1 DEF JitIdle, JitStarting, X!Starting
<1>10. X!Fail /\ X!Compile /\ ~X!MapBuffer /\ ~X!AllocAddresses =>
         phase \notin JitIdle /\ UNCHANGED X!machine
  BY DEF X!Compile, X!EnterMain, X!EmitOp, X!EnterLambda, X!LeaveLambda, X!LeaveMain,
         X!Compiling, JitIdle
<1>11. X!CallThunk => phase \notin JitIdle
  BY DEF X!CallThunk, JitIdle
<1>12. X!Compile => UNCHANGED X!machine
  BY DEF X!Compile
<1>. QED BY <1>2, <1>3, <1>4, <1>6, <1>7, <1>8, <1>9, <1>10, <1>11, <1>12 DEF X!Next, X!Run

-----------------------------------------------------------------------------
(* The inductive invariant, stage by stage: what a stage has not reached   *)
(* is as Init left it, a stage that runs keeps its own invariant, and a    *)
(* stage that is over has left what the next one takes for granted.        *)

BeforeScan      == at \in {"options", "fopen", "malloc", "fread"}
BeforeOptimize  == BeforeScan \/ at = "scan"
BeforeInterpret == BeforeOptimize \/ at = "optimize"

\* main() goes on only with a mode to run in.
MainPart ==
  /\ argv = << >> => modes = {} /\ at \in {"options", "exit"}
  /\ at \notin {"options", "exit"} => modes # {}
  /\ at \notin {"malloc", "fread", "scan"} => held = {}

ScannerPart ==
  /\ BeforeScan => si = 0 /\ scanned = "scanning"
  /\ at = "scan" => SP!IInv /\ SP!NoLambdas /\ SP!NothingLeaks
  /\ at # "scan" => vector = Freed /\ stk = Freed
  /\ at \notin {"scan", "optimize"} => code = Freed

OptimizerPart ==
  /\ BeforeOptimize => oi = 0 /\ optimized = "entered" /\ optimized_code = Freed
  /\ at = "optimize" => OP!IInv /\ Plain(code.data)
  /\ at # "optimize" => map = << >>
  /\ at = "exit" => optimized_code = Freed \/ optimized \in O!Failures

\* What the last two stages run.
RunPart ==
  at \in {"interpreter", "jit"} => Matched(optimized_code.data) /\ Plain(optimized_code.data)

InterpreterPart ==
  /\ BeforeInterpret => interpreted = "running"
  /\ pc \in Nat /\ interpreted \in {"running", "halted", "undefined"}
  /\ at # "interpreter" \/ interpreted = "halted" => LambdaStacksFreed
  /\ at = "interpreter" => "-i" \in modes

JitPart ==
  /\ JitClean
  /\ at \notin {"jit", "exit"} \/ host = "other" => phase = "create"
  /\ at = "exit" => phase \in JitIdle
  /\ at = "jit" => "-j" \in modes /\ ("-i" \in modes => interpreted = "halted")
  /\ at = "jit" /\ JitStarting => mem = ZeroTape

IInv ==
  /\ argv \in Seq(STRING) /\ content \in Seq(STRING) /\ TypeOK
  /\ MainPart /\ ScannerPart /\ OptimizerPart /\ RunPart /\ InterpreterPart /\ JitPart
  /\ ExitTellsWhatHappened

LEMMA InitIInv ==
  ASSUME Init
  PROVE  IInv
<1>1. argv \in Seq(STRING) /\ content \in Seq(STRING) /\ Len(argv) \in Nat
  BY BrainborkAssumption DEF Init
<1>2. TypeOK
  BY <1>1, FreedType DEF Init, TypeOK
<1>. QED BY <1>1, <1>2
         DEF Init, IInv, MainPart, ScannerPart, OptimizerPart, RunPart, InterpreterPart, JitPart,
             BeforeScan, BeforeOptimize, BeforeInterpret, LambdaStacksFreed, JitClean, JitIdle,
             ExitTellsWhatHappened

\* What strlen() sees of a text has no NUL in it.
LEMMA TextWithoutNul ==
  ASSUME NEW s \in Seq(STRING)
  PROVE  UpToNul(s) \in Seq(STRING) /\ \A k \in DOMAIN UpToNul(s) : UpToNul(s)[k] # "NUL"
<1>. DEFINE nuls == {k \in 1 .. Len(s) : s[k] = "NUL"}
<1>1. UpToNul(s) = IF nuls = {} \/ Min(nuls) = 0 THEN s ELSE SubSeq(s, 1, Min(nuls) - 1)
  BY DEF UpToNul, SelectInSeq
<1>2. CASE nuls = {}
  BY <1>1, <1>2
<1>3. CASE nuls # {}
  <2>1. nuls \in SUBSET Nat
    OBVIOUS
  <2>2. \E k \in nuls : \A m \in nuls : k <= m
    BY <1>3, <2>1, LeastElement
  <2>3. Min(nuls) \in nuls /\ \A m \in nuls : Min(nuls) <= m
    BY <2>2 DEF Min
  <2>. DEFINE n == Min(nuls)
              t == SubSeq(s, 1, n - 1)
  <2>4. n \in 1 .. Len(s) /\ \A m \in 1 .. Len(s) : s[m] = "NUL" => n <= m
    BY <2>3
  <2>. HIDE DEF nuls
  <2>5. UpToNul(s) = t
    BY <1>1, <1>3, <2>4
  <2>. HIDE DEF n
  <2>6. t \in Seq(STRING) /\ Len(t) = n - 1 /\ \A k \in 1 .. (n - 1) : t[k] = s[k]
    BY <2>4
  <2>7. \A k \in 1 .. (n - 1) : k \in 1 .. Len(s) /\ ~(n <= k)
    BY <2>4
  <2>. QED BY <2>4, <2>5, <2>6, <2>7
<1>. QED BY <1>2, <1>3

-----------------------------------------------------------------------------
(* main()'s own steps.                                                     *)

\* The steps up to fread(), after which there is a text to scan.
LEMMA MainStep ==
  ASSUME IInv, ParseArg \/ EndOptions \/ Open \/ Allocate
  PROVE  IInv'
<1>1. /\ argv \in Seq(STRING) /\ Len(argv) \in Nat /\ arg \in Nat /\ filename_index \in Nat
      /\ argv = << >> <=> Len(argv) = 0
  BY DEF IInv, TypeOK
<1>2. BeforeScan /\ UNCHANGED <<given, text, vectors, stages>>
  BY DEF ParseArg, EndOptions, Open, Allocate, BeforeScan
<1>. DEFINE ExitFact == at' = "exit" => (exit' = {0} <=> argv' = << >>)
<1>3. ASSUME ParseArg PROVE TypeOK' /\ MainPart' /\ ExitFact
  <2>. DEFINE a == argv[arg + 1]
  <2>1. /\ at = "options" /\ arg < Len(argv) /\ arg' = arg + 1
        /\ UNCHANGED <<argv, held, text, code, optimized_code>>
        /\ \/ a \in {"-i", "-j"} /\ modes' = modes \cup {a} /\ UNCHANGED <<at, exit, filename_index>>
           \/ filename_index' = arg + 1 /\ UNCHANGED <<at, exit, modes>>
           \/ at' = "exit" /\ exit' = {-1} /\ UNCHANGED <<modes, filename_index>>
    BY <1>3, Zenon DEF ParseArg, Return, given, vectors
  <2>2. arg' \in 0 .. Len(argv') /\ filename_index' \in 0 .. arg' /\ argv' # << >>
    BY <1>1, <2>1 DEF IInv, TypeOK
  <2>3. TypeOK'
    BY <2>1, <2>2 DEF IInv, TypeOK
  <2>4. MainPart'
    BY <2>1, <2>2 DEF IInv, MainPart
  <2>. QED BY <2>1, <2>2, <2>3, <2>4
<1>4. ASSUME EndOptions PROVE TypeOK' /\ MainPart' /\ ExitFact
  <2>1. /\ at = "options" /\ UNCHANGED <<argv, arg, modes, filename_index, held, text, code, optimized_code>>
        /\ \/ argv = << >> /\ at' = "exit" /\ exit' = {0}
           \/ argv # << >> /\ at' = "exit" /\ exit' = {-1}
           \/ modes # {} /\ at' = "fopen" /\ exit' = exit
    BY <1>4 DEF EndOptions, Return, Goto, given, options, vectors
  <2>2. TypeOK'
    BY <2>1 DEF IInv, TypeOK
  <2>3. MainPart'
    BY <2>1 DEF IInv, MainPart
  <2>. QED BY <2>1, <2>2, <2>3
<1>5. ASSUME Open \/ Allocate PROVE TypeOK' /\ MainPart' /\ ExitFact
  <2>1. /\ at \in {"fopen", "malloc"} /\ UNCHANGED <<argv, arg, modes, filename_index, text, code, optimized_code>>
        /\ held' \subseteq {"file", "file_content"}
        /\ \/ at' = "exit" /\ exit' = {-1} /\ held' = {}
           \/ at' \in {"malloc", "fread"} /\ exit' = exit
    BY <1>5 DEF Open, Allocate, Return, Goto, given, options, vectors
  <2>2. TypeOK'
    BY <2>1 DEF IInv, TypeOK
  <2>3. MainPart' /\ argv' # << >>
    BY <2>1 DEF IInv, MainPart
  <2>. QED BY <2>1, <2>2, <2>3
<1>6. TypeOK' /\ MainPart' /\ ExitFact
  BY <1>3, <1>4, <1>5
<1>7. at' \in {"options", "fopen", "malloc", "fread", "exit"}
  BY <1>2 DEF ParseArg, EndOptions, Open, Allocate, Return, Goto
<1>8. ScannerPart' /\ OptimizerPart' /\ RunPart' /\ InterpreterPart' /\ JitPart'
  BY <1>2, <1>7
     DEF IInv, ScannerPart, OptimizerPart, RunPart, InterpreterPart, JitPart, BeforeScan,
         BeforeOptimize, BeforeInterpret, LambdaStacksFreed, JitClean, JitIdle, JitStarting, O!Failures,
         given, vectors, stages, scanning, optimizing, interpreting, jitting, machine
<1>9. ExitTellsWhatHappened'
  <2>1. interpreted' = "running" /\ phase' = "create" /\ modes' \subseteq {"-i", "-j"}
    BY <1>2, <1>6 DEF IInv, TypeOK, InterpreterPart, JitPart, BeforeScan, BeforeOptimize,
                      BeforeInterpret, stages, interpreting, jitting
  <2>. QED BY <1>6, <2>1 DEF ExitTellsWhatHappened
<1>. QED BY <1>2, <1>6, <1>8, <1>9 DEF IInv, given

\* fread(): the scanner starts on the text up to the first NUL.
LEMMA ReadStep ==
  ASSUME IInv, Read
  PROVE  IInv'
<1>1. /\ at = "fread" /\ BeforeScan /\ UNCHANGED <<given, options, vectors, stages>>
      /\ \/ at' = "scan" /\ exit' = exit /\ held' = {"file_content"} /\ text' = UpToNul(content)
         \/ at' = "exit" /\ exit' = {-1} /\ held' = {} /\ text' = text
  BY DEF Read, Return, Goto, BeforeScan
<1>2. text' \in Seq(STRING) /\ \A k \in DOMAIN text' : text'[k] # "NUL"
  BY <1>1, TextWithoutNul DEF IInv, TypeOK
<1>3. TypeOK' /\ MainPart'
  BY <1>1, <1>2 DEF IInv, TypeOK, MainPart, given, options, vectors
<1>4. si' = 0 /\ vector' = Freed /\ stk' = Freed /\ code' = Freed /\ scanned' = "scanning"
  BY <1>1 DEF IInv, ScannerPart, stages, scanning, vectors
<1>5. SP!IInv' /\ SP!NoLambdas' /\ SP!NothingLeaks'
  <2>1. SP!Freed = Freed
    BY DEF SP!Freed, Freed
  <2>2. SP!TypeOK'
    <3>1. Freed \in ArrayOf(Opcode) /\ Freed \in ArrayOf(Nat)
      BY FreedType
    <3>2. Freed \in SP!ArrayOf(SP!Opcode) /\ Freed \in SP!ArrayOf(Nat)
      BY <3>1 DEF SP!ArrayOf, SP!Opcode, SP!OpType, ArrayOf, Opcode, OpType
    <3>. QED BY <1>2, <1>4, <3>2 DEF SP!TypeOK
  <2>3. SP!Stacked(vector'.data, stk'.data) /\ SP!Prefix(vector'.data)
    BY <1>4, <2>1, SP!FreedInv, InitialCapacityAssumption
       DEF SP!InitialCapacityAssumption, SP!SourcesAssumption
  <2>4. SP!ResultIsMatched'
    BY <1>4, <2>1 DEF SP!ResultIsMatched
  <2>5. SP!IInv'
    BY <2>2, <2>3, <2>4 DEF SP!IInv
  <2>. QED BY <1>4, <2>5 DEF SP!NoLambdas, SP!Plain, SP!NothingLeaks, Freed
<1>6. ScannerPart' /\ OptimizerPart' /\ RunPart' /\ InterpreterPart' /\ JitPart'
  BY <1>1, <1>4, <1>5
     DEF IInv, ScannerPart, OptimizerPart, RunPart, InterpreterPart, JitPart, BeforeScan,
         BeforeOptimize, BeforeInterpret, LambdaStacksFreed, JitClean, JitIdle, JitStarting, O!Failures,
         given, options, vectors, stages, scanning, optimizing, interpreting, jitting, machine
<1>7. ExitTellsWhatHappened'
  <2>1. interpreted' = "running" /\ phase' = "create"
    BY <1>1 DEF IInv, InterpreterPart, JitPart, BeforeScan, BeforeOptimize, BeforeInterpret,
                stages, interpreting, jitting
  <2>2. modes' \subseteq {"-i", "-j"} /\ modes' # {} /\ argv' # << >>
    BY <1>1 DEF IInv, TypeOK, MainPart, given, options
  <2>3. at' = "exit" => exit' # {0}
    BY <1>1
  <2>. QED BY <2>1, <2>2, <2>3 DEF ExitTellsWhatHappened
<1>. QED BY <1>1, <1>3, <1>6, <1>7 DEF IInv, given

-----------------------------------------------------------------------------
(* The steps of the stages, and main()'s steps between them.               *)

LEMMA ScanStep ==
  ASSUME IInv, Scan
  PROVE  IInv'
<1>1. /\ at = "scan" /\ S!Next
      /\ UNCHANGED <<given, options, at, held, text, optimized_code, exit,
                     optimizing, interpreting, jitting, machine>>
  BY DEF Scan
<1>2. SP!IInv' /\ SP!NoLambdas' /\ SP!NothingLeaks'
  BY <1>1, ScannerStep DEF IInv, ScannerPart
<1>3. code' \in ArrayOf(Opcode)
  BY <1>2 DEF SP!IInv, SP!TypeOK, SP!ArrayOf, SP!Opcode, SP!OpType, ArrayOf, Opcode, OpType
<1>4. TypeOK' /\ MainPart'
  BY <1>1, <1>3 DEF IInv, TypeOK, MainPart, given, options
<1>5. ScannerPart' /\ OptimizerPart' /\ RunPart' /\ InterpreterPart' /\ JitPart'
  BY <1>1, <1>2
     DEF IInv, ScannerPart, OptimizerPart, RunPart, InterpreterPart, JitPart, BeforeScan,
         BeforeOptimize, BeforeInterpret, LambdaStacksFreed, JitClean, JitIdle, JitStarting,
         given, options, optimizing, interpreting, jitting, machine
<1>. QED BY <1>1, <1>4, <1>5 DEF IInv, ExitTellsWhatHappened, given

\* The optimizer starts on matched code without the lambda syntax.
LEMMA ScannedStep ==
  ASSUME IInv, Scanned
  PROVE  IInv'
<1>1. /\ at = "scan" /\ scanned # "scanning" /\ held' = {}
      /\ UNCHANGED <<given, options, text, vectors, stages>>
      /\ \/ scanned = "ok" /\ at' = "optimize" /\ exit' = exit
         \/ scanned # "ok" /\ at' = "exit" /\ exit' = {-1}
  BY DEF Scanned, Return, Goto
<1>2. SP!IInv /\ SP!NoLambdas /\ SP!NothingLeaks
  BY <1>1 DEF IInv, ScannerPart
<1>3. TypeOK' /\ MainPart'
  BY <1>1 DEF IInv, TypeOK, MainPart, given, options, vectors
<1>4. vector = Freed /\ stk = Freed
  BY <1>1, <1>2 DEF SP!NothingLeaks, SP!Freed, Freed
<1>5. scanned # "ok" => code = Freed
  BY <1>2 DEF SP!IInv, SP!ResultIsMatched, SP!Freed, Freed
<1>6. scanned = "ok" => code.data \in OP!MatchedCode /\ Plain(code.data)
  <2>1. code.data \in Seq(OP!Opcode)
    BY DEF IInv, TypeOK, ArrayOf, OP!Opcode, OP!OpType, Opcode, OpType
  <2>2. scanned = "ok" => SP!Matched(code.data)
    BY <1>2 DEF SP!IInv, SP!ResultIsMatched
  <2>3. SP!Matched(code.data) = OP!Matched(code.data)
    BY DEF SP!Matched, SP!OpensPaired, SP!ClosesPaired, SP!LoopsNest, SP!Paired,
           OP!Matched, OP!OpensPaired, OP!ClosesPaired, OP!LoopsNest, OP!Paired
  <2>4. Plain(code.data)
    BY <1>2 DEF SP!NoLambdas, SP!Plain, Plain
  <2>. QED BY <2>1, <2>2, <2>3, <2>4 DEF OP!MatchedCode
<1>7. scanned = "ok" => OP!IInv'
  <2>1. oi' = 0 /\ optimized_code' = OP!Freed /\ map' = << >> /\ optimized' = "entered"
    BY <1>1 DEF IInv, OptimizerPart, BeforeOptimize, BeforeScan, vectors, stages, optimizing,
                OP!Freed, Freed
  <2>2. OP!Freed \in OP!ArrayOf(OP!Opcode)
    BY OP!FreedType, InitialCapacityAssumption DEF OP!InitialCapacityAssumption, OP!InputsAssumption
  <2>3. ASSUME scanned = "ok" PROVE code'.data \in OP!MatchedCode /\ Len(code'.data) \in Nat
    BY <1>1, <1>6, <2>3 DEF vectors, OP!MatchedCode
  <2>. QED BY <2>1, <2>2, <2>3
           DEF OP!IInv, OP!TypeOK, OP!TargetsSurvive, OP!MapIsFreed, OP!Returned, OP!Failures,
               OP!BeforePasses, OP!FirstPass, OP!MapSoFar, OP!SecondPass, OP!AfterPasses
<1>8. ScannerPart' /\ OptimizerPart' /\ RunPart' /\ InterpreterPart' /\ JitPart'
  BY <1>1, <1>4, <1>5, <1>6, <1>7
     DEF IInv, ScannerPart, OptimizerPart, RunPart, InterpreterPart, JitPart, BeforeScan,
         BeforeOptimize, BeforeInterpret, LambdaStacksFreed, JitClean, JitIdle, JitStarting, O!Failures,
         given, options, vectors, stages, scanning, optimizing, interpreting, jitting, machine
<1>9. ExitTellsWhatHappened'
  <2>1. interpreted' = "running" /\ phase' = "create"
    BY <1>1 DEF IInv, InterpreterPart, JitPart, BeforeScan, BeforeOptimize, BeforeInterpret,
                stages, interpreting, jitting
  <2>2. modes' \subseteq {"-i", "-j"} /\ modes' # {} /\ argv' # << >>
    BY <1>1 DEF IInv, TypeOK, MainPart, given, options
  <2>3. at' = "exit" => exit' # {0}
    BY <1>1
  <2>. QED BY <2>1, <2>2, <2>3 DEF ExitTellsWhatHappened
<1>. QED BY <1>1, <1>3, <1>8, <1>9 DEF IInv, given

LEMMA OptimizeStep ==
  ASSUME IInv, Optimize
  PROVE  IInv'
<1>1. /\ at = "optimize" /\ O!Next
      /\ UNCHANGED <<given, options, at, held, text, code, exit,
                     scanning, interpreting, jitting, machine>>
  BY DEF Optimize
<1>2. OP!IInv'
  BY <1>1, OptimizerStep DEF IInv, OptimizerPart
<1>3. optimized_code' \in ArrayOf(Opcode)
  BY <1>2 DEF OP!IInv, OP!TypeOK, OP!ArrayOf, OP!Opcode, OP!OpType, ArrayOf, Opcode, OpType
<1>4. TypeOK' /\ MainPart'
  BY <1>1, <1>3 DEF IInv, TypeOK, MainPart, given, options
<1>5. ScannerPart' /\ OptimizerPart' /\ RunPart' /\ InterpreterPart' /\ JitPart'
  BY <1>1, <1>2
     DEF IInv, ScannerPart, OptimizerPart, RunPart, InterpreterPart, JitPart, BeforeScan,
         BeforeOptimize, BeforeInterpret, LambdaStacksFreed, JitClean, JitIdle, JitStarting,
         given, options, scanning, interpreting, jitting, machine
<1>. QED BY <1>1, <1>4, <1>5 DEF IInv, ExitTellsWhatHappened, given

\* The interpreter or the JIT starts on matched code without the lambda syntax,
\* and the JIT on an empty tape.
LEMMA OptimizedStep ==
  ASSUME IInv, Optimized
  PROVE  IInv'
<1>1. /\ at = "optimize" /\ O!Returned /\ code' = Freed
      /\ \/ optimized # "ok" /\ at' = "exit" /\ exit' = {-1}
         \/ optimized = "ok" /\ "-i" \in modes /\ at' = "interpreter" /\ exit' = exit
         \/ optimized = "ok" /\ "-i" \notin modes /\ at' = "jit" /\ exit' = exit /\ mem' = ZeroTape
      /\ UNCHANGED <<given, options, held, text, optimized_code,
                     scanning, optimizing, interpreting, jitting>>
  BY DEF Optimized, Return, Goto, EnterJit
<1>2. OP!IInv /\ Plain(code.data) /\ modes \subseteq {"-i", "-j"} /\ modes # {} /\ argv # << >>
  BY <1>1 DEF IInv, TypeOK, MainPart, OptimizerPart
<1>3. TypeOK' /\ MainPart'
  BY <1>1, FreedType DEF IInv, TypeOK, MainPart, given, options
<1>4. map = << >> /\ (optimized # "ok" => optimized \in O!Failures)
  BY <1>1, <1>2 DEF OP!IInv, OP!MapIsFreed, OP!Returned, OP!Failures, O!Returned, O!Failures
<1>5. optimized = "ok" => Matched(optimized_code.data) /\ Plain(optimized_code.data)
  <2>. SUFFICES ASSUME optimized = "ok"
                PROVE  Matched(optimized_code.data) /\ Plain(optimized_code.data)
    OBVIOUS
  <2>1. /\ code.data \in OP!MatchedCode /\ OP!Rewritten(code.data, optimized_code.data)
        /\ OP!Plain(code.data)
    BY <1>2 DEF OP!IInv, OP!TypeOK, OP!AfterPasses, OP!Plain, Plain
  <2>2. OP!Matched(optimized_code.data)
    BY <2>1, OP!RewrittenIsMatched, InitialCapacityAssumption
       DEF OP!InitialCapacityAssumption, OP!InputsAssumption
  <2>3. OP!Plain(optimized_code.data)
    BY <2>1, OP!RewrittenIsPlain, InitialCapacityAssumption
       DEF OP!InitialCapacityAssumption, OP!InputsAssumption
  <2>4. OP!Matched(optimized_code.data) = Matched(optimized_code.data)
    BY DEF OP!Matched, OP!OpensPaired, OP!ClosesPaired, OP!LoopsNest, OP!Paired,
           Matched, OpensPaired, ClosesPaired, LoopsNest, Paired
  <2>. QED BY <2>2, <2>3, <2>4 DEF OP!Plain, Plain
<1>6. ScannerPart' /\ OptimizerPart' /\ RunPart' /\ InterpreterPart' /\ JitPart'
  BY <1>1, <1>2, <1>4, <1>5
     DEF IInv, ScannerPart, OptimizerPart, RunPart, InterpreterPart, JitPart, BeforeScan,
         BeforeOptimize, BeforeInterpret, LambdaStacksFreed, JitClean, JitIdle, JitStarting, O!Failures,
         given, options, scanning, optimizing, interpreting, jitting
<1>7. ExitTellsWhatHappened'
  <2>1. interpreted' = "running" /\ phase' = "create"
    BY <1>1 DEF IInv, InterpreterPart, JitPart, BeforeInterpret, interpreting, jitting
  <2>2. modes' \subseteq {"-i", "-j"} /\ modes' # {} /\ argv' # << >>
    BY <1>1, <1>2 DEF given, options
  <2>3. at' = "exit" => exit' # {0}
    BY <1>1
  <2>. QED BY <2>1, <2>2, <2>3 DEF ExitTellsWhatHappened
<1>. QED BY <1>1, <1>3, <1>6, <1>7 DEF IInv, given

LEMMA InterpretStep ==
  ASSUME IInv, Interpret
  PROVE  IInv'
<1>1. /\ at = "interpreter" /\ I!Next
      /\ UNCHANGED <<given, options, at, held, text, vectors, exit,
                     scanning, optimizing, jitting>>
  BY DEF Interpret
<1>2. /\ optimized_code.data \in Seq(Opcode) /\ Plain(optimized_code.data) /\ pc \in Nat
  BY <1>1 DEF IInv, TypeOK, ArrayOf, RunPart, InterpreterPart
<1>3. /\ pc' \in Nat /\ interpreted' \in {"running", "halted", "undefined"}
      /\ interpreted' = "halted" => LambdaStacksFreed'
  BY <1>1, <1>2, InterpreterStep
<1>4. TypeOK' /\ MainPart'
  BY <1>1 DEF IInv, TypeOK, MainPart, given, options, vectors
<1>5. ScannerPart' /\ OptimizerPart' /\ RunPart' /\ InterpreterPart' /\ JitPart'
  BY <1>1, <1>3
     DEF IInv, ScannerPart, OptimizerPart, RunPart, InterpreterPart, JitPart, BeforeScan,
         BeforeOptimize, BeforeInterpret, LambdaStacksFreed, JitClean, JitIdle, JitStarting,
         given, options, vectors, scanning, optimizing, jitting
<1>. QED BY <1>1, <1>4, <1>5 DEF IInv, ExitTellsWhatHappened, given

LEMMA InterpretedStep ==
  ASSUME IInv, Interpreted
  PROVE  IInv'
<1>1. /\ at = "interpreter" /\ interpreted \notin {"running", "undefined"}
      /\ \/ /\ "-j" \in modes /\ at' = "jit" /\ exit' = exit /\ mem' = ZeroTape
            /\ optimized_code' = optimized_code
         \/ /\ "-j" \notin modes /\ at' = "exit" /\ exit' = {0} /\ optimized_code' = Freed
      /\ UNCHANGED <<given, options, held, text, code,
                     scanning, optimizing, interpreting, jitting>>
  BY DEF Interpreted, Return, Goto, EnterJit
<1>2. modes # {} /\ argv # << >> /\ interpreted = "halted"
  BY <1>1 DEF IInv, MainPart, InterpreterPart
<1>3. TypeOK' /\ MainPart'
  BY <1>1, FreedType DEF IInv, TypeOK, MainPart, given, options
<1>4. ScannerPart' /\ OptimizerPart' /\ RunPart' /\ InterpreterPart' /\ JitPart'
  BY <1>1, <1>2
     DEF IInv, ScannerPart, OptimizerPart, RunPart, InterpreterPart, JitPart, BeforeScan,
         BeforeOptimize, BeforeInterpret, LambdaStacksFreed, JitClean, JitIdle, JitStarting,
         given, options, scanning, optimizing, interpreting, jitting
<1>5. ExitTellsWhatHappened'
  BY <1>1, <1>2 DEF ExitTellsWhatHappened, given, options, interpreting
<1>. QED BY <1>1, <1>3, <1>4, <1>5 DEF IInv, given

LEMMA RunJitStep ==
  ASSUME IInv, RunJit
  PROVE  IInv'
<1>1. /\ at = "jit" /\ host = "x86_64" /\ X!Next
      /\ UNCHANGED <<given, options, at, held, text, vectors, exit,
                     scanning, optimizing, interpreting>>
  BY DEF RunJit
<1>2. JitClean' /\ (JitStarting' => JitStarting /\ mem' = mem)
  BY <1>1, JitStep DEF IInv, JitPart
<1>3. TypeOK' /\ MainPart'
  BY <1>1 DEF IInv, TypeOK, MainPart, given, options, vectors
<1>4. JitPart'
  BY <1>1, <1>2 DEF IInv, JitPart, given, options, interpreting
<1>5. ScannerPart' /\ OptimizerPart' /\ RunPart' /\ InterpreterPart'
  BY <1>1
     DEF IInv, ScannerPart, OptimizerPart, RunPart, InterpreterPart, BeforeScan,
         BeforeOptimize, BeforeInterpret, LambdaStacksFreed,
         given, options, vectors, scanning, optimizing, interpreting
<1>. QED BY <1>1, <1>3, <1>4, <1>5 DEF IInv, ExitTellsWhatHappened, given

LEMMA JitReturnedStep ==
  ASSUME IInv, JitReturned
  PROVE  IInv'
<1>1. /\ at = "jit" /\ at' = "exit" /\ optimized_code' = Freed
      /\ \/ phase = "returned" /\ exit' = {0}
         \/ (phase = "failed" \/ host = "other") /\ exit' = {-1}
      /\ UNCHANGED <<given, options, held, text, code, stages>>
  BY DEF JitReturned, Return
<1>2. /\ modes # {} /\ argv # << >> /\ "-j" \in modes
      /\ "-i" \in modes => interpreted = "halted"
      /\ host = "other" => phase = "create"
  BY <1>1 DEF IInv, MainPart, JitPart
<1>3. TypeOK' /\ MainPart'
  BY <1>1, FreedType DEF IInv, TypeOK, MainPart, given, options
<1>4. ScannerPart' /\ OptimizerPart' /\ RunPart' /\ InterpreterPart' /\ JitPart'
  BY <1>1, <1>2
     DEF IInv, ScannerPart, OptimizerPart, RunPart, InterpreterPart, JitPart, BeforeScan,
         BeforeOptimize, BeforeInterpret, LambdaStacksFreed, JitClean, JitIdle, JitStarting,
         given, options, stages, scanning, optimizing, interpreting, jitting, machine
<1>5. ExitTellsWhatHappened'
  BY <1>1, <1>2 DEF ExitTellsWhatHappened, given, options, stages, interpreting, jitting
<1>. QED BY <1>1, <1>3, <1>4, <1>5 DEF IInv, given

LEMMA NextIInv ==
  ASSUME IInv, [Next]_vars
  PROVE  IInv'
<1>1. CASE UNCHANGED vars
  <2>1. UNCHANGED <<given, options, at, held, text, vectors, exit,
                    scanning, optimizing, interpreting, jitting, machine>>
    BY <1>1 DEF vars, stages
  <2>2. UNCHANGED S!vars /\ UNCHANGED O!vars
    BY <2>1 DEF S!vars, O!vars, scanning, optimizing, vectors
  <2>3. at = "scan" => SP!IInv' /\ SP!NoLambdas' /\ SP!NothingLeaks'
    BY <2>2, ScannerStep DEF IInv, ScannerPart
  <2>4. at = "optimize" => OP!IInv'
    BY <2>2, OptimizerStep DEF IInv, OptimizerPart
  <2>5. TypeOK' /\ MainPart' /\ ExitTellsWhatHappened'
    BY <2>1 DEF IInv, TypeOK, MainPart, ExitTellsWhatHappened, given, options, vectors,
                interpreting, jitting
  <2>6. ScannerPart' /\ OptimizerPart' /\ RunPart' /\ InterpreterPart' /\ JitPart'
    BY <2>1, <2>3, <2>4
       DEF IInv, ScannerPart, OptimizerPart, RunPart, InterpreterPart, JitPart, BeforeScan,
           BeforeOptimize, BeforeInterpret, LambdaStacksFreed, JitClean, JitIdle, JitStarting,
           given, options, vectors, scanning, optimizing, interpreting, jitting, machine
  <2>. QED BY <2>1, <2>5, <2>6 DEF IInv, given
<1>. QED BY <1>1, MainStep, ReadStep, ScanStep, ScannedStep, OptimizeStep, OptimizedStep,
            InterpretStep, InterpretedStep, RunJitStep, JitReturnedStep DEF Next

LEMMA Invariance == Spec => []IInv
<1>1. Init => IInv
  BY InitIInv
<1>2. IInv /\ [Next]_vars => IInv'
  BY NextIInv
<1>. QED BY <1>1, <1>2, PTL DEF Spec

-----------------------------------------------------------------------------
(* The theorems.                                                           *)

\* main()'s variables stay within their types.
THEOREM TypeCorrect == Spec => []TypeOK
<1>1. IInv => TypeOK
  BY DEF IInv
<1>. QED BY <1>1, Invariance, PTL

(***************************************************************************)
(* Whatever the command line, the file and the input, the optimizer gets   *)
(* matched code, the interpreter and the JIT matched code without any of   *)
(* the lambda syntax's opcodes, and the JIT an empty tape (main.c:89-130). *)
(***************************************************************************)
THEOREM StagesFit == Spec => []StagesGetWhatTheyExpect
<1>1. IInv => StagesGetWhatTheyExpect
  <2>. SUFFICES ASSUME IInv PROVE StagesGetWhatTheyExpect
    OBVIOUS
  <2>1. ASSUME at = "optimize", optimized = "entered"
        PROVE  Matched(code.data) /\ optimized_code = Freed
    <3>1. OP!Matched(code.data) /\ optimized_code = OP!Freed
      BY <2>1 DEF IInv, OptimizerPart, OP!IInv, OP!TypeOK, OP!MatchedCode, OP!BeforePasses
    <3>2. OP!Matched(code.data) = Matched(code.data)
      BY DEF OP!Matched, OP!OpensPaired, OP!ClosesPaired, OP!LoopsNest, OP!Paired,
             Matched, OpensPaired, ClosesPaired, LoopsNest, Paired
    <3>. QED BY <3>1, <3>2 DEF OP!Freed, Freed
  <2>2. /\ at \in {"interpreter", "jit"} => Matched(optimized_code.data) /\ Plain(optimized_code.data)
        /\ at = "jit" /\ JitStarting => mem = ZeroTape
    BY DEF IInv, RunPart, JitPart
  <2>. QED BY <2>1, <2>2 DEF StagesGetWhatTheyExpect, Plain, JitStarting
<1>. QED BY <1>1, Invariance, PTL

(***************************************************************************)
(* However main() returns, the file is closed and the memory of every      *)
(* stage released, optimized_code excepted when optimize() fails.          *)
(***************************************************************************)
THEOREM Releases == Spec => []ReleasedAtExit
<1>1. IInv => ReleasedAtExit
  BY DEF IInv, MainPart, ScannerPart, OptimizerPart, InterpreterPart, JitPart,
         LambdaStacksFreed, JitClean, JitIdle, ReleasedAtExit
<1>. QED BY <1>1, Invariance, PTL

(***************************************************************************)
(* main() returns 0 exactly when it was given no argument or everything it *)
(* was asked to run has run to its end.                                    *)
(***************************************************************************)
THEOREM ExitIsTruthful == Spec => []ExitTellsWhatHappened
<1>1. IInv => ExitTellsWhatHappened
  BY DEF IInv
<1>. QED BY <1>1, Invariance, PTL

-----------------------------------------------------------------------------
(* What is run is the program in the file.                                 *)

Refused == scanned \in {"unmatched_close", "unmatched_open"}

\* Stage by stage, what has become of the text.
ProgramPart ==
  /\ at = "scan" => SP!Translated
  /\ at = "optimize" => SP!IsProgram(text) /\ code.data = SP!Translate(text)
  /\ at \in {"interpreter", "jit"} =>
       SP!IsProgram(text) /\ optimized_code.data = OP!Optimised(SP!Translate(text))
  /\ Refused => ~SP!IsProgram(text)

LEMMA ScannerTranslates ==
  ASSUME SP!IInv, SP!Translated, [S!Next]_(S!vars)
  PROVE  SP!Translated'
<1>1. [SP!Next]_(SP!vars)
  BY ScannerIsScanner DEF S!vars, SP!vars
<1>. QED BY <1>1, SP!TranslatedInv, InitialCapacityAssumption
         DEF SP!InitialCapacityAssumption, SP!SourcesAssumption

LEMMA NextProgramPart ==
  ASSUME IInv, ProgramPart, [Next]_vars
  PROVE  ProgramPart'
<1>1. CASE UNCHANGED vars
  <2>1. UNCHANGED <<at, text, vectors, scanning>>
    BY <1>1 DEF vars, stages
  <2>2. UNCHANGED S!vars
    BY <2>1 DEF S!vars, scanning, vectors
  <2>3. at = "scan" => SP!Translated'
    BY <2>2, ScannerTranslates DEF IInv, ScannerPart, ProgramPart
  <2>. QED BY <2>1, <2>3 DEF ProgramPart, Refused, vectors, scanning
<1>2. CASE ParseArg \/ EndOptions \/ Open \/ Allocate
  <2>1. at' \in {"options", "fopen", "malloc", "fread", "exit"} /\ UNCHANGED <<text, scanned>>
    BY <1>2 DEF IInv, TypeOK, ParseArg, EndOptions, Open, Allocate, Return, Goto, stages, scanning
  <2>. QED BY <2>1 DEF ProgramPart, Refused
<1>3. CASE Read
  <2>1. /\ scanned' = "scanning" /\ si' = 0 /\ vector' = Freed /\ stk' = Freed
        /\ at' \in {"scan", "exit"} /\ text' \in Seq(STRING)
    <3>1. at = "fread" /\ UNCHANGED <<vectors, stages>> /\ at' \in {"scan", "exit"}
          /\ (text' = text \/ text' = UpToNul(content))
      BY <1>3 DEF Read, Return, Goto
    <3>. QED BY <3>1, TextWithoutNul
             DEF IInv, TypeOK, ScannerPart, BeforeScan, stages, scanning
  <2>2. SP!TranslatedTo(text', 0, << >>, << >>)
    BY <2>1, SP!NothingTranslated, InitialCapacityAssumption
       DEF SP!InitialCapacityAssumption, SP!SourcesAssumption
  <2>3. SP!Translated'
    BY <2>1, <2>2 DEF SP!Translated, Freed
  <2>. QED BY <2>1, <2>3 DEF ProgramPart, Refused
<1>4. CASE Scan
  <2>1. at = "scan" /\ at' = "scan" /\ text' = text /\ S!Next
    BY <1>4 DEF Scan
  <2>2. SP!Translated'
    BY <2>1, ScannerTranslates DEF IInv, ScannerPart, ProgramPart
  <2>. QED BY <2>1, <2>2 DEF ProgramPart, Refused, SP!Translated
<1>5. CASE Scanned
  <2>1. /\ at = "scan" /\ UNCHANGED <<text, vectors, stages>>
        /\ (at' = "optimize" /\ scanned = "ok") \/ at' = "exit"
    BY <1>5 DEF Scanned, Return, Goto
  <2>. QED BY <2>1 DEF ProgramPart, Refused, SP!Translated, vectors, stages, scanning
<1>6. CASE Optimize
  <2>1. at = "optimize" /\ UNCHANGED <<at, text, code, scanned>>
    BY <1>6 DEF Optimize, scanning
  <2>. QED BY <2>1 DEF ProgramPart, Refused
<1>7. CASE Optimized
  <2>1. /\ at = "optimize" /\ UNCHANGED <<text, optimized_code, scanned>>
        /\ (at' \in {"interpreter", "jit"} /\ optimized = "ok") \/ at' = "exit"
    BY <1>7 DEF Optimized, EnterJit, Return, Goto, scanning
  <2>2. optimized = "ok" => optimized_code.data = OP!Optimised(code.data)
    <3>1. optimized = "ok" =>
            code.data \in OP!MatchedCode /\ OP!Rewritten(code.data, optimized_code.data)
      BY <2>1 DEF IInv, OptimizerPart, OP!IInv, OP!TypeOK, OP!AfterPasses
    <3>. QED BY <3>1, OP!RewrittenIsOptimised, InitialCapacityAssumption
             DEF OP!InitialCapacityAssumption, OP!InputsAssumption
  <2>. QED BY <2>1, <2>2 DEF ProgramPart, Refused
<1>8. CASE Interpret \/ RunJit
  <2>1. at \in {"interpreter", "jit"} /\ UNCHANGED <<at, text, vectors, scanned>>
    BY <1>8 DEF Interpret, RunJit, scanning
  <2>. QED BY <2>1 DEF ProgramPart, Refused, vectors
<1>9. CASE Interpreted
  <2>1. /\ at = "interpreter" /\ UNCHANGED <<text, scanned>>
        /\ (at' = "jit" /\ optimized_code' = optimized_code) \/ at' = "exit"
    BY <1>9 DEF Interpreted, EnterJit, Return, Goto, scanning
  <2>. QED BY <2>1 DEF ProgramPart, Refused
<1>10. CASE JitReturned
  <2>1. at' = "exit" /\ UNCHANGED <<text, scanned>>
    BY <1>10 DEF JitReturned, Return, stages, scanning
  <2>. QED BY <2>1 DEF ProgramPart, Refused
<1>. QED BY <1>1, <1>2, <1>3, <1>4, <1>5, <1>6, <1>7, <1>8, <1>9, <1>10 DEF Next

(***************************************************************************)
(* What the interpreter and the JIT are given is, whatever the file, the   *)
(* translation of its text with the clear loops collapsed and nothing else *)
(* changed; and a text refused for its brackets is no program.  The stack  *)
(* of scanner() and the map of optimize() are gone from this statement.    *)
(***************************************************************************)
RunsTheProgram ==
  /\ at \in {"interpreter", "jit"} =>
       SP!IsProgram(text) /\ optimized_code.data = OP!Optimised(SP!Translate(text))
  /\ Refused => ~SP!IsProgram(text)

THEOREM ProgramIsRun == Spec => []RunsTheProgram
<1>1. Init => ProgramPart
  BY DEF Init, ProgramPart, Refused
<1>2. IInv /\ ProgramPart /\ [Next]_vars => ProgramPart'
  BY NextProgramPart
<1>3. ProgramPart => RunsTheProgram
  BY DEF ProgramPart, RunsTheProgram
<1>. QED BY Invariance, <1>1, <1>2, <1>3, PTL DEF Spec
=============================================================================
