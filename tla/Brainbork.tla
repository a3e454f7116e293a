------------------------------- MODULE Brainbork -------------------------------
(***************************************************************************)
(* The whole program: main() of src/main.c, and the scanner, the           *)
(* optimizer, the interpreter and the JIT of src/jit/jit.c that it calls   *)
(* one after the other, each as its own module models it.  The component   *)
(* main() is in takes its steps; the others do not move.                   *)
(***************************************************************************)
EXTENDS Opcodes, GrowableArray, Machine, SequencesExt

CONSTANTS
  CommandLines,   \* the arguments after the program's name
  Files,          \* the arguments among them that name a file
  Contents,       \* what such a file may hold: commands, comments, NUL
  Inputs,         \* the byte sequences stdin may hold
  Hosts,          \* the architectures the program may be built for
  JitCapacity,    \* bytes in the JIT's buffer
  MaxOutput       \* bound of the model: bytes written

ASSUME BrainborkAssumption ==
  /\ CommandLines \subseteq Seq(STRING) /\ Files \subseteq STRING
  /\ Contents \subseteq Seq(STRING) /\ Inputs \subseteq Seq(Byte)
  /\ Hosts \subseteq {"x86_64", "other"}
  /\ JitCapacity \in Nat /\ MaxOutput \in Nat

VARIABLES
  argv, content, stdin, host,    \* what the process is given; never changes
  at,               \* where main() is
  arg,              \* arguments looked at
  modes,            \* interpreter_mode and jit_compiler_mode, as a set of options
  filename_index,   \* 0 for -1
  held,             \* of the FILE and file_content, what main() must release
  text,             \* what file_content points to, up to the first NUL
  code, optimized_code,
  exit,             \* main()'s result
  si, vector, stk, scanned,              \* scanner()'s locals, and how it stands
  oi, map, optimized,                    \* optimize()'s
  p, pc, lambdas, calls, interpreted,    \* interpreter()'s
  phase, fns, next, buffer, size, addrs, patches, start, mappings,    \* jit()'s
  ip, regs, stack, zf,                   \* the processor's
  mem, input, output                     \* g_bf_mem, stdin and stdout

given       == <<argv, content, stdin, host>>
options     == <<arg, modes, filename_index>>
vectors     == <<code, optimized_code>>
scanning    == <<si, vector, stk, scanned>>
optimizing  == <<oi, map, optimized>>
interpreting == <<p, pc, lambdas, calls, interpreted>>
jitting     == <<phase, fns, next, buffer, size, addrs, patches, start, mappings, ip, regs, stack, zf>>
machine     == <<mem, input, output>>
stages      == <<scanning, optimizing, interpreting, jitting, machine>>
vars        == <<given, options, at, held, text, vectors, exit, stages>>

S == INSTANCE Scanner WITH
       Sources <- {}, src <- text, i <- si, code <- vector, out <- code, status <- scanned

O == INSTANCE Optimizer WITH
       Inputs <- {}, inp <- code.data, i <- oi, out <- optimized_code, status <- optimized

I == INSTANCE Interpreter WITH
       Programs <- {}, code <- optimized_code.data, status <- interpreted, MaxFrames <- 0

X == INSTANCE X86Jit WITH Programs <- {}, code <- optimized_code.data

-----------------------------------------------------------------------------
Init ==
  /\ argv \in CommandLines /\ content \in Contents /\ stdin \in Inputs /\ host \in Hosts
  /\ at = "options" /\ arg = 0 /\ modes = {} /\ filename_index = 0
  /\ held = {} /\ text = << >> /\ code = Freed /\ optimized_code = Freed /\ exit = {}
  /\ si = 0 /\ vector = Freed /\ stk = Freed /\ scanned = "scanning"
  /\ oi = 0 /\ map = << >> /\ optimized = "entered"
  /\ p = 0 /\ pc = 0 /\ lambdas = Freed /\ calls = Freed /\ interpreted = "running"
  /\ phase = "create" /\ fns = << >> /\ next = 0
  /\ buffer = << >> /\ size = 0 /\ addrs = << >> /\ patches = Freed /\ start = 0 /\ mappings = 0
  /\ ip = 0 /\ regs = X!Callers /\ stack = << >> /\ zf = FALSE
  /\ mem = ZeroTape /\ input = stdin /\ output = << >>

Return(result) == at' = "exit" /\ exit' = {result}

Goto(label) == at' = label /\ exit' = exit

\* One iteration of the loop over argv.
ParseArg ==
  /\ at = "options" /\ arg < Len(argv)
  /\ arg' = arg + 1
  /\ LET a == argv[arg + 1]
     IN  \/ /\ a \in {"-i", "-j"}
            /\ modes' = modes \cup {a}
            /\ UNCHANGED <<at, exit, filename_index>>
         \/ /\ a \in Files /\ filename_index = 0
            /\ filename_index' = arg + 1
            /\ UNCHANGED <<at, exit, modes>>
         \/ /\ a \in Files /\ filename_index # 0
            /\ Return(-1)
            /\ UNCHANGED <<modes, filename_index>>
         \/ /\ a \notin Files \cup {"-i", "-j"}
            /\ Return(-1)
            /\ UNCHANGED <<modes, filename_index>>
  /\ UNCHANGED <<given, held, text, vectors, stages>>

\* No argument is not an error; no mode, or no file, is.
EndOptions ==
  /\ at = "options" /\ arg = Len(argv)
  /\ \/ argv = << >> /\ Return(0)
     \/ argv # << >> /\ (modes = {} \/ filename_index = 0) /\ Return(-1)
     \/ modes # {} /\ filename_index # 0 /\ Goto("fopen")
  /\ UNCHANGED <<given, options, held, text, vectors, stages>>

Open ==
  /\ at = "fopen"
  /\ \/ held' = {"file"} /\ Goto("malloc")
     \/ held' = {} /\ Return(-1)
  /\ UNCHANGED <<given, options, text, vectors, stages>>

\* ftell() or malloc() fails, or there is a buffer for the whole file.
Allocate ==
  /\ at = "malloc"
  /\ \/ held' = {"file", "file_content"} /\ Goto("fread")
     \/ held' = {} /\ Return(-1)
  /\ UNCHANGED <<given, options, text, vectors, stages>>

\* What strlen() sees of a file: the characters before the first NUL.
UpToNul_AndIt(s) ==    \* Bug: the NUL is a character like any other.
  s

UpToNul(s) ==
  LET n == SelectInSeq(s, LAMBDA ch : ch = "NUL")
  IN  IF n = 0 THEN s ELSE SubSeq(s, 1, n - 1)

Read ==
  /\ at = "fread"
  /\ \/ held' = {"file_content"} /\ text' = UpToNul(content) /\ Goto("scan")
     \/ held' = {} /\ text' = text /\ Return(-1)
  /\ UNCHANGED <<given, options, vectors, stages>>

Scan ==
  /\ at = "scan"
  /\ UNCHANGED <<given, options, at, held, text, optimized_code, exit,
                 optimizing, interpreting, jitting, machine>>
  /\ S!Next

Scanned_KeepsText ==    \* Bug: no free before return -1.
  /\ at = "scan" /\ scanned # "scanning"
  /\ IF scanned = "ok" THEN held' = {} /\ Goto("optimize") ELSE held' = held /\ Return(-1)
  /\ UNCHANGED <<given, options, text, vectors, stages>>

Scanned ==
  /\ at = "scan" /\ scanned # "scanning"
  /\ held' = {}
  /\ IF scanned = "ok" THEN Goto("optimize") ELSE Return(-1)
  /\ UNCHANGED <<given, options, text, vectors, stages>>

Optimize ==
  /\ at = "optimize"
  /\ UNCHANGED <<given, options, at, held, text, code, exit,
                 scanning, interpreting, jitting, machine>>
  /\ O!Next

EnterJit_OldTape == Goto("jit") /\ mem' = mem    \* Bug: the tape is not cleared.

\* The backend clears the tape before it compiles.  (When JitBuffer_create
\* fails it does not get there, and nothing looks at the tape again.)
EnterJit == Goto("jit") /\ mem' = ZeroTape

\* Only code is freed, also when optimize() fails and leaves something in
\* optimized_code.
Optimized ==
  /\ at = "optimize" /\ O!Returned
  /\ code' = Freed
  /\ \/ optimized # "ok" /\ Return(-1) /\ mem' = mem
     \/ optimized = "ok" /\ "-i" \in modes /\ Goto("interpreter") /\ mem' = mem
     \/ optimized = "ok" /\ "-i" \notin modes /\ EnterJit
  /\ UNCHANGED <<given, options, held, text, optimized_code,
                 scanning, optimizing, interpreting, jitting, input, output>>

Interpret ==
  /\ at = "interpreter"
  /\ UNCHANGED <<given, options, at, held, text, vectors, exit,
                 scanning, optimizing, jitting>>
  /\ I!Next

\* interpreter() returns nothing: how it ended makes no difference.
Interpreted ==
  /\ at = "interpreter" /\ interpreted \notin {"running", "undefined"}
  /\ \/ "-j" \in modes /\ EnterJit /\ optimized_code' = optimized_code
     \/ "-j" \notin modes /\ Return(0) /\ mem' = mem /\ optimized_code' = Freed
  /\ UNCHANGED <<given, options, held, text, code,
                 scanning, optimizing, interpreting, jitting, input, output>>

\* jit() calls the backend of the host it was built for.
RunJit ==
  /\ at = "jit" /\ host = "x86_64"
  /\ UNCHANGED <<given, options, at, held, text, vectors, exit,
                 scanning, optimizing, interpreting>>
  /\ X!Next

JitReturned_Ignored ==    \* Bug: the result of jit() is not looked at.
  /\ at = "jit" /\ (host = "other" \/ phase \in {"returned", "failed"})
  /\ optimized_code' = Freed
  /\ Return(0)
  /\ UNCHANGED <<given, options, held, text, code, stages>>

JitReturned ==
  /\ at = "jit"
  /\ optimized_code' = Freed
  /\ \/ phase = "returned" /\ Return(0)
     \/ (phase = "failed" \/ host = "other") /\ Return(-1)
  /\ UNCHANGED <<given, options, held, text, code, stages>>

Next ==
  \/ ParseArg \/ EndOptions \/ Open \/ Allocate \/ Read \/ Scan \/ Scanned
  \/ Optimize \/ Optimized \/ Interpret \/ Interpreted \/ RunJit \/ JitReturned

Spec == Init /\ [][Next]_vars

\* Nothing but stdin can block the program, and stdin is assumed to answer.
FairSpec == Spec /\ WF_vars(Next)

-----------------------------------------------------------------------------
TypeOK ==
  /\ at \in {"options", "fopen", "malloc", "fread", "scan", "optimize", "interpreter", "jit", "exit"}
  /\ arg \in 0 .. Len(argv) /\ modes \subseteq {"-i", "-j"}
  /\ filename_index \in 0 .. arg
  /\ held \subseteq {"file", "file_content"}
  /\ text \in Seq(STRING) /\ \A k \in DOMAIN text : text[k] # "NUL"
  /\ code \in ArrayOf(Opcode) /\ optimized_code \in ArrayOf(Opcode)
  /\ exit \in {{}, {0}, {-1}}

(***************************************************************************)
(* Every stage gets what its own model takes for granted: the optimizer    *)
(* matched code; the interpreter and the JIT matched code that has none of *)
(* the lambda syntax's opcodes; and the JIT an empty tape.                 *)
(***************************************************************************)
StagesGetWhatTheyExpect ==
  /\ at = "optimize" /\ optimized = "entered" => Matched(code.data) /\ optimized_code = Freed
  /\ at \in {"interpreter", "jit"} =>
       /\ Matched(optimized_code.data)
       /\ \A k \in DOMAIN optimized_code.data :
            optimized_code.data[k].op \notin {"op_def_lambda", "op_ret", "op_call"}
  /\ at = "jit" /\ phase \in X!Starting => mem = ZeroTape

\* main() returns with the file closed, its text and the vectors freed, and
\* the memory of every stage released, except that it leaves optimized_code as
\* optimize() left it when that fails (main.c:107-111).
ReleasedAtExit ==
  at = "exit" =>
    /\ held = {} /\ code = Freed
    /\ optimized_code = Freed \/ optimized \in O!Failures
    /\ vector = Freed /\ stk = Freed /\ map = << >>
    /\ lambdas = Freed /\ calls = Freed
    /\ mappings = 0 /\ buffer = << >> /\ addrs = << >> /\ patches = Freed

\* The program reports success exactly when it was asked for nothing or
\* everything it was asked to run has run to its end.
ExitTellsWhatHappened ==
  at = "exit" =>
    (exit = {0} <=>
       \/ argv = << >>
       \/ /\ modes # {}
          /\ "-i" \in modes => interpreted = "halted"
          /\ "-j" \in modes => phase = "returned")

\* The program ends, unless it leaves the tape.
Exits == <>(at = "exit" \/ interpreted = "undefined" \/ phase = "undefined")
=============================================================================
