# Brainbork in TLA+

Brainbork runs brainfuck programs: it scans a text into a vector of opcodes,
optimises the vector, and either interprets it or compiles it to machine code
and jumps there. This directory holds TLA+ models of its components, TLC
configurations that check them on small instances, and TLAPS proofs of what
they guarantee for every instance.

It was written against the C code under `src/src` and `src/include`; paths
below are relative to `src/`.

## 1. The system

```
           text            opcodes           opcodes
 main() --------> scanner() ------> optimize() ------+--> interpreter()
                                                     |
                                                     +--> jit() --> jit_exec_x86_64() --> emitted code
                                                               \--> jit_exec_aarch64() -> emitted code
```

The program is sequential and one-shot: no thread, no signal handler, nothing
persisted. What is hard in it is therefore not scheduling but state that has
to be kept in step over many iterations (a stack of open brackets against a
half-built vector, an index map against a shrinking vector, a call stack
against the code being run, code addresses against patches), allocations that
fail half-way, arithmetic that wraps, and a second implementation, the JIT,
that must behave as the first.

| Component | Code | State | Operations | What makes it correct |
|---|---|---|---|---|
| Opcode vectors | `include/brainfork.h` | - | - | every jump is paired with one other, loops nest |
| Growable arrays | `src/util.c` | data, size, capacity | push (may fail), pop, top, empty, init, free | a failed push changes nothing |
| Scanner | `src/compiler.c:4-105` | text index, vector, stack of open `[` | one loop iteration per command | its result is the translation of the text; unmatched brackets are refused; nothing leaks |
| Optimizer | `src/compiler.c:107-187` | index, old-to-new map, new vector | two passes | only clear loops are replaced, every jump follows its target, the map is freed |
| Interpreter | `src/vm.c` | tape, data pointer, pc, lambda and call stacks, stdin, stdout | one case per opcode | loops leave on zero, calls come back |
| JIT buffer | `src/jit/jit_common.c` | bytes, opcode addresses, jump patches | create, push, record, add patch, destroy | never written past its end, released once |
| x86-64 JIT | `src/jit/arch/x86_64/` | the buffer, then the processor | compile, patch, protect, call | the emitted code does what the interpreter does and keeps the calling convention |
| JIT runtime (not modelled, section 6) | `src/jit/runtime/` | the two runtime stacks | push_lambda, pre_call, post_ret | as the interpreter's lambda opcodes |
| aarch64 JIT | `src/jit/arch/aarch64/` | as x86-64 | as x86-64 | as x86-64 |
| JIT dispatch | `src/jit/jit.c` | - | picks the backend of the host | - |
| Driver | `src/main.c` | options, file contents, the two vectors | main() | exit code matches what happened; what it allocated is freed once |

`include/test.c` states what these should do; it does not compile at this
commit, so its assertions are taken as documentation. The expectations of two
of its programs, Hello and Loop, do not agree with what those programs write;
no property rests on them.

## 2. The modules

| Module | What it is |
|---|---|
| `Opcodes` | the instruction set; `Matched(code)`: every `[` carries the index after its `]`, every `]` the index of its `[`, loops nest; `WellFormed(code)`: the same with bodies of lambdas |
| `GrowableArray` | the four array types of `util.c`, which are one code; a push that has to call `realloc` may fail |
| `Scanner` | `scanner()`: one action per kind of loop iteration, and the return |
| `Texts` | reference definitions on texts: what a program is, its translation, without stack or loop |
| `Translation` | what `scanner()` promises, in one step: the translation, a refusal, or no memory |
| `Optimizer` | `optimize()`: one action per kind of iteration of its two passes |
| `Collapsing` | reference definition of the optimised vector, without a map |
| `Machine` | tape, cells and data pointer, shared by both ways of running |
| `Interpreter` | `interpreter()`: one action per group of switch cases |
| `Instructions` | what a backend emits: instructions with a length, and where they end up |
| `JitCompiler` | what the two backends share: the JIT buffer, and the order in which `jit_compile_function()` fills it, one opcode per step, a lambda body inside the function that defines it |
| `X86Jit` | `JitCompiler` with the x86-64 encodings, `jit_exec_x86_64()`, and the processor that runs what it emitted |
| `X86JitMapping` | that processor's state in terms of `Interpreter`'s, for the refinement |
| `Aarch64Jit` | the same for AArch64 |
| `SourceMachine` | abstract specification of the whole: what a text means, command by command, with no opcodes |
| `Brainbork` | the program: `main()`, with instances of `Scanner`, `Optimizer`, `Interpreter` and `X86Jit` for the components it calls |
| `ExtendedTexts` | reference definition of the vectors the lambda syntax stands for |
| `MC...` | instances for TLC, and the properties that only a run uses |
| `Data_proofs` | lemmas that the others share: on opcode vectors, growable arrays, emitted code, its jumps and their patches, and the nested calls of the compiler |
| `Scanner_proofs`, `Optimizer_proofs`, `Interpreter_proofs`, `X86Jit_proofs`, `Aarch64Jit_proofs`, `Brainbork_proofs` | theorems about the module of that name |

`Texts`, `ExtendedTexts`, `Collapsing`, `Translation` and `SourceMachine` model
no code: they say what the answer is, so that the models of the code can be
compared with something that was not written the same way. An operator named `X_Something` after a
definition `X`, with a comment that begins "Bug:", is a wrong version of `X`;
it is not used by any specification. It documents which mistake a property
would find.

### Correspondence with the code

* A C array of `n` elements is a sequence of length `n`; C index `k` is
  position `k + 1`. Jump targets keep their C value.
* `GrowableArray` stands for all four copies in `util.c`. `capacity = 0` is a
  NULL pointer. `PROJECT.json` maps each of its operators to one of the copies.
* `Scanner`: `SkipComment`, `ScanRun`, `ScanIO`, `ScanOpen`, `ScanClose` are
  the iterations of the loop at line 15 by what the character is, `Finish` is
  lines 92-99, `Fail` the label `error`. A run is one action, as in the code,
  with its length found by `IsRun`. The line counter for messages is left out.
* `Optimizer`: `AllocMap`, then `CollapseClear` or `CopyOp` per iteration,
  `EndPass1`, then `Remap` or `KeepOp` per iteration, `Return`. Its inputs are
  matched vectors, because `main()` passes what `scanner()` returned.
* `Interpreter`: a case of the switch is an action; `Stop` is the label
  `cleanup`. The line with the time that it prints to stdout (`vm.c:130`) is one
  element of `output`, `TimeLine`, which is no byte. The lambda cases are modelled although `scanner()` never emits
  their opcodes (finding 1): the vectors given to it satisfy `WellFormed`, what
  the comments of `brainfork.h` and `vm.c` say of those opcodes. The `default`
  case needs an opcode outside the enum and is left out.
* `JitCompiler`: phases `create`, `calloc`, `enter`, `compile`, `patch` are the C
  code. `MapBuffer` and `AllocAddresses` are the two halves of
  `JitBuffer_create`, each of which may fail; `mappings` counts what `mmap` made
  and `munmap` has not undone. An emitted
  instruction is a record with its offset, its length in bytes, its name and
  operand; the bytes are not modelled. `fns` is the recursion of
  `jit_compile_function`: `EnterMain`, `EmitOp`, `EnterLambda`, `LeaveLambda`,
  `LeaveMain` are the entry of a call, an iteration of its loop, the recursive
  call, its return, and the return of the outermost call with the thunk that
  follows. The pushes of one opcode are one action: nothing observes the
  buffer between them, and all failures end at the same label. `PatchNext`
  keeps the code's skipping of a patch it cannot apply; `JumpsReachTargets`
  would be violated if that happened, and it does not.
* `X86Jit`: phase `run` is the processor. Lengths are those of the encodings
  at `jit_x86_64.c:58-205`, so offsets, alignment, jump distances and the end
  of the buffer are exact. The registers are those the emitted code must
  preserve (rbp, rbx, r12) and the zero flag; al is dead between opcodes. The
  stack holds values tagged by where they come from (the C caller, the tape,
  the buffer, its bytes, the stack itself), so a return to a saved register
  can be told from a return to code. The C caller's values differ from one
  another (`Callers`), so that it shows which register a pop restores. `Patched` writes the offset over whatever
  is at the patch's place, and turns an instruction it should not touch into
  `garbage`, which cannot be run. `literal` is the address that a call keeps
  between its instructions, and cannot be run either. A processor that is not
  at an instruction, or pops what was not pushed for it, is `undefined`:
  bytes run as code may do anything.
* `Aarch64Jit`: every instruction is 4 bytes, an address takes `AddressWords`
  instructions to load. `stack` has the frames of 32 bytes that the prologue
  pushes. x30 is a register like the others, set by `blr`. `Crash` is an
  encoding the architecture leaves unallocated, the literal of a call, or the
  end of the code. The instructions after a `movz_w` of a number are emitted
  but never reached, so they have lengths and no steps.
* `Brainbork`: `at` is where `main()` is. `Scan`, `Optimize`, `Interpret` and
  `RunJit` are a step of the component it is in; the others do not move. Tape,
  stdin and stdout are the same variables for the interpreter and the JIT.
  `held` is what `main()` has open or allocated besides the vectors. A
  constant says for which host `jit.c` was built.
* An access outside `g_bf_mem` is undefined behaviour. Both ways of running
  stop in a state `undefined`, and no property speaks of what follows. The
  pointer itself may leave the tape and come back, and is modelled doing so.
* `getchar()` returns the next byte or, at the end of the input, -1 narrowed
  to a cell. `stdin` is assumed to answer.

## 3. The runs

All instances are exhaustive over their inputs: every text or vector up to the
given size is an initial state, and every allocation may fail at every point
where `realloc`, `malloc`, `mmap` or `mprotect` is called.

| Run | Instance | What it shows |
|---|---|---|
| `MCScanner` | every text of at most 4 characters over `+ > [ ] . (`, and of at most 7 over `- [ ]`; first capacity 2 | types; `StackIsTheOpenLoops`, `PrefixIsMatched`: stack and vector stay in step; `ResultIsMatched`; `NothingLeaks`; `EmittedIsFinal`: an opcode changes after emission only as the `[` its `]` closes; it returns; it implements `Translation` |
| `MCScannerLambda` | texts of at most 2 characters | finding 1 |
| `MCOptimizer` | the vector of every program of at most 6 characters over `+ - [ ]`, and of at most 8 over `- [ ]` | types; `MapIsExact`; `TargetsSurvive`: neither error of pass 2 can occur; the result is matched and is `Optimised(input)`; the map is freed; it returns |
| `MCInterpreter` | every well-formed vector of at most 5 opcodes over `+ > [ ] ( ) !`, and five longer ones; cells of 4 values, pointer of 5, tape of 3 | types; `FramesMatchCode`: a frame exactly while a body runs; `ReturnsAreMatched`; `LoopsExitOnZero`: calls and returns apart, a step out of a loop is the loop's own jump, on zero; `CallsReturn` |
| `MCInterpreterCat` | the program `,[.,]` on two bytes | finding 2 |
| `MCInterpreterEcho` | the program `,.` on one byte | finding 5 |
| `MCX86Jit` | the optimised vector of every program of at most 3 characters over `+ < > [ ] .`, of at most 6 over `- [ ]`, and four longer ones; every vector of at most 5 opcodes over `+ [ ] ( ) !`, and three longer ones with bodies in bodies and in loops; buffer of 130 bytes, inputs of 0 and 2 bytes | types; `NeverDerails`: the processor is always at an emitted instruction, a pop finds what its register held when the main function was entered and a ret a return address, but for two places in lambda code; `JumpsReachTargets`; `LambdaAddresses`: a definition hands over the aligned start of its body's function, and is followed by the code after the body; `FailsCleanly`: the buffer is unmapped once, whatever fails; compiling ends; `ImplementsInterpreter` for code without lambdas |
| `MCX86JitRegisters` | programs of at most 2 characters, and the longer ones | finding 3 |
| `MCAarch64Jit` | the optimised vector of every program of at most 4 characters over `+ , . [ ]`, of at most 6 over `, [ ]`, and two longer ones; every vector of at most 5 opcodes over `, [ ] ( ) !`, and three longer ones; buffer of 190 bytes, inputs of 0, 1 and 3 bytes | types; `JumpsReachTargets`, around bodies too; `FailsCleanly`; `ImplementsInterpreter` as far as the code gets |
| `MCAarch64JitReturns` | the program `,.` on one byte | finding 4 |
| `MCSourceMachine` | every program of at most 3 characters over `+ - > . x [ ]`, and three longer ones; two inputs | `ImplementsSource`: the interpreter on the optimised translation of a text implements `SourceMachine` on the text |
| `MCBrainbork` | 8 command lines, 9 files, 2 inputs, both hosts, with every failure at every point | `StagesGetWhatTheyExpect`: what the other runs assume of their inputs; `ReleasedAtExit`; `ExitTellsWhatHappened`; `OutputIsTheMeaning`: with `-i`, `-j` or both, stdin and stdout are what `SourceMachine` says, with the line of the time where `interpreter()` ends; it exits |

**Bounds.** A bracket structure of depth three and side by side loops exist
from 6 or 7 characters on; the two alphabets keep long structures and mixed
commands apart so that both are covered. A first capacity of 1 or 2 instead of
8 makes the arrays grow, and fail to grow, several times in a short run; it is
a constant of the modules and nothing else depends on it. Cells of 4 values
and a pointer of 5 wrap in a few steps; `CellMod`, `PtrMod` and `TapeSize` are
2^8, 2^32 and 0x20000 in the code. In `MCX86Jit` the pointer has 64 values, so that
`MovesAreFew` holds of every program checked (the run evaluates it): rbx does
not wrap where the interpreter's pointer does (section 5). The buffers of the JIT runs hold the prologue, the thunk and the code
of short programs and not that of the longest ones, so that the buffer ends
inside every kind of push. `AddressWords` is 3, what an address below 2^48
takes. `Fuel = 40` and `MaxBurst = 9` bound how many commands of the text
`SourceMachine` is followed for: every program of `MCBrainbork` that ends does
so within 40, and no opcode of `MCSourceMachine` stands for more than 9
commands (the run fails if either is too small). With one prologue per
definition the stack of `fns` is 3 deep in the longer examples.
`MaxOutput` and `MaxFrames` cut behaviours that write or call for ever (they
are guards of `Out`, `PutChar`, `DefLambda` and `Call`): the invariants hold up
to the cut, and no liveness property depends on what lies beyond it:
`CallsReturn` is about programs that never reach it, as the run confirms.

**Deadlock** is not checked: these are functions that return, and a state
after the return has no step. That they do return is checked by `Terminates`,
`Compiles` and `Exits`.

**Fairness** is `WF_vars(Next)`: a sequential program that is not blocked
takes its next step. The compiler never blocks; the interpreter and the
emitted code block only in `getchar()`, and stdin is assumed to answer. A text
that loops for ever under fairness would refute `Exits`: the files of
`MCBrainbork` have none. `Returns` is refuted by a ret that returns to itself,
under the same fairness.

**Refinement.** `ImplementsTranslation` (`Scanner`) maps each call of
`scanner()` to one step of `Translation`, with `out` the vector the caller
sees. `Translation` says what that step may do and not that it comes: the same
run has `Terminates` for that, and what is left is proved too (section 5).
`X86JitMapping` maps the
emitted code to `Interpreter` running the same vector: tape and input are the
same variables, the output is the same but for the line with the time, which
the mapping adds when the code has returned (`WithTimeLine`), the program counter is the opcode whose code holds
`ip` (both instructions of a jump belong to it), and the two runtime stacks
are empty. rbx needs a history variable, `pointer`: the epilogue restores
what rbx held on entry while the interpreter's pointer stays where it was, so
`pointer` follows rbx only in the program's own code. `pointer` does not
constrain any step. `MCAarch64Jit` maps the same way; the byte read by
`getchar` is in w0 for one step before it is in the tape, and counts as stored
there. Since that code never returns, what is shown is that it does nothing
wrong before it stops. `MCSourceMachine` maps the interpreter's pc to the place
in the text where that opcode begins (`places`, computed once from the text),
and each step to the commands it stands for: a run of `+`, `[-]` as a whole, a
`]` with the `[` it goes back to; the line with the time is no part of what a
text means (`Written`). `MCBrainbork` needs no mapping: what the
process has read and written is compared with what the text can have.

## 4. Findings

1. **The lambda syntax is not there.** `compiler.c:18` skips `(`, `)` and `!`
   as comments. `README.md:13,52-55` documents them and `include/test.c:284-298`
   and `364-386` test them. So `op_def_lambda`, `op_ret` and `op_call` are never
   emitted and their cases in the interpreter and the JITs are dead code.
2. **End of input.** `vm.c:52` stores -1 in a byte. The test program Cat
   (`include/test.c:351-353`) is expected to echo its input; it goes on writing
   byte 255 for ever.
3. **rbx.** The thunk that the C code calls loads rbx (`jit_x86_64.c:503`)
   before the prologue saves it, so a callee-saved register is lost, against
   the comment at line 277. Built with -O2, `brainbork -j` was seen to crash on
   its way out.
4. **aarch64: the thunk.** `blr` (`jit_aarch64.c:419`) overwrites x30, which the
   thunk's `ret` needs: it returns to itself, and no program ends, against
   `include/test.c:347-349`.

5. **The line with the time.** `interpreter()` ends with a `printf` to stdout
   (`vm.c:130`). `include/test.c:199` compares all that stdout received with the
   program's own output, and line 207 with what the JIT wrote: no program passes.

The models also contain the following, which no run refutes because no
property says otherwise; the definition that has it is named.

* `jit_movz_w` (`jit_aarch64.c:8`) puts 2 into a field that a 32-bit `movz`
  allows to be 0 or 1: every `+`, `-`, `<`, `>` and `[-]` is compiled to a word
  that is no instruction (`Hw`, `Crash`).
* `jit_mov_reg_sp` (`jit_aarch64.c:119`) encodes `mov sp, sp` whatever register
  it is given; the comment at line 206 says `mov x29, sp` (`MovSp`).
* On x86-64 a body is emitted in the path of the code that defines it
  (`jit_x86_64.c:353`) and nothing jumps over it, against
  `include/test.c:364-367`; and the load of a call's return address is patched
  to read 8 bytes too far (`jit_x86_64.c:453`), while the address itself stands
  in the path of the code (`EnterLambda`, `CallLambda`; the two exceptions of
  `NeverDerails`). `jit()` given the vectors of `(+).` and `!.` was seen to
  crash.
* The optimizer does not remap the target of `op_def_lambda`
  (`compiler.c:159`), so `[-]` in or before a body makes it jump past more than
  the body (`IsJump`).

All but the first two are about opcodes that `scanner()` never emits
(finding 1): they stand between the code and its documented lambda syntax.

## 5. Proofs

TLAPS checks the theorems below for every value of the constants that
satisfies the assumptions of the modules, and for every failure of every
allocation. TLC found out first, on the runs above, whether each formula holds.

| Theorem | What it says | Also a run's property |
|---|---|---|
| `Scanner_proofs` | | |
| `TypeCorrect` | types | `TypeOK` |
| `LoopsCorrect`, `PrefixCorrect` | the stack is the open `[`; every other bracket emitted is paired and loops nest | `StackIsTheOpenLoops`, `PrefixIsMatched` |
| `ResultCorrect` | what is returned is matched | `ResultIsMatched` |
| `Implementation` | what is returned is the translation of the text; only a text that is no program is refused, for the right reason | `ImplementsTranslation` |
| `Releases` | nothing leaks | `NothingLeaks` |
| `EmissionIsFinal` | an opcode changes only as the `[` whose `]` is emitted | `EmittedIsFinal` |
| `EmitsNoLambdas` | finding 1 for every text | - |
| `Optimizer_proofs` | | |
| `TypeCorrect` | types | `TypeOK` |
| `MapExact` | the map is the count of kept opcodes before an index | `MapIsExact` |
| `NoTargetIsLost` | neither error of pass 2 can occur | `TargetsSurvive` |
| `ReturnsMatched` | the result is matched | `ResultIsMatched` |
| `ReturnsOptimised` | the result is `Optimised(input)` | `ResultIsOptimised` |
| `FreesMap` | the map is freed | `MapIsFreed` |
| `Interpreter_proofs` | | |
| `TypeCorrect` | types: pc, frames, cells | `TypeOK` |
| `FramesCorrect` | a frame exactly while a body runs | `FramesMatchCode` |
| `NoReturnWithoutCall` | no `op_ret` with an empty call stack | `ReturnsAreMatched` |
| `LoopsExit` | but for calls and returns, a step out of a loop is the loop's own jump, on zero | `LoopsExitOnZero` |
| `X86Jit_proofs`, `Aarch64Jit_proofs` | | |
| `CleanFailure` | a failed compilation has run nothing; however the backend returns, the buffer is unmapped once and both arrays released | `FailsCleanly` |
| `TypeCorrect` | types: nothing is emitted past the end of the buffer; registers, stack and tape of the emitted code | `TypeOK` |
| `JumpsCorrect` | no patch is skipped, and every jump goes to the code of its target | `JumpsReachTargets` |
| `LambdasCorrect` (x86-64) | a definition hands over the aligned start of its body | `LambdaAddresses` |
| `StaysOnTrack` (x86-64) | the processor is always at an instruction that was emitted; a pop finds what its register held on entry, a ret a return address | `NeverDerails` |
| `RunsAsInterpreter` (x86-64) | without the lambda syntax, the emitted code does what `interpreter()` does | `ImplementsInterpreter` |
| `Brainbork_proofs` | | |
| `TypeCorrect` | types | `TypeOK` |
| `StagesFit` | each stage is called with what it expects | `StagesGetWhatTheyExpect` |
| `Releases` | everything is released at exit | `ReleasedAtExit` |
| `ExitIsTruthful` | exit code 0 exactly when nothing failed | `ExitTellsWhatHappened` |
| `ProgramIsRun` | what is run is `Optimised(Translate(text))` | - |

**Assumptions.** Each is an `ASSUME` of the module that declares the constants,
which TLC evaluates on its runs: `InitialCapacityAssumption` (a first capacity
of at least 1), `SourcesAssumption` (texts are sequences), `InputsAssumption`
(the optimizer gets matched vectors), `ProgramsAreWellFormed` (the interpreter
and the compilers get well-formed ones), `BranchesReach` (the aarch64 buffer has
at most 2^20 bytes; in the code it has 65536), and the sizes of cells, pointer,
tape and buffers.
That `scanner()` makes good what the optimizer assumes, and `optimize()` what
the interpreter assumes, is `StagesFit`: nothing is assumed of the vectors in
`Brainbork_proofs`.
One theorem has a hypothesis of its own: `RunsAsInterpreter` assumes
`MovesAreFew`, that the pointer moves of a program add up to at most
`PtrMod - TapeSize`. Their sum is at most the length of the text, so any text up
to 2^32 - 2^17 characters satisfies it; `MCX86Jit` evaluates it for its programs.
Without it the claim is false: 2^32 times `>` is the first cell again for the
interpreter's `uint32_t` and 4 GiB past the tape for rbx.

**Scanner.** `ResultIsMatched` is not inductive: that the returned vector is
matched follows only from what the stack and the prefix were before. The
inductive invariant is `IInv`: types, `Stacked`, `Prefix` and `ResultIsMatched`,
where `Stacked` and `Prefix` are `StackIsTheOpenLoops` and `PrefixIsMatched`
stated about a vector and a stack, so that lemmas can be about data and not
about states. `AppendKeepsPrefix` covers every emission but `]`;
`CloseKeepsPrefix` is the heart: patching the last open `[` pairs it with the
new `]` and disturbs no other pair, because no pair involves a `[` whose target
is still 0, and it closes the outermost of everything after it, so loops nest.
`PushKeepsStacked` and `PopKeepsStacked` keep the stack in step. At `Finish`
the stack is empty, hence no `[` is open, hence the prefix is matched.

`Implementation` needs more, since `IInv` forgets the text. `Translated` says,
of the first `i` characters, that the vector has one opcode per place where
`Texts` starts one, in order (`Written`), each the one the reference gives it
but for the target of a `[` still open (`Stands`), and that the stack holds the
places of those (`Opened`). The reference finds the partner of a bracket by
comparing depths; that the last open `[` is that partner rests on
`OneOpenPerDepth`, at most one unclosed `[` per depth, and on `CloserIs` and
`OpenerIs`, which say that the `CHOOSE`s of the reference have one candidate.
There is a lemma per kind of iteration (`CommentTranslated`, `RunTranslated`,
`IOTranslated`, `OpenTranslated`, `CloseTranslated`), one for the two ways of
refusing (`ExtraCloseIsNoProgram`, `MissingCloseIsNoProgram`) and one for the
end (`EndTranslated`). Iterations map to stutters of `Translation`, and each
way out of the loop to its one step.

**Optimizer.** `MapIsExact` is the core of `IInv`, but only `MapSoFar` is
inductive: it adds that `out` already holds, at the place the map gives, each
opcode passed (`Places`). In the second pass `SecondPass` says which jumps
already have their new target. A jump goes to the opcode after a `]`, or to a
`[`. Neither is in a collapsed loop but at its start, by `ClearLoopIsPaired`
(the brackets of `[-]` in matched code are each other's), so its target is
kept: `TargetsSurvive`. `Rewritten` is what is then true of the result, and
`ReturnsMatched` and `ReturnsOptimised` follow from it without the map: the
count of kept indexes grows with the index, so pairs stay pairs and nested
loops nested.

**Interpreter.** `FramesMatchCode` needs where frames come from:
`LambdasAreDefined` (the lambda stack has starts of bodies) and
`FramesReturnToCalls` (a frame leads to just after a call, and to a body
exactly if another frame is below). Loops and bodies nest, so no jump enters
or leaves a body; only `Call` and `Return` do, each with its frame.

**JITs.** `FailsCleanly` needs `Untouched` (as long as the compiler works, tape
and output are as they were), `Mapped` (there is one mapping from `mmap` to the
release) and `Vacant` (nothing to free before `calloc`). The other theorems
share one invariant.

`CompilerInv` is about the C code. Its data part is stated in `Data_proofs`
about sequences, so that both backends use the same lemmas. `InOrder`: the
instructions in the buffer follow one another, hence no two overlap
(`Disjoint`), which is what makes "the instruction at an offset" meaningful.
`Nested`: the calls of `jit_compile_function` under way are the bodies around
the opcode being compiled, each ending within the one outside it; that a body
ends inside the function that defines it is where `WellFormed` is used
(`CallEnters`, by `BlocksNest`). `Coded`: of every bracket compiled so far there
is a jump 4 bytes after the recorded address, a patch asks for its target, and
no other bracket has that address. `Applied`: the patches up to `next` are in
the operands. One patch changes one operand, because offsets are distinct
(`PatchApplied`); once all are applied every jump goes to its target
(`JumpsGo`). On aarch64 a patch may also be skipped, for an offset that is not
of whole words or too far: `AddressesOK` (addresses are multiples of 4 within
the buffer) and `BranchesReach` exclude it.

`MachineInv` is about the processor. On x86-64 no register ever holds an
address in the buffer, since a pop that would load one is off track, so a ret
goes to an offset that a call pushed. On aarch64 x19 is at the first cell in
the registers and in every frame.

`LambdaInv` says where the bodies went. A body is `Open` while its call is
under way: its function begins, aligned, where `fns` says (`Aligns`). When it
returns, the code that hands that address over is in the buffer (`Handed`). In
both, one address is not yet recorded when the claim is first true, that of the
opcode compiled next, and `Begins` says where it will be; `OpenSettles` and
`HandedSettles` are the steps that record it.

`NeverDerails` takes three more. It is not inductive: that the next instruction
is one that was emitted depends on where each instruction leads, and that a ret
finds a return address on how much was pushed since the call. `LayoutInv` says
where the code is: the instructions of every template are in the buffer
(`Holds`, which does not mention operands, so that patching keeps it), and the
code of every opcode but `op_ret` ends where that of the next begins, NOPs
included. `PathInv` says where the processor is: at instruction i of one of
those templates (`AtStep`), with the stack that deep. Outside bodies the code
of an opcode runs with five values on the stack, the caller's address, the
thunk's and three registers, so the epilogue's ret finds the thunk's; only the
second of them is an address in the buffer (`Framed`). Inside a body, which is
run into where it is defined, there are at least eight, so an `op_ret` pops
registers and then stops short: its ret is never run, and that is the first
exception of the property. A jump keeps the depth because it goes to an opcode
of the same bodies (`JumpStaysInBody`), and it goes there because of
`CompilerInv` (`JumpLands`). There is a lemma per location, from `ThunkSteps` to
`OtherSteps`, each of which says where its steps lead; `OnPath` is the property
but for what a pop finds. That is `EntryInv`: until the prologue has pushed a
register it holds what it held on entry, from then on its place on the stack
does, and once popped the register does again (`Preserved`). No code
of an opcode disturbs those places, lambda code included: five values are on
the stack before and after each of its steps (`Deep`).

`RunsAsInterpreter` is the refinement, for code without the lambda syntax. Then
the code of the opcodes stands in the buffer in their order (`Ordered`), so the
opcode that the mapping finds by address, `PcOf`, is the one whose template the
processor is in (`ReachedCode`, `PcMeaning`). `TraceInv` is what `PathInv` does
not know: rbx holds an address in the tape from the thunk's first instruction
to the epilogue, the flag between a test and its jump is that of the cell, and
rbx is no further from the tape than the moves up to this opcode can have
brought it (`Follows`). The distance is what the 64 bits need: after an access
the pointer is on the tape, a loop is entered and repeated at an access, so on
every path the moves since the last one are among those between two places of
the vector, and while they are fewer than `PtrMod - TapeSize` the wrapped
pointer is on the tape exactly when rbx is, and on the same cell (`MovesAlike`).
Inside a template a step stutters or is the interpreter's: `OneInstruction`,
`MoveSteps`, `CellSteps`, and for the two instructions of a bracket
`BracketSteps`, where `JumpLands` makes the jump the interpreter's. Outside
them it stutters (`BeforeCodeSteps`, `AfterCodeSteps`), and the last step is
the interpreter's `Halt` or `OffTape` (`LastStep`).

**Program.** `IInv` is a conjunct per part: what `main()` holds at each place
(`MainPart`), and for each stage what it is while it runs and what stays of it
afterwards (`ScannerPart`, `OptimizerPart`, `RunPart`, `InterpreterPart`,
`JitPart`). The proofs of the stages are used and not repeated: `SP` and `OP`
are instances of `Scanner_proofs` and `Optimizer_proofs` at the variables of
`main()`, and their theorems about a step are cited for a step of `main()`
inside the stage. `ProgramIsRun` follows the text the same way with
`Translated` and `Rewritten`. With `RunsAsInterpreter` it leaves, between the file and the
output, only the meaning of one opcode vector, whichever way it is run.

**What proving changed.** Two definitions were wrong on vectors larger than
TLC's. `Optimised` chose between overlapping cases, so that what an opcode
became depended on the order of evaluation where a `[` was the start of a
clear loop; `Final` makes the choice explicit. `WellFormed` allowed two
definitions to share an `op_ret`, for which `FramesMatchCode` is false; the
syntax cannot produce that, and it now says so.

**What stays with TLC.** `Terminates`, `Compiles`, `CallsReturn` and `Exits`
are liveness, which TLAPS does not do.
`ImplementsSource` and `OutputIsTheMeaning` compare two executions through
recursive definitions, whose values for every argument the installed provers
cannot establish. `ImplementsInterpreter` of `MCAarch64Jit` is only checked: its proof would
repeat, for the other templates, the argument that `RunsAsInterpreter` makes for
x86-64, and has not been written.

## 6. Not modelled

* `JitBuffer_exec` (`jit_common.c:82-103`): nothing calls it.
* aarch64 as the host of `Brainbork`: its code never returns, so that a
  composition would show nothing after the call of `jit()`.
* What a processor does with bytes that are not the code meant to run: it is
  the end of the model, `undefined`.
* The JIT runtime (`src/jit/runtime/`). Nothing that runs calls its helpers: no
  text makes `scanner()` emit a lambda opcode, and given a vector that has them
  the emitted code is lost before its first call of a helper (section 4,
  `NeverDerails`). The emitted calls are wrong in themselves: the pointer goes
  through a `uint32_t` and a struct of 24 bytes is taken from two registers. A
  model of what their comments intend would not be of this code, so they are
  listed as hazards. So is that a lambda that cannot be pushed is only reported
  (`jit_runtime.c:11`). (`jit_runtime.h:16` says that `pre_call` pops the lambda;
  it looks at the top, as `README.md:54` asks.)
* Windows branches; message texts, the usage message included, and the line
  counter for them.
* Narrowing of sizes to `uint32_t` (`compiler.c:66,68,181`): texts of 4 GiB.
* Stack alignment at the JIT's calls of `getchar` and `putchar`: the emitted
  code calls them 8 bytes off the ABI's alignment, and what that does depends
  on the C library.
* `include/test.c`, which does not compile, the Makefile and the examples.

## 7. Plan

What is left to prove is the refinement of `MCAarch64Jit`, along the lines of
`RunsAsInterpreter`: the code crashes at its first immediate, so that only
brackets, input and output are reached and the pointer never moves.
