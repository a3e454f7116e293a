-------------------------------- MODULE X86Jit --------------------------------
(***************************************************************************)
(* jit_exec_x86_64() of src/jit/arch/x86_64/jit_x86_64.c: compile every    *)
(* opcode into a buffer, patch the jumps, make the buffer executable, call *)
(* it; and the x86-64 machine that then runs it, one instruction per step. *)
(***************************************************************************)
EXTENDS JitCompiler, Machine

CONSTANTS
  Programs,      \* the opcode vectors it may be called with
  Inputs,        \* the byte sequences stdin may hold
  MaxOutput      \* bound of the model: bytes written

ASSUME X86JitAssumption ==
  /\ Programs \subseteq Seq(Opcode)
  /\ Inputs \subseteq Seq(Byte)
  /\ MaxOutput \in Nat

\* What main() passes on is well formed, and what the comments of brainfork.h
\* say of the opcodes that it never does.
ASSUME ProgramsAreWellFormed == \A c \in Programs : WellFormed(c)

VARIABLES
  ip,        \* offset of the instruction to run
  regs,      \* the callee-saved registers the emitted code touches
  stack,     \* the machine stack, from func()'s return address up
  zf,        \* the zero flag
  mem, input, output

cpu     == <<ip, regs, stack, zf>>
machine == <<mem, input, output>>
vars    == <<code, phase, fns, next, jit, cpu, machine>>

\* A register or stack slot: a value of the C caller's (one per register, and 0
\* for its return address), an offset in the tape, an offset in the buffer,
\* bytes of the buffer, or a depth in the machine stack.
Value(base, off) == [base |-> base, off |-> off]

\* What the registers hold when jit_exec_x86_64 calls func().
Callers == [rbp |-> Value("caller", 1), rbx |-> Value("caller", 2), r12 |-> Value("caller", 3)]

-----------------------------------------------------------------------------
(* What is emitted.  The length is that of the encodings at lines 58-205.  *)

Prologue == << Ins("push", "rbp", 1), Ins("mov_rbp_rsp", "", 3),
               Ins("push", "rbx", 1), Ins("push", "r12", 2) >>

\* Bug: rbx is restored before r12, in the order they were saved.
Epilogue_Swapped == << Ins("pop", "rbx", 1), Ins("pop", "r12", 2), Ins("pop", "rbp", 1),
                       Ins("ret", "", 1) >>

Epilogue == << Ins("pop", "r12", 2), Ins("pop", "rbx", 1), Ins("pop", "rbp", 1),
               Ins("ret", "", 1) >>

\* mov rbx, g_bf_mem; mov rax, main_func_addr and call rax; ret.
Thunk == << Ins("mov_rbx_tape", "", 10), Ins("call_main", "", 12), Ins("ret", "", 1) >>

\* jit_runtime_push_lambda(entry, rbx).
Define(entry) == << Ins("push_lambda", entry, 25) >>

\* mov r12, [rip + 8] and the 8 bytes of the return address, which stand in
\* the instruction stream; the call of jit_runtime_pre_call; mov rbx, rdx and
\* call rax; the call of jit_runtime_post_ret and mov rbx, rax.
CallLambda == << Ins("mov_r12_rip", 8, 7), Ins("literal", "", 8), Ins("pre_call", "", 18),
                 Ins("call_lambda", "", 5), Ins("post_ret", "", 26) >>

\* imm8 keeps the low byte of num; imm32 is sign-extended to 64 bits.
Imm8(num)  == num % CellMod
Imm32(num) == IF 2 * (num % PtrMod) < PtrMod THEN num % PtrMod ELSE (num % PtrMod) - PtrMod

\* A jump is emitted with offset 0, for patch_jumps to fill in.
Template(o) ==
  CASE o.op = "op_add"   -> << Ins("add_mem", Imm8(o.num), 3) >>
    [] o.op = "op_sub"   -> << Ins("add_mem", -Imm8(o.num), 3) >>
    [] o.op = "op_addp"  -> << Ins("add_rbx", Imm32(o.num), 7) >>
    [] o.op = "op_subp"  -> << Ins("add_rbx", -Imm32(o.num), 7) >>
    [] o.op = "op_jt"    -> << Ins("test_mem", 0, 4), Ins("jne", 0, 6) >>
    [] o.op = "op_jf"    -> << Ins("test_mem", 0, 4), Ins("je", 0, 6) >>
    [] o.op = "op_in"    -> << Ins("getchar", 0, 14) >>
    [] o.op = "op_out"   -> << Ins("putchar", 0, 15) >>
    [] o.op = "op_clear" -> << Ins("clear_mem", 0, 3) >>
    [] o.op = "op_ret"   -> Epilogue
    [] o.op = "op_call"  -> CallLambda

-----------------------------------------------------------------------------
Init ==
  /\ CompilerInit(Programs)
  /\ ip = 0 /\ regs = Callers /\ stack = << >> /\ zf = FALSE
  /\ mem = ZeroTape /\ input \in Inputs /\ output = << >>

\* The buffer once offset rel is written over the 4 bytes at off + 2: the
\* operand of the jump at off, or bytes of whatever else is there.
Patched(off, rel) ==
  [k \in DOMAIN buffer |->
     CASE buffer[k].at = off /\ buffer[k].name \in {"je", "jne"} ->
            [buffer[k] EXCEPT !.arg = rel]
       [] buffer[k].at # off /\ buffer[k].at < off + 6
                             /\ off + 2 < buffer[k].at + buffer[k].len ->
            [buffer[k] EXCEPT !.name = "garbage"]
       [] OTHER -> buffer[k]]

RelativeOffset_FromStart(target, off) == target - off    \* Bug: + 6 is missing.

\* From the end of the 6-byte jump at off.
RelativeOffset(target, off) == target - (off + 6)

PatchJump_Never ==    \* Bug: the patch is skipped with i not incremented.
  /\ phase = "patch" /\ next < Len(patches.data)
  /\ UNCHANGED vars

PatchJump ==
  /\ LET off == patch.instruction_offset
     IN  PatchNext(off + 6 <= size, Patched(off, RelativeOffset(Target, off)))
  /\ UNCHANGED <<cpu, machine>>

\* JitBuffer_create, jit_compile_function, and the thunk.
Compile ==
  /\ \/ MapBuffer
     \/ AllocAddresses
     \/ EnterMain(Prologue)
     \/ EmitOp(Template(opc))
     \/ EnterLambda(Prologue)
     \/ LeaveLambda(Epilogue, Define(fn.entry))
     \/ LeaveMain(Epilogue, Thunk)
  /\ UNCHANGED <<cpu, machine>>

\* mprotect, then func(): the call pushes a return address of the caller's.
CallThunk ==
  /\ phase = "patch" /\ next >= Len(patches.data)
  /\ \/ /\ phase' = "run"
        /\ ip' = start
        /\ stack' = << Value("caller", 0) >>
        /\ UNCHANGED <<code, fns, next, jit, regs, zf, machine>>
     \/ Fail /\ UNCHANGED <<cpu, machine>>

-----------------------------------------------------------------------------
(* The processor.  It runs the instruction whose first byte is at ip.      *)

Here(names) ==
  /\ phase = "run"
  /\ \E k \in DOMAIN buffer : buffer[k].at = ip /\ buffer[k].name \in names

\* What the processor can run; the bytes of the literal are no instruction,
\* and whatever follows them is out of step.
Names ==
  {"push", "pop", "mov_rbp_rsp", "mov_rbx_tape", "add_rbx", "call_main", "ret",
   "add_mem", "clear_mem", "test_mem", "je", "jne", "getchar", "putchar",
   "nop", "mov_r12_rip"}

\* The processor is at an instruction, a pop finds a register that was saved,
\* and a ret an address to return to.
OnTrack ==
  /\ Here(Names)
  /\ Here({"pop"}) => stack # << >> /\ Last(stack).base # "buffer"
  /\ Here({"ret"}) => /\ stack # << >>
                      /\ Last(stack).base = "buffer" \/ Len(stack) = 1

Current == buffer[CHOOSE k \in DOMAIN buffer : buffer[k].at = ip]

Forward == ip' = ip + Current.len

p == regs["rbx"].off

\* rbx points into the tape; any other access is undefined.
AtCell == regs["rbx"].base = "tape" /\ OnTape(p)

PushReg ==
  /\ Here({"push"})
  /\ stack' = Append(stack, regs[Current.arg])
  /\ Forward
  /\ UNCHANGED <<code, phase, fns, next, jit, regs, zf, machine>>

PopReg ==
  /\ Here({"pop"}) /\ OnTrack
  /\ regs' = [regs EXCEPT ![Current.arg] = Last(stack)]
  /\ stack' = Front(stack)
  /\ Forward
  /\ UNCHANGED <<code, phase, fns, next, jit, zf, machine>>

\* nop; mov rbp, rsp; mov rbx, g_bf_mem; add rbx, imm32 and sub rbx, imm32;
\* mov r12, [rip + arg], which reads bytes of the buffer.
SetReg ==
  /\ Here({"nop", "mov_rbp_rsp", "mov_rbx_tape", "add_rbx", "mov_r12_rip"})
  /\ LET ins == Current
     IN  regs' = CASE ins.name = "nop"          -> regs
                   [] ins.name = "mov_r12_rip"  -> [regs EXCEPT !["r12"] = Value("bytes", ip + ins.len + ins.arg)]
                   [] ins.name = "mov_rbp_rsp"  -> [regs EXCEPT !["rbp"] = Value("stack", Len(stack))]
                   [] ins.name = "mov_rbx_tape" -> [regs EXCEPT !["rbx"] = Value("tape", 0)]
                   [] ins.name = "add_rbx"      -> [regs EXCEPT !["rbx"].off = @ + ins.arg]
  /\ Forward
  /\ UNCHANGED <<code, phase, fns, next, jit, stack, zf, machine>>

\* The main function is the first thing in the buffer.
CallMain ==
  /\ Here({"call_main"})
  /\ stack' = Append(stack, Value("buffer", ip + Current.len))
  /\ ip' = 0
  /\ UNCHANGED <<code, phase, fns, next, jit, regs, zf, machine>>

\* The return address that was the caller's leaves the buffer: the call to
\* func() is over, and the buffer and the runtime stacks are freed.
Ret ==
  /\ Here({"ret"}) /\ OnTrack
  /\ stack' = Front(stack)
  /\ \/ /\ Last(stack).base = "buffer"
        /\ ip' = Last(stack).off
        /\ UNCHANGED <<phase, jit>>
     \/ /\ Last(stack).base = "caller"
        /\ phase' = "returned"
        /\ Destroyed
        /\ UNCHANGED <<ip, start>>
  /\ UNCHANGED <<code, fns, next, regs, zf, machine>>

WriteMem ==
  /\ Here({"add_mem", "clear_mem"})
  /\ AtCell
  /\ mem' = [mem EXCEPT ![p] =
               IF Current.name = "add_mem" THEN CellPlus(@, Current.arg) ELSE 0]
  /\ Forward
  /\ UNCHANGED <<code, phase, fns, next, jit, regs, stack, zf, input, output>>

TestMem_Stale ==    \* Bug: the load is missing, al stays as it was.
  /\ Here({"test_mem"})
  /\ AtCell
  /\ Forward
  /\ UNCHANGED <<code, phase, fns, next, jit, regs, stack, zf, machine>>

\* mov al, [rbx]; test al, al.
TestMem ==
  /\ Here({"test_mem"})
  /\ AtCell
  /\ zf' = (mem[p] = 0)
  /\ Forward
  /\ UNCHANGED <<code, phase, fns, next, jit, regs, stack, machine>>

\* The offset is relative to the next instruction.
CondJump ==
  /\ Here({"je", "jne"})
  /\ ip' = ip + Current.len + (IF zf = (Current.name = "je") THEN Current.arg ELSE 0)
  /\ UNCHANGED <<code, phase, fns, next, jit, regs, stack, zf, machine>>

GetChar ==
  /\ Here({"getchar"})
  /\ AtCell
  /\ \/ /\ input # << >>
        /\ mem' = [mem EXCEPT ![p] = Head(input)]
        /\ input' = Tail(input)
     \/ /\ input = << >>
        /\ mem' = [mem EXCEPT ![p] = EOF]
        /\ input' = input
  /\ Forward
  /\ UNCHANGED <<code, phase, fns, next, jit, regs, stack, zf, output>>

PutChar ==
  /\ Here({"putchar"})
  /\ AtCell
  /\ Len(output) < MaxOutput
  /\ output' = Append(output, mem[p])
  /\ Forward
  /\ UNCHANGED <<code, phase, fns, next, jit, regs, stack, zf, mem, input>>

\* An access off the tape, or bytes that are not the code meant to run: what
\* follows is anyone's guess.
Undefined ==
  /\ phase = "run"
  /\ \/ ~OnTrack
     \/ Here({"add_mem", "clear_mem", "test_mem", "getchar", "putchar"}) /\ ~AtCell
  /\ phase' = "undefined"
  /\ UNCHANGED <<code, fns, next, jit, cpu, machine>>

Run ==
  \/ PushReg \/ PopReg \/ SetReg \/ CallMain \/ Ret \/ WriteMem \/ TestMem
  \/ CondJump \/ GetChar \/ PutChar \/ Undefined

Next == Compile \/ PatchJump \/ CallThunk \/ Run

Spec == Init /\ [][Next]_vars

\* Nothing but stdin can block either the compiler or the emitted code.
FairSpec == Spec /\ WF_vars(Next)

-----------------------------------------------------------------------------
AnyValue == [base : {"caller", "tape", "buffer", "stack", "bytes"}, off : Int]

TypeOK ==
  /\ CompilerTypeOK
  /\ ip \in Nat
  /\ regs \in [{"rbp", "rbx", "r12"} -> AnyValue]
  /\ stack \in Seq(AnyValue)
  /\ zf \in BOOLEAN
  /\ mem \in [0 .. (TapeSize - 1) -> Byte]
  /\ input \in Seq(Byte) /\ output \in Seq(Byte)

(***************************************************************************)
(* The processor is always at the first byte of an instruction that was    *)
(* emitted, a ret finds a return address, and a pop finds what its         *)
(* register held when the main function was entered, which for rbx is the  *)
(* address that the thunk put there: jumps, frames and thunk agree.  Two   *)
(* places are excepted, which the lambda syntax's code does not survive:   *)
(* the op_ret of a body that was run into where it is defined, and the     *)
(* address that op_call puts in its own path.                              *)
(***************************************************************************)
OnEntry == [Callers EXCEPT !["rbx"] = Value("tape", 0)]

InLambdaCode ==
  \E k \in DOMAIN code :
    /\ code[k].op \in {"op_ret", "op_call"}
    /\ ip \in addrs[k] .. (addrs[k] + Length(Template(code[k])) - 1)

NeverDerails ==
  phase = "run" =>
    \/ OnTrack /\ (Here({"pop"}) => Last(stack) = OnEntry[Current.arg])
    \/ InLambdaCode

(***************************************************************************)
(* While the code runs, the conditional jump of every loop bracket goes    *)
(* where the code of its target opcode begins, or the epilogue.            *)
(***************************************************************************)
JumpAt(k) == CHOOSE j \in DOMAIN buffer : buffer[j].at = addrs[k] + 4

JumpsReachTargets ==
  phase = "run" =>
    \A k \in DOMAIN code :
      IsJump(code[k]) =>
        LET ins == buffer[JumpAt(k)]
        IN  /\ ins.name = IF code[k].op = "op_jf" THEN "je" ELSE "jne"
            /\ ins.at + ins.len + ins.arg = addrs[code[k].num + 1]

\* The address handed to jit_runtime_push_lambda is that of the body's function.
LambdaAddresses == LambdasAt(Prologue)

\* jit_exec_x86_64 fails before the program has done anything, whichever step
\* fails, and whether it fails or succeeds it has unmapped the buffer, once, and
\* released both arrays.
FailsCleanly ==
  /\ phase = "failed" => mem = ZeroTape /\ output = << >>
  /\ Released

\* What the comment at jit_x86_64.c:277 says of the emitted code, and the
\* calling convention asks of it: when func() returns, the registers that a
\* callee must save hold what they held when it was called.
CalleeSavedRegisters == phase = "returned" => regs = Callers
=============================================================================
