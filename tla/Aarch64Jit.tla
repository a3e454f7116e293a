------------------------------ MODULE Aarch64Jit ------------------------------
(***************************************************************************)
(* jit_exec_aarch64() of src/jit/arch/aarch64/jit_aarch64.c, and the       *)
(* AArch64 machine that runs what it emits, one instruction per step.  Two *)
(* instructions whose encoding is not the one their name asks for are      *)
(* modelled by their encoding: movz_w and mov_reg_sp.                      *)
(***************************************************************************)
EXTENDS JitCompiler, Machine

CONSTANTS
  Programs,      \* the opcode vectors it may be called with
  Inputs,        \* the byte sequences stdin may hold
  AddressWords,  \* instructions of jit_mov_reg_imm64 for an address: 3 below 2^48
  MaxOutput      \* bound of the model: bytes written

ASSUME Aarch64JitAssumption ==
  /\ Programs \subseteq Seq(Opcode)
  /\ Inputs \subseteq Seq(Byte)
  /\ AddressWords \in 1 .. 4 /\ MaxOutput \in Nat

\* What main() passes on is well formed, and what the comments of brainfork.h
\* say of the opcodes that it never does.
ASSUME ProgramsAreWellFormed == \A c \in Programs : WellFormed(c)

\* No branch is further than the 2^18 words that the offset of a conditional
\* branch holds: the buffer is of 65536 bytes.
ASSUME BranchesReach == JitCapacity <= 2 ^ 20

VARIABLES
  ip,        \* offset of the instruction to run
  regs,      \* the registers the emitted code must preserve, and x30
  stack,     \* the frames pushed on the machine stack, 32 bytes each
  w0,        \* the low byte of w0
  mem, input, output

cpu     == <<ip, regs, stack, w0>>
machine == <<mem, input, output>>
vars    == <<code, phase, fns, next, jit, cpu, machine>>

\* A register or stack slot: a value of the C caller's, an offset in the tape,
\* an offset in the buffer, or bytes of no meaning.
Value(base, off) == [base |-> base, off |-> off]

\* What the registers hold when jit_exec_aarch64 calls func().
Callers == [x19 |-> Value("caller", 0), x20 |-> Value("caller", 1),
            x29 |-> Value("caller", 2), x30 |-> Value("caller", 3)]

-----------------------------------------------------------------------------
(* What is emitted: words of 4 bytes.                                      *)

W(name, arg) == Ins(name, arg, 4)

\* jit_mov_reg_imm64 of an address, and the instruction that uses it.
Address(name) == Ins(name, "", 4 * AddressWords + 4)

\* jit_mov_reg_imm32: a movz and, for a wide number, a movk.  The 2 at line 8
\* lands in the field hw, which a 32-bit movz allows to be 0 or 1 only.
Hw == 2

MovImm32(num) ==
  IF num < 2 ^ 16 THEN << W("movz_w", Hw) >> ELSE << W("movz_w", Hw), W("movk_w", "") >>

\* jit_mov_reg_sp sets all five bits of rd: mov sp, sp whatever rd is.
MovSp == << W("mov_sp", "sp") >>

Prologue == << W("stp_pre", <<"x29", "x30">>) >> \o MovSp \o << W("stp", <<"x19", "x20">>) >>

Epilogue == << W("ldp", <<"x19", "x20">>), W("ldp_post", <<"x29", "x30">>), W("ret", "") >>

\* mov x19, g_bf_mem; mov x0, main_func_addr and blr x0; ret.
Thunk == << Ins("mov_x19_tape", "", 4 * AddressWords), Address("call_main"), W("ret", "") >>

\* jit_runtime_push_lambda(entry, x19).
Define(entry) == << Ins("push_lambda", entry, 8 * AddressWords + 8) >>

\* The address of what follows is written over the last two words of the
\* mov x20, which is 4 words long.
CallLambda == << Ins("mov_x20", "", 8), Ins("literal", "", 8),
                 Ins("pre_call", "", 4 * AddressWords + 12), Ins("call_lambda", "", 8),
                 Ins("post_ret", "", 4 * AddressWords + 8) >>

\* A jump is emitted with offset 0, for patch_jumps to fill in.
Template(o) ==
  CASE o.op = "op_add"   -> << W("ldrb", "") >> \o MovImm32(o.num) \o << W("add_w", ""), W("strb", "") >>
    [] o.op = "op_sub"   -> << W("ldrb", "") >> \o MovImm32(o.num) \o << W("sub_w", ""), W("strb", "") >>
    [] o.op = "op_addp"  -> MovImm32(o.num) \o << W("add_x19", "") >>
    [] o.op = "op_subp"  -> MovImm32(o.num) \o << W("sub_x19", "") >>
    [] o.op = "op_jt"    -> << W("ldrb", ""), W("cbnz", 0) >>
    [] o.op = "op_jf"    -> << W("ldrb", ""), W("cbz", 0) >>
    [] o.op = "op_in"    -> << Address("getchar"), W("strb", "") >>
    [] o.op = "op_out"   -> << W("ldrsb", ""), Address("putchar") >>
    [] o.op = "op_clear" -> MovImm32(0) \o << W("strb", "") >>
    [] o.op = "op_ret"   -> Epilogue
    [] o.op = "op_call"  -> CallLambda

-----------------------------------------------------------------------------
Init ==
  /\ CompilerInit(Programs)
  /\ ip = 0 /\ regs = Callers /\ stack = << >> /\ w0 = 0
  /\ mem = ZeroTape /\ input \in Inputs /\ output = << >>

\* JitBuffer_create, jit_compile_function_aarch64, and the thunk.  NOPs that do
\* not fit are not noticed, but what follows them does not fit either.
Compile ==
  /\ \/ MapBuffer
     \/ AllocAddresses
     \/ EnterMain(Prologue)
     \/ EmitOp(Template(opc))
     \/ EnterLambda(Prologue)
     \/ LeaveLambda(Epilogue, Define(fn.entry))
     \/ LeaveMain(Epilogue, Thunk)
  /\ UNCHANGED <<cpu, machine>>

RelativeOffset_FromEnd(target, off) == target - (off + 4)    \* Bug: as on x86-64.

\* From the start of the jump at off.
RelativeOffset(target, off) == target - off

\* The offset, in words, goes into the 19 bits of the word at the patch.
PatchJump ==
  /\ LET off == patch.instruction_offset
         rel == RelativeOffset(Target, off)
     IN  PatchNext(rel % 4 = 0 /\ rel \div 4 \in -(2 ^ 18) .. (2 ^ 18 - 1),
                   [k \in DOMAIN buffer |->
                      IF buffer[k].at = off THEN [buffer[k] EXCEPT !.arg = rel] ELSE buffer[k]])
  /\ UNCHANGED <<cpu, machine>>

\* mprotect, then func(): x30 is the caller's return address.
CallThunk ==
  /\ phase = "patch" /\ next >= Len(patches.data)
  /\ \/ /\ phase' = "run"
        /\ ip' = start
        /\ UNCHANGED <<code, fns, next, jit, regs, stack, w0, machine>>
     \/ Fail /\ UNCHANGED <<cpu, machine>>

-----------------------------------------------------------------------------
(* The processor.  It runs the instruction whose first byte is at ip.      *)

Here(names) ==
  /\ phase = "run"
  /\ \E k \in DOMAIN buffer : buffer[k].at = ip /\ buffer[k].name \in names

Current == buffer[CHOOSE k \in DOMAIN buffer : buffer[k].at = ip]

Forward == ip' = ip + Current.len

\* Always cell 0: the processor stops at the movz before any add to x19.
p == regs["x19"].off

Unwritten == [r \in DOMAIN Callers |-> Value("bytes", 0)]

\* stp: with a new frame, or in the one just pushed.
Store ==
  /\ Here({"stp_pre", "stp"})
  /\ Here({"stp"}) => stack # << >>
  /\ LET frame == IF Current.name = "stp_pre" THEN Unwritten ELSE Last(stack)
         kept  == IF Current.name = "stp_pre" THEN stack ELSE Front(stack)
     IN  stack' = Append(kept, [r \in DOMAIN Callers |->
                                  IF r \in {Current.arg[1], Current.arg[2]} THEN regs[r] ELSE frame[r]])
  /\ Forward
  /\ UNCHANGED <<code, phase, fns, next, jit, regs, w0, machine>>

\* ldp: from the last frame, which ldp_post pops.
Load ==
  /\ Here({"ldp", "ldp_post"}) /\ stack # << >>
  /\ regs' = [r \in DOMAIN regs |->
                IF r \in {Current.arg[1], Current.arg[2]} THEN Last(stack)[r] ELSE regs[r]]
  /\ stack' = IF Current.name = "ldp_post" THEN Front(stack) ELSE stack
  /\ Forward
  /\ UNCHANGED <<code, phase, fns, next, jit, w0, machine>>

\* nop; mov sp, sp; mov x19, g_bf_mem; the half of mov x20 that is left of it.
SetReg ==
  /\ Here({"nop", "mov_sp", "mov_x19_tape", "mov_x20"})
  /\ regs' = CASE Current.name = "mov_x19_tape" -> [regs EXCEPT !["x19"] = Value("tape", 0)]
              [] Current.name = "mov_x20"      -> [regs EXCEPT !["x20"] = Value("bytes", 0)]
              [] OTHER                         -> regs
  /\ Forward
  /\ UNCHANGED <<code, phase, fns, next, jit, stack, w0, machine>>

\* blr: x30 is the address after the call.
Link == regs' = [regs EXCEPT !["x30"] = Value("buffer", ip + Current.len)]

CallMain ==
  /\ Here({"call_main"})
  /\ Link
  /\ ip' = 0
  /\ UNCHANGED <<code, phase, fns, next, jit, stack, w0, machine>>

\* To x30, wherever that came from.
Ret ==
  /\ Here({"ret"})
  /\ IF regs["x30"].base = "buffer"
     THEN ip' = regs["x30"].off /\ UNCHANGED <<phase, jit>>
     ELSE phase' = "returned" /\ Destroyed /\ UNCHANGED <<ip, start>>
  /\ UNCHANGED <<code, fns, next, regs, stack, w0, machine>>

LoadCell ==
  /\ Here({"ldrb", "ldrsb"})
  /\ w0' = mem[p]
  /\ Forward
  /\ UNCHANGED <<code, phase, fns, next, jit, regs, stack, machine>>

StoreCell ==
  /\ Here({"strb"})
  /\ mem' = [mem EXCEPT ![p] = w0]
  /\ Forward
  /\ UNCHANGED <<code, phase, fns, next, jit, regs, stack, w0, input, output>>

CondJump_Swapped ==    \* Bug: cbz where cbnz is meant.
  /\ Here({"cbz", "cbnz"})
  /\ ip' = ip + (IF (w0 = 0) = (Current.name = "cbnz") THEN Current.arg ELSE Current.len)
  /\ UNCHANGED <<code, phase, fns, next, jit, regs, stack, w0, machine>>

CondJump ==
  /\ Here({"cbz", "cbnz"})
  /\ ip' = ip + (IF (w0 = 0) = (Current.name = "cbz") THEN Current.arg ELSE Current.len)
  /\ UNCHANGED <<code, phase, fns, next, jit, regs, stack, w0, machine>>

\* The result is stored by the next instruction, which keeps the low byte.
GetChar ==
  /\ Here({"getchar"})
  /\ Link
  /\ \/ input # << >> /\ w0' = Head(input) /\ input' = Tail(input)
     \/ input = << >> /\ w0' = EOF /\ input' = input
  /\ Forward
  /\ UNCHANGED <<code, phase, fns, next, jit, stack, mem, output>>

\* What putchar() leaves in w0 nothing reads.
PutChar ==
  /\ Here({"putchar"})
  /\ Len(output) < MaxOutput
  /\ Link
  /\ output' = Append(output, w0)
  /\ Forward
  /\ UNCHANGED <<code, phase, fns, next, jit, stack, w0, mem, input>>

\* An encoding the architecture leaves unallocated raises an exception; bytes
\* that are not the code meant to run may do anything.
Names ==
  {"stp_pre", "stp", "ldp", "ldp_post", "nop", "mov_sp", "mov_x19_tape", "mov_x20",
   "call_main", "ret", "ldrb", "ldrsb", "strb", "cbz", "cbnz", "getchar", "putchar"}

Crash ==
  /\ phase = "run" /\ ~Here(Names)
  /\ phase' = "undefined"
  /\ UNCHANGED <<code, fns, next, jit, cpu, machine>>

Next ==
  \/ Compile \/ PatchJump \/ CallThunk
  \/ Store \/ Load \/ SetReg \/ CallMain \/ Ret \/ LoadCell \/ StoreCell
  \/ CondJump \/ GetChar \/ PutChar \/ Crash

Spec == Init /\ [][Next]_vars

\* Nothing but stdin can block either the compiler or the emitted code.
FairSpec == Spec /\ WF_vars(Next)

-----------------------------------------------------------------------------
AnyValue == [base : {"caller", "tape", "buffer", "bytes"}, off : Nat]

TypeOK ==
  /\ CompilerTypeOK
  /\ ip \in Nat
  /\ regs \in [DOMAIN Callers -> AnyValue]
  /\ stack \in Seq([DOMAIN Callers -> AnyValue])
  /\ w0 \in Byte
  /\ mem \in [0 .. (TapeSize - 1) -> Byte]
  /\ input \in Seq(Byte) /\ output \in Seq(Byte)

(***************************************************************************)
(* While the code runs, the jump of every loop bracket, two words after    *)
(* the opcode's address, goes where the code of its target begins.         *)
(***************************************************************************)
JumpAt(k) == CHOOSE j \in DOMAIN buffer : buffer[j].at = addrs[k] + 4

JumpsReachTargets ==
  phase = "run" =>
    \A k \in DOMAIN code :
      IsJump(code[k]) =>
        LET ins == buffer[JumpAt(k)]
        IN  /\ ins.name = IF code[k].op = "op_jf" THEN "cbz" ELSE "cbnz"
            /\ ins.at + ins.arg = addrs[code[k].num + 1]

\* jit_exec_aarch64 fails before the program has done anything, whichever step
\* fails, and whether it fails or succeeds it has unmapped the buffer, once, and
\* released both arrays.
FailsCleanly ==
  /\ phase = "failed" => mem = ZeroTape /\ output = << >>
  /\ Released

\* What test.c:347-349 takes for granted of a program run by the JIT: it ends.
Returns == <>(phase \notin Starting \cup {"run"})
=============================================================================
