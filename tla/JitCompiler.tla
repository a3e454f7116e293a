----------------------------- MODULE JitCompiler -----------------------------
(***************************************************************************)
(* What the two JIT backends have in common: the JitBuffer of              *)
(* src/jit/jit_common.c, and the order in which jit_compile_function() of  *)
(* either backend fills it, one opcode per step, a lambda body inside the  *)
(* function that defines it.  A backend says what is emitted.              *)
(*                                                                         *)
(* What one opcode emits is one step: nothing looks at the buffer in       *)
(* between, and every failed push ends at the same label.                  *)
(***************************************************************************)
EXTENDS Opcodes, GrowableArray, Instructions, SequencesExt

CONSTANT JitCapacity    \* bytes in the buffer: 65536 in the code

ASSUME JitCapacityAssumption == JitCapacity \in Nat

VARIABLES
  code,      \* the argument of jit()
  phase,     \* where the backend is, or how it ended
  fns,       \* the calls of jit_compile_function under way, innermost last
  next,      \* the jump patch to apply, counted from 0
  buffer,    \* the instructions emitted so far, in order
  size,      \* JitBuffer.size: bytes emitted
  addrs,     \* opcode_addresses: << >> before calloc
  patches,   \* jump_patches
  start,     \* start_addr, the offset of the thunk
  mappings   \* the mappings that mmap made and munmap has not undone

jit == <<buffer, size, addrs, patches, start, mappings>>

\* Until the emitted code is called.
Starting == {"create", "calloc", "enter", "compile", "patch"}

\* One call of jit_compile_function: the opcode it is at, end_pc, and the
\* offset of the function it is emitting.
Function == [pc : Nat, end : Nat, entry : Nat]

-----------------------------------------------------------------------------
Fits_Late(template) == size <= JitCapacity    \* Bug: count is not added.

Fits(template) == size + Length(template) <= JitCapacity

\* JitBuffer_push_bytes, for every byte of template.
Push(template) ==
  /\ Fits(template)
  /\ buffer' = buffer \o PlacedAt(template, size)
  /\ size' = size + Length(template)

\* JitBuffer_record_opcode_address.
Record(opcode_index) == addrs' = [addrs EXCEPT ![opcode_index + 1] = size]

\* JitBuffer_add_jump_patch, for a jump emitted skip bytes from here.
AddPatch(skip, target) ==
  patches' = Pushed(patches,
    [instruction_offset |-> size + skip, target_opcode_index |-> target])

\* JitBuffer_destroy: unmap, free both arrays, zero the struct.
Destroyed ==
  /\ mappings' = mappings - 1
  /\ buffer' = << >> /\ size' = 0 /\ addrs' = << >> /\ patches' = Freed

Fail_Leaks ==    \* Bug: return false without going to the label.
  /\ phase' = "failed"
  /\ UNCHANGED <<code, fns, next, jit>>

\* The label "error" with success = false.
Fail ==
  /\ Destroyed
  /\ phase' = "failed"
  /\ fns' = << >>
  /\ UNCHANGED <<code, next, start>>

-----------------------------------------------------------------------------
CompilerInit(programs) ==
  /\ code \in programs
  /\ phase = "create"
  /\ fns = << >> /\ next = 0
  /\ buffer = << >> /\ size = 0 /\ addrs = << >> /\ patches = Freed
  /\ start = 0 /\ mappings = 0

\* JitBuffer_create maps the buffer.  When it fails, jit_exec returns with
\* nothing to destroy.
MapBuffer ==
  /\ phase = "create"
  /\ \/ mappings' = mappings + 1 /\ phase' = "calloc"
     \/ mappings' = mappings /\ phase' = "failed"
  /\ UNCHANGED <<code, fns, next, buffer, size, addrs, patches, start>>

AllocAddresses_Leaks ==    \* Bug: no munmap when calloc fails.
  /\ phase = "calloc"
  /\ \/ addrs' = [k \in 1 .. (Len(code) + 1) |-> 0] /\ phase' = "enter"
     \/ addrs' = addrs /\ phase' = "failed"
  /\ UNCHANGED <<code, fns, next, buffer, size, patches, start, mappings>>

\* It allocates one address per opcode and one for the end, or unmaps.
AllocAddresses ==
  /\ phase = "calloc"
  /\ \/ /\ addrs' = [k \in 1 .. (Len(code) + 1) |-> 0]
        /\ phase' = "enter" /\ mappings' = mappings
     \/ addrs' = addrs /\ phase' = "failed" /\ mappings' = mappings - 1
  /\ UNCHANGED <<code, fns, next, buffer, size, patches, start>>

\* jit_compile_function enters the main function.
EnterMain(prologue) ==
  /\ phase = "enter"
  /\ \/ /\ Push(prologue)
        /\ fns' = << [pc |-> 0, end |-> Len(code), entry |-> 0] >>
        /\ phase' = "compile"
        /\ UNCHANGED <<code, next, addrs, patches, start, mappings>>
     \/ ~Fits(prologue) /\ Fail

fn == Last(fns)

opc == code[fn.pc + 1]

Compiling == phase = "compile" /\ fn.pc < fn.end

IsJump(o) == o.op \in {"op_jf", "op_jt"}

\* Any opcode but op_def_lambda.  The jump of a jump is its last instruction.
EmitOp(template) ==
  /\ Compiling
  /\ opc.op # "op_def_lambda"
  /\ \/ /\ Push(template)
        /\ Record(fn.pc)
        /\ IF IsJump(opc) THEN AddPatch(Length(Front(template)), opc.num)
                         ELSE patches' = patches
        /\ fns' = [fns EXCEPT ![Len(fns)].pc = @ + 1]
        /\ UNCHANGED <<code, phase, next, start, mappings>>
     \/ (~Fits(template) \/ (IsJump(opc) /\ PushCanFail(patches))) /\ Fail

\* Bytes of NOPs that bring the next function to a multiple of 16.
Padding == (16 - (size % 16)) % 16

Aligned(prologue) ==
  IF Padding = 0 THEN prologue ELSE << Ins("nop", "", Padding) >> \o prologue

Entry_Unaligned == size    \* Bug: read before the NOPs are pushed.

Entry == size + Padding

\* op_def_lambda: jit_compile_function calls itself for the body.
EnterLambda(prologue) ==
  /\ Compiling
  /\ opc.op = "op_def_lambda"
  /\ \/ /\ Push(Aligned(prologue))
        /\ Record(fn.pc)
        /\ fns' = Append(fns, [pc |-> fn.pc + 1, end |-> opc.num, entry |-> Entry])
        /\ UNCHANGED <<code, phase, next, patches, start, mappings>>
     \/ ~Fits(Aligned(prologue)) /\ Fail

\* The call for a body returns, and the opcode that defines it emits the call
\* that pushes the closure.
LeaveLambda(epilogue, define) ==
  LET template == epilogue \o define
  IN  /\ phase = "compile" /\ fn.pc >= fn.end /\ Len(fns) > 1
      /\ \/ /\ Push(template)
            /\ Record(fn.pc)
            /\ fns' = [Front(fns) EXCEPT ![Len(fns) - 1].pc = fn.end]
            /\ UNCHANGED <<code, phase, next, patches, start, mappings>>
         \/ ~Fits(template) /\ Fail

\* The end of the code gets an address too; then the thunk that the backend
\* calls is appended.
LeaveMain(epilogue, thunk) ==
  /\ phase = "compile" /\ fn.pc >= fn.end /\ Len(fns) = 1
  /\ \/ /\ Push(epilogue \o thunk)
        /\ Record(fn.pc)
        /\ start' = size + Length(epilogue)
        /\ fns' = << >>
        /\ phase' = "patch"
        /\ UNCHANGED <<code, next, patches, mappings>>
     \/ ~Fits(epilogue \o thunk) /\ Fail

patch == patches.data[next + 1]

Target == addrs[patch.target_opcode_index + 1]

\* One iteration of JitBuffer_patch_jumps; a patch it cannot apply it skips.
PatchNext(applies, patched) ==
  /\ phase = "patch" /\ next < Len(patches.data)
  /\ buffer' = IF patch.target_opcode_index < Len(code) + 1 /\ applies
               THEN patched ELSE buffer
  /\ next' = next + 1
  /\ UNCHANGED <<code, phase, fns, size, addrs, patches, start, mappings>>

-----------------------------------------------------------------------------
CompilerTypeOK ==
  /\ code \in Seq(Opcode)
  /\ phase \in Starting \cup {"run", "returned", "failed", "undefined"}
  /\ fns \in Seq(Function)
  /\ next \in Nat
  /\ size \in 0 .. JitCapacity
  /\ addrs \in Seq(Nat)
  /\ patches \in ArrayOf([instruction_offset : Nat, target_opcode_index : Nat])
  /\ start \in Nat
  /\ mappings \in Nat

\* Whether the backend fails or succeeds it has unmapped the buffer, once, and
\* released both arrays.
Released ==
  phase \in {"failed", "returned"} =>
    mappings = 0 /\ buffer = << >> /\ size = 0 /\ addrs = << >> /\ patches = Freed

(***************************************************************************)
(* The address a definition hands to jit_runtime_push_lambda is where the  *)
(* function of that body begins, aligned to 16 bytes, with the code of the *)
(* body's first opcode after its prologue; and that call is followed by    *)
(* the code of the opcode after the body.                                  *)
(***************************************************************************)
LambdasAt(prologue) ==
  phase = "run" =>
    \A k \in DOMAIN code :
      code[k].op = "op_def_lambda" =>
        \E j \in DOMAIN buffer :
           /\ buffer[j].name = "push_lambda"
           /\ buffer[j].arg % 16 = 0
           /\ addrs[k + 1] = buffer[j].arg + Length(prologue)
           /\ buffer[j].at + buffer[j].len = addrs[code[k].num + 1]

\* Compiling ends, with a program running or an error.
Compiles == <>(phase \notin Starting)
=============================================================================
