---------------------------- MODULE X86Jit_proofs -----------------------------
(***************************************************************************)
(* What jit_exec_x86_64() guarantees for every set of programs, every      *)
(* input and every size of its buffer, with proofs that TLAPS checks.      *)
(***************************************************************************)
EXTENDS X86JitMapping, Data_proofs

-----------------------------------------------------------------------------
(* Failures.  FailsCleanly is not inductive: that a failure comes before   *)
(* the program has done anything needs that of every phase before running. *)

NotStarted == phase \in Starting \cup {"failed"}

Untouched == NotStarted => mem = ZeroTape /\ output = << >>

\* Before mmap and after the release there is no mapping, otherwise one.
Mapped == mappings = IF phase \in {"create", "failed", "returned"} THEN 0 ELSE 1

\* Until both allocations are made the buffer is empty.
Vacant ==
  phase \in {"create", "calloc"} => buffer = << >> /\ size = 0 /\ addrs = << >> /\ patches = Freed

Clean == Untouched /\ Mapped /\ Vacant /\ Released

\* The label "error" of jit_exec_x86_64().
LEMMA FailStep ==
  ASSUME Untouched, Mapped, phase \in Starting \ {"create"}, Fail, UNCHANGED machine
  PROVE  Clean'
<1>1. phase' = "failed" /\ mappings = 1 /\ mappings' = 0 /\ NotStarted
  BY DEF Fail, Destroyed, Mapped, Starting, NotStarted
<1>2. Released'
  BY <1>1 DEF Fail, Destroyed, Released
<1>. QED BY <1>1, <1>2 DEF Clean, Untouched, Mapped, Vacant, NotStarted, machine

\* JitBuffer_create, which may fail before and after it has mapped the buffer.
LEMMA CreateStep ==
  ASSUME Clean, MapBuffer \/ AllocAddresses, UNCHANGED machine
  PROVE  Clean'
<1>1. CASE MapBuffer
  <2>1. phase = "create" /\ mappings = 0 /\ NotStarted
    BY <1>1 DEF MapBuffer, Clean, Mapped, Starting, NotStarted
  <2>2. \/ phase' = "calloc" /\ mappings' = 1
        \/ phase' = "failed" /\ mappings' = 0
    BY <1>1, <2>1 DEF MapBuffer
  <2>3. /\ UNCHANGED <<buffer, size, addrs, patches>>
        /\ buffer = << >> /\ size = 0 /\ addrs = << >> /\ patches = Freed
    BY <1>1, <2>1 DEF MapBuffer, Clean, Vacant
  <2>4. Untouched' /\ Mapped'
    BY <2>1, <2>2 DEF Clean, Untouched, Mapped, machine
  <2>. QED BY <2>2, <2>3, <2>4 DEF Clean, Vacant, Released
<1>2. CASE AllocAddresses
  <2>1. phase = "calloc" /\ mappings = 1 /\ NotStarted
    BY <1>2 DEF AllocAddresses, Clean, Mapped, Starting, NotStarted
  <2>2. \/ phase' = "enter" /\ mappings' = 1
        \/ phase' = "failed" /\ mappings' = 0 /\ addrs' = addrs
    BY <1>2, <2>1 DEF AllocAddresses
  <2>3. /\ UNCHANGED <<buffer, size, patches>>
        /\ buffer = << >> /\ size = 0 /\ addrs = << >> /\ patches = Freed
    BY <1>2, <2>1 DEF AllocAddresses, Clean, Vacant
  <2>4. Untouched' /\ Mapped'
    BY <2>1, <2>2 DEF Clean, Untouched, Mapped, machine
  <2>. QED BY <2>2, <2>3, <2>4 DEF Clean, Vacant, Released
<1>. QED BY <1>1, <1>2

LEMMA CompileStep ==
  ASSUME Clean, Compile
  PROVE  Clean'
<1>1. UNCHANGED machine
  BY DEF Compile
<1>2. CASE MapBuffer \/ AllocAddresses
  BY <1>1, <1>2, CreateStep
<1>3. CASE ~(MapBuffer \/ AllocAddresses)
  <2>1. phase \in {"enter", "compile"}
    BY <1>3 DEF Compile, EnterMain, EmitOp, EnterLambda, LeaveLambda, LeaveMain, Compiling
  <2>2. CASE Fail
    BY <1>1, <2>1, <2>2, FailStep DEF Clean, Starting
  <2>3. CASE ~Fail
    <3>1. phase' \in {"compile", "patch"} /\ mappings' = mappings
      BY <1>3, <2>1, <2>3
         DEF Compile, EnterMain, EmitOp, EnterLambda, LeaveLambda, LeaveMain, Compiling
    <3>. QED BY <1>1, <2>1, <3>1
             DEF Clean, Untouched, Mapped, NotStarted, Starting, Vacant, Released, machine
  <2>. QED BY <2>2, <2>3
<1>. QED BY <1>2, <1>3

LEMMA PatchStep ==
  ASSUME Clean, PatchJump \/ CallThunk
  PROVE  Clean'
<1>1. CASE PatchJump
  BY <1>1 DEF PatchJump, PatchNext, Clean, Untouched, Mapped, NotStarted, Vacant, Released, machine
<1>2. CASE CallThunk /\ Fail /\ UNCHANGED machine
  BY <1>2, FailStep DEF CallThunk, Clean, Starting
<1>3. CASE CallThunk /\ ~(Fail /\ UNCHANGED machine)
  BY <1>3 DEF CallThunk, Clean, Mapped, NotStarted, Starting, Untouched, Vacant, Released, jit
<1>. QED BY <1>1, <1>2, <1>3

\* Once the code runs, the call can only end by returning or be undefined.
LEMMA RunStep ==
  ASSUME Clean,
         PushReg \/ PopReg \/ SetReg \/ CallMain \/ WriteMem \/ TestMem
           \/ CondJump \/ GetChar \/ PutChar \/ Undefined \/ Ret
  PROVE  Clean'
<1>1. phase = "run"
  BY DEF Here, PushReg, PopReg, SetReg, CallMain, WriteMem, TestMem, CondJump, GetChar, PutChar, Undefined, Ret
<1>2. CASE Ret
  <2>1. mappings = 1
    BY <1>1 DEF Clean, Mapped
  <2>. QED BY <1>1, <1>2, <2>1
           DEF Ret, Destroyed, Clean, Untouched, Mapped, NotStarted, Starting, Vacant, Released, jit
<1>3. CASE PushReg \/ PopReg \/ SetReg \/ CallMain \/ WriteMem \/ TestMem
           \/ CondJump \/ GetChar \/ PutChar \/ Undefined
  <2>1. phase' \in {"run", "undefined"} /\ mappings' = mappings
    BY <1>1, <1>3 DEF jit, PushReg, PopReg, SetReg, CallMain, WriteMem, TestMem, CondJump, GetChar, PutChar, Undefined
  <2>. QED BY <1>1, <2>1 DEF Clean, Untouched, Mapped, NotStarted, Starting, Vacant, Released
<1>. QED BY <1>2, <1>3

\* The inductive invariant of both failures and the mapping.
LEMMA CleanHolds == Spec => []Clean
<1>1. Init => Clean
  BY DEF Init, CompilerInit, Clean, Untouched, Mapped, Vacant, Released
<1>2. Clean /\ [Next]_vars => Clean'
  <2>. SUFFICES ASSUME Clean, [Next]_vars
                PROVE  Clean'
    OBVIOUS
  <2>1. CASE UNCHANGED vars
    BY <2>1 DEF vars, jit, machine, Clean, Untouched, Mapped, NotStarted, Vacant, Released
  <2>. QED BY <2>1, CompileStep, PatchStep, RunStep DEF Next, Run
<1>. QED BY <1>1, <1>2, PTL DEF Spec

(***************************************************************************)
(* Whatever the program and whichever call fails, jit_exec_x86_64          *)
(* fails before the program has done anything, and has unmapped the        *)
(* buffer, once, and released both arrays however it returns.              *)
(***************************************************************************)
THEOREM CleanFailure == Spec => []FailsCleanly
<1>1. Clean => FailsCleanly
  BY DEF Clean, Untouched, NotStarted, FailsCleanly
<1>. QED BY <1>1, CleanHolds, PTL

-----------------------------------------------------------------------------
(* What is emitted.                                                        *)

Registers == {"rbp", "rbx", "r12"}

InsNames ==
  Names \cup {"literal", "pre_call", "call_lambda", "post_ret", "push_lambda", "garbage"}

Operand == Int \cup {""} \cup Registers

\* Instructions that do what they are emitted for: their operand is of the
\* kind that the processor takes it for, and a jump is still to be patched.
Legal ==
  {x \in Emission(InsNames, Operand) :
     /\ x.name \in {"push", "pop"} => x.arg \in Registers
     /\ x.name \in {"add_mem", "add_rbx", "mov_r12_rip"} => x.arg \in Int
     /\ x.name \in {"je", "jne"} => x.arg = 0}

LEMMA LegalTemplate ==
  ASSUME NEW t \in Seq(Legal)
  PROVE  /\ t \in Seq(Emission(InsNames, Operand)) /\ Len(t) \in Nat
         /\ \A k \in 1 .. Len(t) : t[k] \in Legal
<1>1. Legal \subseteq Emission(InsNames, Operand)
  BY DEF Legal
<1>. HIDE DEF Legal
<1>2. Len(t) \in Nat /\ DOMAIN t = 1 .. Len(t) /\ \A k \in 1 .. Len(t) : t[k] \in Legal
  OBVIOUS
<1>3. t \in [1 .. Len(t) -> Emission(InsNames, Operand)]
  BY <1>1, <1>2
<1>. QED BY <1>2, <1>3

\* An instruction whose operand is of no kind that matters.
LEMMA PlainIns ==
  ASSUME NEW name \in InsNames, NEW arg \in Operand, NEW len \in Nat \ {0},
         name \notin {"push", "pop", "add_mem", "add_rbx", "mov_r12_rip", "je", "jne"}
  PROVE  Ins(name, arg, len) \in Legal
BY DEF Ins, Legal, Emission

LEMMA NumberIns ==
  ASSUME NEW name \in {"add_mem", "add_rbx", "mov_r12_rip"}, NEW arg \in Int,
         NEW len \in Nat \ {0}
  PROVE  Ins(name, arg, len) \in Legal
<1>1. name \in InsNames /\ arg \in Operand
  BY DEF Operand, InsNames, Names
<1>2. name \notin {"push", "pop", "je", "jne"}
  OBVIOUS
<1>. QED BY <1>1, <1>2 DEF Ins, Legal, Emission

LEMMA RegisterIns ==
  ASSUME NEW name \in {"push", "pop"}, NEW arg \in Registers, NEW len \in Nat \ {0}
  PROVE  Ins(name, arg, len) \in Legal
<1>1. name \in InsNames /\ arg \in Operand
  BY DEF Operand, InsNames, Names
<1>2. name \notin {"add_mem", "add_rbx", "mov_r12_rip", "je", "jne"}
  OBVIOUS
<1>. QED BY <1>1, <1>2 DEF Ins, Legal, Emission

LEMMA JumpIns ==
  ASSUME NEW name \in {"je", "jne"}, NEW len \in Nat \ {0}
  PROVE  Ins(name, 0, len) \in Legal
<1>1. name \in InsNames /\ 0 \in Operand
  BY DEF Operand, InsNames, Names
<1>2. name \notin {"push", "pop", "add_mem", "add_rbx", "mov_r12_rip"}
  OBVIOUS
<1>. QED BY <1>1, <1>2 DEF Ins, Legal, Emission

\* Every template of the backend is made of legal instructions.
LEMMA FixedTemplates ==
  /\ Prologue \in Seq(Legal) /\ Epilogue \in Seq(Legal)
  /\ Thunk \in Seq(Legal) /\ CallLambda \in Seq(Legal)
<1>1. "" \in Operand
  BY DEF Operand
<1>2. 8 \in Operand /\ 8 \in Int
  BY DEF Operand
<1>3. "rbp" \in Registers /\ "rbx" \in Registers /\ "r12" \in Registers
  BY DEF Registers
<1>4. "" \in Operand /\ 8 \in Operand
  BY <1>1, <1>2
<1>5. \A name \in {"mov_rbp_rsp", "ret", "mov_rbx_tape", "call_main", "literal",
                   "pre_call", "call_lambda", "post_ret"} :
         \A len \in {1, 3, 5, 8, 10, 12, 18, 26} : Ins(name, "", len) \in Legal
  <2>1. {1, 3, 5, 8, 10, 12, 18, 26} \subseteq Nat \ {0}
    OBVIOUS
  <2>. QED BY <1>1, <2>1, PlainIns DEF InsNames, Names
<1>6. /\ Ins("mov_rbp_rsp", "", 3) \in Legal /\ Ins("ret", "", 1) \in Legal
      /\ Ins("mov_rbx_tape", "", 10) \in Legal /\ Ins("call_main", "", 12) \in Legal
      /\ Ins("literal", "", 8) \in Legal /\ Ins("pre_call", "", 18) \in Legal
      /\ Ins("call_lambda", "", 5) \in Legal /\ Ins("post_ret", "", 26) \in Legal
  BY <1>5, Zenon
<1>7. /\ Ins("push", "rbp", 1) \in Legal /\ Ins("push", "rbx", 1) \in Legal
      /\ Ins("push", "r12", 2) \in Legal /\ Ins("pop", "r12", 2) \in Legal
      /\ Ins("pop", "rbx", 1) \in Legal /\ Ins("pop", "rbp", 1) \in Legal
  BY <1>3, RegisterIns
<1>8. Ins("mov_r12_rip", 8, 7) \in Legal
  BY <1>2, NumberIns
<1>9. Prologue \in Seq(Legal)
  BY <1>6, <1>7, Tuples DEF Prologue
<1>10. Epilogue \in Seq(Legal)
  BY <1>6, <1>7, Tuples DEF Epilogue
<1>11. Thunk \in Seq(Legal)
  BY <1>6, Tuples DEF Thunk
<1>12. CallLambda \in Seq(Legal)
  BY <1>6, <1>8, Tuples DEF CallLambda
<1>. QED BY <1>9, <1>10, <1>11, <1>12

LEMMA DefineTemplate ==
  ASSUME NEW entry \in Nat
  PROVE  /\ Define(entry) \in Seq(Legal) /\ Len(Define(entry)) = 1
         /\ Define(entry)[1].name = "push_lambda" /\ Define(entry)[1].arg = entry
<1>1. Ins("push_lambda", entry, 25) \in Legal
  <2>1. entry \in Operand
    BY DEF Operand
  <2>. QED BY <2>1, PlainIns DEF InsNames, Names
<1>2. Define(entry) = << Ins("push_lambda", entry, 25) >>
  BY DEF Define
<1>3. Ins("push_lambda", entry, 25).name = "push_lambda" /\ Ins("push_lambda", entry, 25).arg = entry
  BY DEF Ins
<1>. QED BY <1>1, <1>2, <1>3

LEMMA OpTemplate ==
  ASSUME NEW o \in Opcode, o.op # "op_def_lambda"
  PROVE  Template(o) \in Seq(Legal)
<1>1. o.op \in OpType /\ o.num \in Nat
  BY DEF Opcode
<1>2. Imm8(o.num) \in Int /\ -Imm8(o.num) \in Int /\ Imm32(o.num) \in Int /\ -Imm32(o.num) \in Int
  <2>1. CellMod \in Nat /\ CellMod > 0 /\ PtrMod \in Nat /\ PtrMod > 0
    BY MachineAssumption
  <2>2. o.num % CellMod \in Int /\ o.num % PtrMod \in Int
    BY <1>1, <2>1
  <2>. QED BY <2>1, <2>2 DEF Imm8, Imm32
<1>3. 0 \in Operand
  BY DEF Operand
<1>4. CASE o.op \in {"op_add", "op_sub"}
  <2>1. Ins("add_mem", Imm8(o.num), 3) \in Legal /\ Ins("add_mem", -Imm8(o.num), 3) \in Legal
    BY <1>2, NumberIns
  <2>. QED BY <1>4, <2>1 DEF Template
<1>5. CASE o.op \in {"op_addp", "op_subp"}
  <2>1. Ins("add_rbx", Imm32(o.num), 7) \in Legal /\ Ins("add_rbx", -Imm32(o.num), 7) \in Legal
    BY <1>2, NumberIns
  <2>. QED BY <1>5, <2>1 DEF Template
<1>6. CASE o.op \in {"op_jt", "op_jf"}
  <2>1. /\ Ins("test_mem", 0, 4) \in Legal
        /\ Ins("jne", 0, 6) \in Legal /\ Ins("je", 0, 6) \in Legal
    BY <1>3, PlainIns, JumpIns DEF InsNames, Names
  <2>. QED BY <1>6, <2>1 DEF Template
<1>7. CASE o.op \in {"op_in", "op_out", "op_clear"}
  <2>1. /\ Ins("getchar", 0, 14) \in Legal /\ Ins("putchar", 0, 15) \in Legal
        /\ Ins("clear_mem", 0, 3) \in Legal
    BY <1>3, PlainIns DEF InsNames, Names
  <2>. QED BY <1>7, <2>1 DEF Template
<1>8. CASE o.op \in {"op_ret", "op_call"}
  BY <1>8, FixedTemplates DEF Template
<1>. QED BY <1>1, <1>4, <1>5, <1>6, <1>7, <1>8 DEF OpType

\* The code of a loop bracket is a test of 4 bytes and a jump of 6.
JumpName == [o \in {"op_jf", "op_jt"} |-> IF o = "op_jf" THEN "je" ELSE "jne"]

LEMMA JumpTemplate ==
  ASSUME NEW o \in Opcode, IsJump(o), NEW t, t = Template(o)
  PROVE  /\ Len(t) = 2 /\ Length(Front(t)) = 4 /\ Ends(t)[1] = 4
         /\ t[2].name = JumpName[o.op] /\ t[2].len = 6
<1>. DEFINE x == Ins("test_mem", 0, 4)
            y == Ins(JumpName[o.op], 0, 6)
<1>1. o.op \in {"op_jf", "op_jt"}
  BY DEF IsJump
<1>2. t = << x, y >>
  BY <1>1 DEF Template, JumpName
<1>3. x.len = 4 /\ y.len = 6 /\ y.name = JumpName[o.op]
  BY DEF Ins
<1>. HIDE DEF x, y
<1>4. Front(t) = << x >>
  <2>1. t \in Seq({x, y}) /\ Len(t) = 2 /\ t[1] = x
    BY <1>2
  <2>2. Front(t) \in Seq({x, y}) /\ Len(Front(t)) = 1 /\ Front(t)[1] = x
    BY <2>1 DEF Front
  <2>. QED BY <2>2, OneElement
<1>5. Length(<< x >>) = 4 /\ Ends(<< x, y >>)[1] = 4
  BY <1>3, ShortTemplates
<1>. QED BY <1>2, <1>3, <1>4, <1>5

-----------------------------------------------------------------------------
(* The compiler.  The invariant says of every opcode compiled so far what  *)
(* patch_jumps() relies on: where the jump of a bracket was emitted, that  *)
(* a patch asks for its target, and that nothing else is at that address.  *)

Phases == Starting \cup {"run", "returned", "failed", "undefined"}

\* An instruction in the buffer, patched or not.
Usable(ins) ==
  /\ ins.name \in {"push", "pop"} => ins.arg \in Registers
  /\ ins.name \in {"add_mem", "add_rbx", "mov_r12_rip"} => ins.arg \in Int
  /\ ins.name \in {"je", "jne"} => ins.arg \in Int /\ ins.at + ins.len + ins.arg \in Nat

BufferOK ==
  /\ size \in 0 .. JitCapacity
  /\ buffer \in Seq(Emitted(InsNames, Operand))
  /\ InOrder(buffer, size)
  /\ \A j \in DOMAIN buffer : Usable(buffer[j])

\* How many opcodes are compiled, as far as the jumps among them go.
Compiled == IF phase = "compile" THEN fns[Len(fns)].pc ELSE Len(code)

CompilerTypes ==
  /\ code \in Seq(Opcode) /\ WellFormed(code)
  /\ phase \in Phases
  /\ next \in Nat /\ start \in Nat
  /\ fns \in Seq(Calls)
  /\ addrs \in Seq(Nat)
  /\ patches \in ArrayOf(PatchRecord)
  /\ BufferOK

CompilerInv ==
  /\ CompilerTypes
  /\ phase \in {"create", "calloc", "enter"} =>
       buffer = << >> /\ size = 0 /\ patches = Freed /\ next = 0 /\ fns = << >>
  /\ phase = "enter" => Len(addrs) = Len(code) + 1
  /\ phase = "compile" => fns # << >> /\ Nested(code, fns) /\ next = 0
  /\ phase \in {"compile", "patch", "run"} =>
       /\ Len(addrs) = Len(code) + 1
       /\ Coded(code, Compiled, buffer, addrs, patches.data, JumpName, 6)
  /\ phase = "patch" =>
       next <= Len(patches.data) /\ Applied(buffer, addrs, patches.data, next, 6)
  /\ phase = "run" => Applied(buffer, addrs, patches.data, Len(patches.data), 6)

\* An instruction that is emitted can be used as it is.
LEMMA LegalIsUsable ==
  ASSUME NEW x \in Legal, NEW y, y.name = x.name, y.arg = x.arg, y.len = x.len, y.at \in Nat
  PROVE  Usable(y)
<1>1. x.len \in Nat
  BY DEF Legal, Emission
<1>2. x.name \in {"je", "jne"} => x.arg = 0
  BY DEF Legal
<1>3. x.name \in {"je", "jne"} => y.arg \in Int /\ y.at + y.len + y.arg \in Nat
  BY <1>1, <1>2
<1>. QED BY <1>3 DEF Legal, Usable

\* A push leaves what was in the buffer and adds the template.
LEMMA PushStep ==
  ASSUME BufferOK, NEW t \in Seq(Legal), Push(t)
  PROVE  /\ BufferOK' /\ size \in Nat /\ Length(t) \in Nat /\ size' = size + Length(t)
         /\ Continues(buffer', buffer, t, size)
<1>1. /\ t \in Seq(Emission(InsNames, Operand)) /\ Len(t) \in Nat
      /\ \A k \in 1 .. Len(t) : t[k] \in Legal
  BY LegalTemplate
<1>2. /\ size \in Nat /\ buffer \in Seq(Emitted(InsNames, Operand)) /\ InOrder(buffer, size)
      /\ buffer' = buffer \o PlacedAt(t, size) /\ size' = size + Length(t)
      /\ size + Length(t) <= JitCapacity
  BY JitCapacityAssumption DEF BufferOK, Push, Fits
<1>3. /\ buffer' \in Seq(Emitted(InsNames, Operand)) /\ InOrder(buffer', size + Length(t))
      /\ size + Length(t) \in Nat /\ Length(t) \in Nat
      /\ Continues(buffer', buffer, t, size)
  BY <1>1, <1>2, PushedCode
<1>4. ASSUME NEW j \in DOMAIN buffer' PROVE Usable(buffer'[j])
  <2>1. CASE j \in DOMAIN buffer
    BY <1>3, <2>1 DEF BufferOK, Continues, Keeps
  <2>2. CASE \E k \in 1 .. Len(t) : j = Len(buffer) + k
    <3>1. PICK k \in 1 .. Len(t) : j = Len(buffer) + k
      BY <2>2
    <3>2. buffer'[j].at \in Nat
      <4>1. buffer'[j] \in Emitted(InsNames, Operand)
        BY <1>3
      <4>. QED BY <4>1 DEF Emitted
    <3>3. /\ buffer'[j].name = t[k].name /\ buffer'[j].arg = t[k].arg
          /\ buffer'[j].len = t[k].len
      BY <1>3, <3>1 DEF Continues
    <3>. QED BY <1>1, <3>2, <3>3, LegalIsUsable
  <2>. QED BY <1>3, <2>1, <2>2 DEF Continues
<1>5. size' \in 0 .. JitCapacity
  BY <1>2, <1>3, JitCapacityAssumption
<1>6. BufferOK'
  <2>1. buffer' \in Seq(Emitted(InsNames, Operand)) /\ InOrder(buffer', size')
    BY <1>2, <1>3
  <2>. QED BY <1>4, <1>5, <2>1 DEF BufferOK
<1>. QED BY <1>2, <1>3, <1>6

LEMMA EmptyBuffer == ASSUME buffer = << >>, size = 0 PROVE BufferOK
<1>1. << >> \in Seq(Emitted(InsNames, Operand)) /\ DOMAIN << >> = {}
  OBVIOUS
<1>2. InOrder(<< >>, 0)
  BY <1>1 DEF InOrder
<1>3. 0 \in 0 .. JitCapacity
  BY JitCapacityAssumption
<1>. QED BY <1>1, <1>2, <1>3 DEF BufferOK

\* A failure leaves nothing behind.
LEMMA FailKeeps ==
  ASSUME CompilerInv, Fail
  PROVE  CompilerInv'
<1>1. buffer' = << >> /\ size' = 0 /\ addrs' = << >> /\ patches' = Freed /\ phase' = "failed"
      /\ fns' = << >> /\ UNCHANGED <<code, next, start>>
  BY DEF Fail, Destroyed
<1>2. (buffer = << >> /\ size = 0 => BufferOK)'
  BY EmptyBuffer, PTL
<1>3. patches' \in ArrayOf(PatchRecord) /\ addrs' \in Seq(Nat) /\ fns' \in Seq(Calls)
  BY <1>1, FreedType
<1>4. CompilerTypes'
  BY <1>1, <1>2, <1>3 DEF CompilerInv, CompilerTypes, Phases, Starting
<1>. QED BY <1>1, <1>4 DEF CompilerInv

\* JitBuffer_create.
LEMMA CreateKeeps ==
  ASSUME CompilerInv, MapBuffer \/ AllocAddresses
  PROVE  CompilerInv'
<1>1. /\ phase \in {"create", "calloc"} /\ phase' \in {"calloc", "enter", "failed"}
      /\ UNCHANGED <<code, fns, next, buffer, size, patches, start>>
  BY DEF MapBuffer, AllocAddresses
<1>2. CompilerTypes /\ buffer = << >> /\ size = 0 /\ patches = Freed /\ next = 0 /\ fns = << >>
  BY <1>1 DEF CompilerInv
<1>3. CASE addrs' = addrs /\ phase' # "enter"
  <2>1. CompilerTypes'
    BY <1>1, <1>2, <1>3 DEF CompilerTypes, BufferOK, Phases, Starting
  <2>. QED BY <1>1, <1>2, <1>3, <2>1 DEF CompilerInv
<1>4. CASE addrs' = [k \in 1 .. (Len(code) + 1) |-> 0] /\ phase' = "enter"
  <2>1. Len(code) \in Nat
    BY <1>2 DEF CompilerTypes
  <2>2. addrs' \in Seq(Nat) /\ Len(addrs') = Len(code) + 1 /\ \A k \in DOMAIN addrs' : addrs'[k] = 0
    BY <1>4, <2>1
  <2>3. CompilerTypes'
    BY <1>1, <1>2, <1>4, <2>2 DEF CompilerTypes, BufferOK, Phases, Starting
  <2>. QED BY <1>1, <1>2, <1>4, <2>2, <2>3 DEF CompilerInv
<1>. QED BY <1>3, <1>4 DEF MapBuffer, AllocAddresses

\* The start of the main function.
LEMMA EnterMainKeeps ==
  ASSUME CompilerInv, EnterMain(Prologue)
  PROVE  CompilerInv'
<1>1. CASE Fail
  BY <1>1, FailKeeps
<1>2. CASE ~Fail
  <2>1. /\ phase = "enter" /\ Push(Prologue)
        /\ addrs' = addrs
        /\ fns' = << [pc |-> 0, end |-> Len(code), entry |-> 0] >>
        /\ phase' = "compile"
        /\ UNCHANGED <<code, next, patches, start>>
    BY <1>2 DEF EnterMain
  <2>2. CompilerTypes /\ next = 0 /\ patches = Freed
    BY <2>1 DEF CompilerInv
  <2>3. BufferOK'
    BY <2>1, <2>2, FixedTemplates, PushStep DEF CompilerTypes
  <2>4. Len(code) \in Nat
    BY <2>2 DEF CompilerTypes
  <2>5. addrs' \in Seq(Nat) /\ Len(addrs') = Len(code) + 1
    BY <2>1, <2>2 DEF CompilerInv, CompilerTypes
  <2>. DEFINE f == [pc |-> 0, end |-> Len(code), entry |-> 0]
  <2>6. f \in Calls /\ f.pc = 0 /\ f.end = Len(code)
    BY <2>4 DEF Calls
  <2>7. fns' = << f >>
    BY <2>1
  <2>. HIDE DEF f
  <2>8. fns' \in Seq(Calls) /\ Len(fns') = 1 /\ DOMAIN fns' = {1} /\ fns'[1] = f
    BY <2>6, <2>7
  <2>9. Nested(code, fns')
    BY <2>4, <2>6, <2>8 DEF Nested
  <2>10. Coded(code, 0, buffer', addrs', Freed.data, JumpName, 6)
    <3>1. Freed.data = << >> /\ DOMAIN << >> = {}
      BY FreedType
    <3>2. Jumps(code, 0) = {}
      BY DEF Jumps
    <3>. QED BY <3>1, <3>2 DEF Coded
  <2>11. CompilerTypes'
    BY <2>1, <2>2, <2>3, <2>5, <2>8 DEF CompilerTypes, Phases, Starting
  <2>12. Compiled' = 0
    BY <2>1, <2>6, <2>8 DEF Compiled
  <2>. QED BY <2>1, <2>2, <2>5, <2>8, <2>9, <2>10, <2>11, <2>12 DEF CompilerInv
<1>. QED BY <1>1, <1>2

\* What holds while jit_compile_function is at an opcode.
LEMMA AtOpcode ==
  ASSUME CompilerInv, Compiling
  PROVE  /\ phase = "compile" /\ CompilerTypes
         /\ fns \in Seq(Calls) /\ fns # << >> /\ Len(fns) \in DOMAIN fns /\ Nested(code, fns)
         /\ fn = fns[Len(fns)] /\ fn.pc < fn.end /\ fn.pc \in Nat /\ fn.pc + 1 \in DOMAIN code
         /\ opc = code[fn.pc + 1] /\ opc \in Opcode
         /\ Compiled = fn.pc /\ fn.pc + 1 \in 1 .. Len(addrs)
         /\ Len(addrs) = Len(code) + 1
         /\ Coded(code, fn.pc, buffer, addrs, patches.data, JumpName, 6)
         /\ next = 0
<1>1. phase = "compile" /\ CompilerTypes /\ fn.pc < fn.end
  BY DEF Compiling, CompilerInv
<1>2. /\ fns \in Seq(Calls) /\ fns # << >> /\ Nested(code, fns) /\ next = 0
      /\ Len(addrs) = Len(code) + 1
      /\ Coded(code, Compiled, buffer, addrs, patches.data, JumpName, 6)
      /\ code \in Seq(Opcode) /\ addrs \in Seq(Nat)
  BY <1>1 DEF CompilerInv, CompilerTypes
<1>3. Len(fns) \in DOMAIN fns /\ Len(code) \in Nat /\ DOMAIN code = 1 .. Len(code)
  BY <1>2
<1>4. fn = fns[Len(fns)] /\ opc = code[fn.pc + 1]
  BY DEF fn, opc, Last
<1>5. fn.pc \in Nat /\ fn.end \in Nat /\ fn.end <= Len(code)
  <2>1. fns[Len(fns)] \in Calls
    BY <1>2, <1>3
  <2>. QED BY <1>2, <1>3, <1>4, <2>1 DEF Calls, Nested
<1>6. fn.pc + 1 \in DOMAIN code /\ fn.pc + 1 \in 1 .. Len(addrs)
  BY <1>1, <1>2, <1>3, <1>5
<1>7. Compiled = fn.pc
  BY <1>1, <1>4 DEF Compiled
<1>. QED BY <1>1, <1>2, <1>3, <1>4, <1>5, <1>6, <1>7
\* Recording an address changes no other.
LEMMA RecordedAt ==
  ASSUME addrs \in Seq(Nat), size \in Nat, NEW k \in Nat, k + 1 \in 1 .. Len(addrs), Record(k)
  PROVE  /\ addrs' \in Seq(Nat) /\ Len(addrs') = Len(addrs) /\ addrs'[k + 1] = size
         /\ \A i \in 1 .. Len(addrs) : i # k + 1 => addrs'[i] = addrs[i]
         /\ Agree(addrs, addrs', k)
<1>1. addrs' = [addrs EXCEPT ![k + 1] = size]
  BY DEF Record
<1>2. /\ addrs' \in Seq(Nat) /\ Len(addrs') = Len(addrs)
      /\ \A i \in 1 .. Len(addrs) : addrs'[i] = IF i = k + 1 THEN size ELSE addrs[i]
  BY <1>1, Replaced
<1>3. \A i \in 1 .. k : i \in 1 .. Len(addrs) /\ i # k + 1 /\ addrs[i] \in Nat
  OBVIOUS
<1>. QED BY <1>2, <1>3 DEF Agree

\* An opcode that is no definition is compiled.
LEMMA EmitOpKeeps ==
  ASSUME CompilerInv, EmitOp(Template(opc))
  PROVE  CompilerInv'
<1>1. CASE Fail
  BY <1>1, FailKeeps
<1>2. CASE ~Fail
  <2>. DEFINE t == Template(opc)
              n == fn.pc
  <2>1. /\ Compiling /\ opc.op # "op_def_lambda" /\ Push(t) /\ Record(n)
        /\ IF IsJump(opc) THEN AddPatch(Length(Front(t)), opc.num) ELSE patches' = patches
        /\ fns' = [fns EXCEPT ![Len(fns)].pc = @ + 1]
        /\ UNCHANGED <<code, phase, next, start>>
    BY <1>2 DEF EmitOp
  <2>2. /\ phase = "compile" /\ CompilerTypes
        /\ fns \in Seq(Calls) /\ fns # << >> /\ Len(fns) \in DOMAIN fns /\ Nested(code, fns)
        /\ fn = fns[Len(fns)] /\ n < fn.end /\ n \in Nat /\ n + 1 \in DOMAIN code
        /\ opc = code[n + 1] /\ opc \in Opcode
        /\ n + 1 \in 1 .. Len(addrs) /\ Len(addrs) = Len(code) + 1
        /\ Coded(code, n, buffer, addrs, patches.data, JumpName, 6)
        /\ next = 0
    BY <2>1, AtOpcode
  <2>3. t \in Seq(Legal)
    BY <2>1, <2>2, OpTemplate
  <2>. HIDE DEF t, n
  <2>4. /\ BufferOK' /\ size \in Nat /\ size' = size + Length(t)
        /\ Continues(buffer', buffer, t, size)
    BY <2>1, <2>2, <2>3, PushStep DEF CompilerTypes
  <2>5. /\ addrs' \in Seq(Nat) /\ Len(addrs') = Len(addrs) /\ addrs'[n + 1] = size
        /\ Agree(addrs, addrs', n)
    BY <2>1, <2>2, <2>4, RecordedAt DEF CompilerTypes
  <2>6. /\ fns' \in Seq(Calls) /\ Len(fns') = Len(fns) /\ Nested(code, fns')
        /\ fns'[Len(fns)].pc = n + 1
    <3>1. fns[Len(fns)].pc < fns[Len(fns)].end /\ code \in Seq(Opcode)
      BY <2>2 DEF n, CompilerTypes
    <3>2. /\ fns \in Seq(Calls) /\ fns # << >> /\ Nested(code, fns)
          /\ Len(fns) \in DOMAIN fns /\ fns' = Advanced(fns)
      BY <2>1, <2>2 DEF Advanced
    <3>3. /\ fns' \in Seq(Calls) /\ Len(fns') = Len(fns) /\ Nested(code, fns')
          /\ fns'[Len(fns)].pc = fns[Len(fns)].pc + 1
      BY ONLY <3>1, <3>2, CallAdvances
    <3>. QED BY <2>2, <3>3 DEF n
  <2>7. /\ patches' \in ArrayOf(PatchRecord)
        /\ Coded(code, n + 1, buffer', addrs', patches'.data, JumpName, 6)
    <3>1. CASE ~IsJump(opc)
      <4>1. Jumps(code, n + 1) = Jumps(code, n)
        BY <2>2, <3>1, NoJump DEF IsJump
      <4>2. patches' = patches
        BY <2>1, <3>1
      <4>3. Keeps(buffer, buffer')
        BY <2>4 DEF Continues
      <4>4. Coded(code, n + 1, buffer', addrs', patches.data, JumpName, 6)
        BY <2>2, <2>5, <4>1, <4>3, CodedStays
      <4>. QED BY <2>2, <4>2, <4>4 DEF CompilerTypes
    <3>2. CASE IsJump(opc)
      <4>1. /\ Len(t) = 2 /\ Length(Front(t)) = 4 /\ Ends(t)[1] = 4
            /\ t[2].name = JumpName[opc.op] /\ t[2].len = 6
        BY <2>2, <3>2, JumpTemplate DEF t
      <4>. DEFINE q == PatchOf(code, addrs', n + 1)
      <4>2. q = [instruction_offset |-> size + 4, target_opcode_index |-> opc.num]
        BY <2>2, <2>5 DEF PatchOf
      <4>3. q \in PatchRecord
        BY <2>2, <2>4, <4>2 DEF PatchRecord, Opcode
      <4>4. patches' = Pushed(patches, q)
        BY <2>1, <3>2, <4>1, <4>2 DEF AddPatch
      <4>. HIDE DEF q
      <4>5. patches \in ArrayOf(PatchRecord)
        BY <2>2 DEF CompilerTypes
      <4>6. patches' \in ArrayOf(PatchRecord) /\ patches'.data = Append(patches.data, q)
        BY <4>3, <4>4, <4>5, PushedType
      <4>7. Keeps(buffer, buffer')
        BY <2>4 DEF Continues
      <4>8. JumpIn(buffer', size + 4, JumpName[code[n + 1].op], 6)
        <5>1. 2 \in 1 .. Len(t) /\ 2 - 1 = 1
          BY <4>1
        <5>. QED BY <2>2, <2>4, <4>1, <5>1 DEF Continues, JumpIn
      <4>9. patches.data \in Seq(PatchRecord)
        BY <4>5 DEF ArrayOf
      <4>10. code[n + 1].op \in {"op_jf", "op_jt"}
        BY <2>2, <3>2 DEF IsJump
      <4>11. buffer \in Seq(Emitted(InsNames, Operand)) /\ InOrder(buffer, size)
        BY <2>2 DEF CompilerTypes, BufferOK
      <4>12. Coded(code, n + 1, buffer', addrs', Append(patches.data, q), JumpName, 6)
        <5>1. /\ Coded(code, n, buffer, addrs, patches.data, JumpName, 6)
              /\ Agree(addrs, addrs', n)
              /\ size \in Nat /\ n \in Nat /\ addrs'[n + 1] = size /\ 6 \in Nat
          BY <2>2, <2>4, <2>5
        <5>2. q = PatchOf(code, addrs', n + 1)
          BY DEF q
        <5>3. Coded(code, n + 1, buffer', addrs',
                    Append(patches.data, PatchOf(code, addrs', n + 1)), JumpName, 6)
          BY ONLY <4>3, <4>7, <4>8, <4>9, <4>10, <4>11, <5>1, <5>2, CodedJump
        <5>. QED BY ONLY <5>2, <5>3
      <4>. QED BY <4>6, <4>12
    <3>. QED BY <3>1, <3>2
  <2>8. CompilerTypes'
    BY <2>1, <2>2, <2>4, <2>5, <2>6, <2>7 DEF CompilerTypes
  <2>9. Compiled' = n + 1
    BY <2>1, <2>2, <2>6 DEF Compiled
  <2>10. fns' # << >>
    BY <2>2, <2>6
  <2>. QED BY <2>1, <2>2, <2>5, <2>6, <2>7, <2>8, <2>9, <2>10 DEF CompilerInv
<1>. QED BY <1>1, <1>2
LEMMA AlignedTemplate ==
  ASSUME size \in Nat
  PROVE  Aligned(Prologue) \in Seq(Legal) /\ Padding \in 0 .. 15 /\ Entry \in Nat /\ Entry % 16 = 0
<1>1. PICK r \in 0 .. 15 : r = size % 16
  OBVIOUS
<1>2. Padding = IF r = 0 THEN 0 ELSE 16 - r
  <2>1. CASE r = 0
    BY <1>1, <2>1 DEF Padding
  <2>2. CASE r # 0
    <3>1. 16 - r \in 1 .. 15
      BY <2>2
    <3>2. (16 - r) % 16 = 16 - r
      BY <3>1
    <3>. QED BY <1>1, <2>2, <3>2 DEF Padding
  <2>. QED BY <2>1, <2>2
<1>3. Padding \in 0 .. 15
  BY <1>2
<1>4. (size + Padding) % 16 = 0
  BY <1>1, <1>2
<1>5. CASE Padding = 0
  BY <1>3, <1>4, <1>5, FixedTemplates DEF Aligned, Entry
<1>6. CASE Padding # 0
  <2>1. "" \in Operand /\ "nop" \in InsNames /\ Padding \in Nat \ {0}
    BY <1>3, <1>6 DEF Operand, InsNames, Names
  <2>. DEFINE x == Ins("nop", "", Padding)
  <2>2. x \in Legal
    BY <2>1, PlainIns
  <2>. HIDE DEF x
  <2>3. << x >> \in Seq(Legal)
    BY <2>2
  <2>4. << x >> \o Prologue \in Seq(Legal)
    BY ONLY <2>3, FixedTemplates, Concatenated
  <2>5. Aligned(Prologue) = << x >> \o Prologue
    BY <1>6 DEF Aligned, x
  <2>. QED BY <1>3, <1>4, <2>4, <2>5 DEF Entry
<1>. QED BY <1>5, <1>6

\* What holds of a step that compiles no jump.
LEMMA NoJumpKeeps ==
  ASSUME CompilerTypes, NEW n \in Nat, NEW m \in Nat, NEW t \in Seq(Legal),
         Len(addrs) = Len(code) + 1, n + 1 \in 1 .. Len(addrs),
         Coded(code, n, buffer, addrs, patches.data, JumpName, 6),
         Jumps(code, m) = Jumps(code, n),
         Push(t), Record(n), UNCHANGED <<code, patches>>
  PROVE  /\ BufferOK' /\ addrs' \in Seq(Nat) /\ Len(addrs') = Len(code) + 1
         /\ Coded(code, m, buffer', addrs', patches'.data, JumpName, 6)
<1>1. /\ BufferOK' /\ size \in Nat /\ Continues(buffer', buffer, t, size)
  BY PushStep DEF CompilerTypes
<1>2. addrs' \in Seq(Nat) /\ Len(addrs') = Len(addrs) /\ Agree(addrs, addrs', n)
  BY <1>1, RecordedAt DEF CompilerTypes
<1>3. Keeps(buffer, buffer')
  BY <1>1 DEF Continues
<1>4. Coded(code, m, buffer', addrs', patches.data, JumpName, 6)
  BY <1>2, <1>3, CodedStays
<1>. QED BY <1>1, <1>2, <1>4

\* jit_compile_function calls itself for a body.
LEMMA EnterLambdaKeeps ==
  ASSUME CompilerInv, EnterLambda(Prologue)
  PROVE  CompilerInv'
<1>1. CASE Fail
  BY <1>1, FailKeeps
<1>2. CASE ~Fail
  <2>. DEFINE t == Aligned(Prologue)
              n == fn.pc
  <2>1. /\ Compiling /\ opc.op = "op_def_lambda" /\ Push(t) /\ Record(n)
        /\ fns' = Append(fns, [pc |-> n + 1, end |-> opc.num, entry |-> Entry])
        /\ UNCHANGED <<code, phase, next, patches, start>>
    BY <1>2 DEF EnterLambda
  <2>2. /\ phase = "compile" /\ CompilerTypes
        /\ fns \in Seq(Calls) /\ fns # << >> /\ Len(fns) \in DOMAIN fns /\ Nested(code, fns)
        /\ fn = fns[Len(fns)] /\ n < fn.end /\ n \in Nat /\ n + 1 \in DOMAIN code
        /\ opc = code[n + 1] /\ opc \in Opcode
        /\ n + 1 \in 1 .. Len(addrs) /\ Len(addrs) = Len(code) + 1
        /\ Coded(code, n, buffer, addrs, patches.data, JumpName, 6)
        /\ next = 0
    BY <2>1, AtOpcode
  <2>3. t \in Seq(Legal) /\ Entry \in Nat
    <3>1. size \in Nat
      BY <2>2, JitCapacityAssumption DEF CompilerTypes, BufferOK
    <3>. QED BY <3>1, AlignedTemplate
  <2>4. fns' = Entered(fns, code[fns[Len(fns)].pc + 1].num, Entry)
    BY <2>1, <2>2 DEF Entered
  <2>5. /\ fns[Len(fns)].pc < fns[Len(fns)].end
        /\ code[fns[Len(fns)].pc + 1].op = "op_def_lambda"
        /\ code \in Seq(Opcode) /\ WellFormed(code)
    BY <2>1, <2>2 DEF CompilerTypes
  <2>6. /\ fns' \in Seq(Calls) /\ Len(fns') = Len(fns) + 1 /\ Nested(code, fns')
        /\ fns'[Len(fns')].pc = n + 1
    <3>1. /\ fns' \in Seq(Calls) /\ Len(fns') = Len(fns) + 1 /\ Nested(code, fns')
          /\ fns'[Len(fns')].pc = fns[Len(fns)].pc + 1
      <4>1. fns \in Seq(Calls) /\ fns # << >> /\ Nested(code, fns) /\ Entry \in Nat
        BY <2>2, <2>3
      <4>. QED BY ONLY <2>4, <2>5, <4>1, CallEnters
    <3>. QED BY <2>2, <3>1
  <2>. HIDE DEF t, n
  <2>7. Jumps(code, n + 1) = Jumps(code, n)
    BY <2>1, <2>2, NoJump
  <2>8. /\ BufferOK' /\ addrs' \in Seq(Nat) /\ Len(addrs') = Len(code) + 1
        /\ Coded(code, n + 1, buffer', addrs', patches'.data, JumpName, 6)
    <3>1. n + 1 \in Nat /\ UNCHANGED <<code, patches>>
      BY <2>1, <2>2
    <3>. QED BY <2>1, <2>2, <2>3, <2>7, <3>1, NoJumpKeeps
  <2>9. CompilerTypes'
    BY <2>1, <2>2, <2>6, <2>8 DEF CompilerTypes
  <2>10. Compiled' = n + 1
    BY <2>1, <2>2, <2>6 DEF Compiled
  <2>11. fns' # << >>
    BY <2>2, <2>6
  <2>. QED BY <2>1, <2>2, <2>6, <2>8, <2>9, <2>10, <2>11 DEF CompilerInv
<1>. QED BY <1>1, <1>2

\* What holds when jit_compile_function has come to end_pc.
LEMMA AtEnd ==
  ASSUME CompilerInv, phase = "compile", fn.pc >= fn.end
  PROVE  /\ CompilerTypes
         /\ fns \in Seq(Calls) /\ fns # << >> /\ Len(fns) \in DOMAIN fns /\ Nested(code, fns)
         /\ fn = fns[Len(fns)] /\ fn.pc = fn.end /\ fn.pc \in Nat /\ fn.end <= Len(code)
         /\ fn.entry \in Nat
         /\ Compiled = fn.pc /\ fn.pc + 1 \in 1 .. Len(addrs)
         /\ Len(addrs) = Len(code) + 1
         /\ Coded(code, fn.pc, buffer, addrs, patches.data, JumpName, 6)
         /\ next = 0
<1>1. /\ CompilerTypes
      /\ fns \in Seq(Calls) /\ fns # << >> /\ Nested(code, fns) /\ next = 0
      /\ Len(addrs) = Len(code) + 1
      /\ Coded(code, Compiled, buffer, addrs, patches.data, JumpName, 6)
      /\ code \in Seq(Opcode) /\ addrs \in Seq(Nat)
  BY DEF CompilerInv, CompilerTypes
<1>2. Len(fns) \in DOMAIN fns /\ Len(code) \in Nat
  BY <1>1
<1>3. fn = fns[Len(fns)]
  BY DEF fn, Last
<1>4. fn.pc \in Nat /\ fn.end \in Nat /\ fn.entry \in Nat /\ fn.pc <= fn.end /\ fn.end <= Len(code)
  <2>1. fns[Len(fns)] \in Calls
    BY <1>1, <1>2
  <2>. QED BY <1>1, <1>2, <1>3, <2>1 DEF Calls, Nested
<1>5. fn.pc = fn.end
  BY <1>4
<1>6. fn.pc + 1 \in 1 .. Len(addrs)
  BY <1>1, <1>2, <1>4, <1>5
<1>7. Compiled = fn.pc
  BY <1>3 DEF Compiled
<1>. QED BY <1>1, <1>2, <1>3, <1>4, <1>5, <1>6, <1>7

\* The call for a body returns.
LEMMA LeaveLambdaKeeps ==
  ASSUME CompilerInv, LeaveLambda(Epilogue, Define(fn.entry))
  PROVE  CompilerInv'
<1>1. CASE Fail
  BY <1>1, FailKeeps
<1>2. CASE ~Fail
  <2>. DEFINE t == Epilogue \o Define(fn.entry)
              n == fn.pc
  <2>1. /\ phase = "compile" /\ fn.pc >= fn.end /\ Len(fns) > 1 /\ Push(t) /\ Record(n)
        /\ fns' = [Front(fns) EXCEPT ![Len(fns) - 1].pc = fn.end]
        /\ UNCHANGED <<code, phase, next, patches, start>>
    BY <1>2 DEF LeaveLambda
  <2>2. /\ CompilerTypes
        /\ fns \in Seq(Calls) /\ fns # << >> /\ Len(fns) \in DOMAIN fns /\ Nested(code, fns)
        /\ fn = fns[Len(fns)] /\ n = fn.end /\ n \in Nat /\ fn.entry \in Nat
        /\ n + 1 \in 1 .. Len(addrs) /\ Len(addrs) = Len(code) + 1
        /\ Coded(code, n, buffer, addrs, patches.data, JumpName, 6)
        /\ next = 0
    BY <2>1, AtEnd
  <2>3. t \in Seq(Legal)
    BY <2>2, FixedTemplates, DefineTemplate, Concatenated
  <2>4. fns' = Left(fns)
    BY <2>1, <2>2 DEF Left, Front
  <2>5. /\ fns' \in Seq(Calls) /\ Len(fns') = Len(fns) - 1 /\ Nested(code, fns')
        /\ fns'[Len(fns) - 1].pc = n
    <3>1. /\ fns \in Seq(Calls) /\ Len(fns) > 1 /\ Nested(code, fns) /\ code \in Seq(Opcode)
          /\ fns[Len(fns)].pc >= fns[Len(fns)].end
      BY <2>1, <2>2 DEF CompilerTypes
    <3>2. /\ fns' \in Seq(Calls) /\ Len(fns') = Len(fns) - 1 /\ Nested(code, fns')
          /\ \A i \in 1 .. (Len(fns) - 1) :
                fns'[i].pc = IF i = Len(fns) - 1 THEN fns[Len(fns)].pc ELSE fns[i].pc
      BY ONLY <2>4, <3>1, CallLeaves
    <3>3. Len(fns) - 1 \in 1 .. (Len(fns) - 1)
      BY <2>1, <2>2
    <3>. QED BY <2>2, <3>2, <3>3
  <2>. HIDE DEF t, n
  <2>6. /\ BufferOK' /\ addrs' \in Seq(Nat) /\ Len(addrs') = Len(code) + 1
        /\ Coded(code, n, buffer', addrs', patches'.data, JumpName, 6)
    <3>1. Jumps(code, n) = Jumps(code, n) /\ UNCHANGED <<code, patches>>
      BY <2>1
    <3>. QED BY <2>1, <2>2, <2>3, <3>1, NoJumpKeeps
  <2>7. CompilerTypes'
    BY <2>1, <2>2, <2>5, <2>6 DEF CompilerTypes
  <2>8. Compiled' = n
    BY <2>1, <2>2, <2>5 DEF Compiled
  <2>9. fns' # << >>
    BY <2>1, <2>2, <2>5
  <2>. QED BY <2>1, <2>2, <2>5, <2>6, <2>7, <2>8, <2>9 DEF CompilerInv
<1>. QED BY <1>1, <1>2

\* The main function is compiled, and the thunk.
LEMMA LeaveMainKeeps ==
  ASSUME CompilerInv, LeaveMain(Epilogue, Thunk)
  PROVE  CompilerInv'
<1>1. CASE Fail
  BY <1>1, FailKeeps
<1>2. CASE ~Fail
  <2>. DEFINE t == Epilogue \o Thunk
              n == fn.pc
  <2>1. /\ phase = "compile" /\ fn.pc >= fn.end /\ Len(fns) = 1 /\ Push(t) /\ Record(n)
        /\ start' = size + Length(Epilogue) /\ fns' = << >> /\ phase' = "patch"
        /\ UNCHANGED <<code, next, patches>>
    BY <1>2 DEF LeaveMain
  <2>2. /\ CompilerTypes
        /\ fns \in Seq(Calls) /\ Nested(code, fns)
        /\ fn = fns[Len(fns)] /\ n = fn.end /\ n \in Nat
        /\ n + 1 \in 1 .. Len(addrs) /\ Len(addrs) = Len(code) + 1
        /\ Coded(code, n, buffer, addrs, patches.data, JumpName, 6)
        /\ next = 0
    BY <2>1, AtEnd
  <2>3. n = Len(code)
    BY <2>1, <2>2 DEF Nested
  <2>4. t \in Seq(Legal) /\ start' \in Nat
    <3>1. Length(Epilogue) \in Nat
      <4>1. Epilogue \in Seq(Emission(InsNames, Operand))
        BY FixedTemplates, LegalTemplate
      <4>. QED BY <4>1, PlacedShape
    <3>2. size \in Nat
      BY <2>2, JitCapacityAssumption DEF CompilerTypes, BufferOK
    <3>. QED BY <2>1, <3>1, <3>2, FixedTemplates, Concatenated
  <2>. HIDE DEF t, n
  <2>5. /\ BufferOK' /\ addrs' \in Seq(Nat) /\ Len(addrs') = Len(code) + 1
        /\ Coded(code, n, buffer', addrs', patches'.data, JumpName, 6)
    <3>1. Jumps(code, n) = Jumps(code, n) /\ UNCHANGED <<code, patches>>
      BY <2>1
    <3>. QED BY <2>1, <2>2, <2>4, <3>1, NoJumpKeeps
  <2>6. fns' \in Seq(Calls)
    BY <2>1
  <2>7. CompilerTypes'
    BY <2>1, <2>2, <2>4, <2>5, <2>6 DEF CompilerTypes, Phases, Starting
  <2>8. Compiled' = n
    BY <2>1, <2>3 DEF Compiled
  <2>9. next' <= Len(patches'.data) /\ Applied(buffer', addrs', patches'.data, 0, 6)
    <3>1. Len(patches.data) \in Nat
      BY <2>2 DEF CompilerTypes, ArrayOf
    <3>. QED BY <2>1, <2>2, <3>1 DEF Applied
  <2>. QED BY <2>1, <2>2, <2>5, <2>7, <2>8, <2>9 DEF CompilerInv
<1>. QED BY <1>1, <1>2
\* What patch_jumps() finds: the patch is for a bracket of the code, and the
\* four bytes it writes are those of that bracket's jump.
LEMMA AtPatch ==
  ASSUME CompilerInv, phase = "patch", next < Len(patches.data)
  PROVE  /\ CompilerTypes /\ patch = patches.data[next + 1]
         /\ next + 1 \in DOMAIN patches.data /\ 1 .. next \subseteq DOMAIN patches.data
         /\ Len(addrs) = Len(code) + 1
         /\ Coded(code, Len(code), buffer, addrs, patches.data, JumpName, 6)
         /\ Applied(buffer, addrs, patches.data, next, 6)
         /\ Target \in Nat /\ patch.instruction_offset \in Nat
         /\ patch.target_opcode_index < Len(code) + 1
         /\ patch.instruction_offset + 6 <= size
         /\ \E j \in DOMAIN buffer :
               /\ buffer[j].at = patch.instruction_offset
               /\ buffer[j].name \in {"je", "jne"} /\ buffer[j].len = 6
<1>1. /\ CompilerTypes /\ Len(addrs) = Len(code) + 1
      /\ Coded(code, Len(code), buffer, addrs, patches.data, JumpName, 6)
      /\ Applied(buffer, addrs, patches.data, next, 6)
  BY DEF CompilerInv, Compiled
<1>2. /\ code \in Seq(Opcode) /\ WellFormed(code) /\ addrs \in Seq(Nat) /\ next \in Nat
      /\ patches.data \in Seq(PatchRecord)
      /\ buffer \in Seq(Emitted(InsNames, Operand)) /\ InOrder(buffer, size) /\ size \in Nat
  BY <1>1, JitCapacityAssumption DEF CompilerTypes, BufferOK, ArrayOf
<1>3. patch = patches.data[next + 1]
  BY DEF patch
<1>4. next + 1 \in DOMAIN patches.data /\ 1 .. next \subseteq DOMAIN patches.data
  BY <1>2
<1>5. PICK k \in Jumps(code, Len(code)) : patch = PatchOf(code, addrs, k)
  BY <1>1, <1>3, <1>4 DEF Coded
<1>6. k \in DOMAIN code /\ code[k].op \in {"op_jf", "op_jt"} /\ k \in 1 .. Len(addrs)
  BY <1>1, <1>2, <1>5 DEF Jumps
<1>7. addrs[k] \in Nat /\ Len(code) \in Nat
  BY <1>2, <1>6
<1>8. patch.instruction_offset = addrs[k] + 4 /\ patch.target_opcode_index = code[k].num
  BY <1>5 DEF PatchOf
<1>9. code[k].num \in 0 .. Len(code)
  BY <1>2, <1>6, JumpTarget
<1>10. Target \in Nat
  <2>1. code[k].num + 1 \in 1 .. Len(addrs)
    BY <1>1, <1>7, <1>9
  <2>2. addrs[code[k].num + 1] \in Nat
    BY <1>2, <2>1, SMTT(20)
  <2>3. Target = addrs[code[k].num + 1]
    BY <1>8 DEF Target
  <2>. QED BY <2>2, <2>3
<1>11. JumpIn(buffer, addrs[k] + 4, JumpName[code[k].op], 6)
  BY <1>1, <1>5 DEF Coded
<1>12. PICK j \in DOMAIN buffer : /\ buffer[j].at = addrs[k] + 4
                                  /\ buffer[j].name = JumpName[code[k].op] /\ buffer[j].len = 6
  BY <1>11 DEF JumpIn
<1>13. buffer[j].name \in {"je", "jne"}
  BY <1>6, <1>12 DEF JumpName
<1>14. addrs[k] + 4 + 6 <= size
  BY <1>2, <1>12 DEF InOrder
<1>. QED BY <1>1, <1>3, <1>4, <1>7, <1>8, <1>9, <1>10, <1>12, <1>13, <1>14, SMTT(20)

\* One iteration of JitBuffer_patch_jumps.
LEMMA PatchKeeps ==
  ASSUME CompilerInv, PatchJump
  PROVE  CompilerInv'
<1>. DEFINE off == patch.instruction_offset
            rel == RelativeOffset(Target, off)
<1>1. phase = "patch" /\ next < Len(patches.data) /\ next' = next + 1
      /\ UNCHANGED <<code, phase, fns, size, addrs, patches, start>>
  BY DEF PatchJump, PatchNext
<1>2. /\ CompilerTypes /\ patch = patches.data[next + 1]
      /\ next + 1 \in DOMAIN patches.data /\ 1 .. next \subseteq DOMAIN patches.data
      /\ Len(addrs) = Len(code) + 1
      /\ Coded(code, Len(code), buffer, addrs, patches.data, JumpName, 6)
      /\ Applied(buffer, addrs, patches.data, next, 6)
      /\ Target \in Nat /\ off \in Nat
      /\ patch.target_opcode_index < Len(code) + 1 /\ off + 6 <= size
  BY <1>1, AtPatch
<1>3. PICK j \in DOMAIN buffer :
         /\ buffer[j].at = off /\ buffer[j].name \in {"je", "jne"} /\ buffer[j].len = 6
  BY <1>1, AtPatch
<1>4. buffer' = Patched(off, rel)
  BY <1>2 DEF PatchJump, PatchNext
<1>5. /\ buffer \in Seq(Emitted(InsNames, Operand)) /\ InOrder(buffer, size) /\ size \in Nat
      /\ next \in Nat /\ patches.data \in Seq(PatchRecord)
  BY <1>2, JitCapacityAssumption DEF CompilerTypes, BufferOK, ArrayOf
<1>6. rel \in Int /\ rel = Target - (off + 6)
  BY <1>2 DEF RelativeOffset
<1>. HIDE DEF off, rel
<1>7. ASSUME NEW i \in DOMAIN buffer
      PROVE  buffer'[i] = IF buffer[i].at = off THEN [buffer[i] EXCEPT !.arg = rel] ELSE buffer[i]
  <2>1. CASE buffer[i].at = off
    <3>1. i = j
      BY <1>3, <1>5, <2>1, Disjoint
    <3>. QED BY <1>3, <1>4, <2>1, <3>1 DEF Patched
  <2>2. CASE buffer[i].at # off
    <3>1. buffer[i].at + buffer[i].len <= off \/ off + 6 <= buffer[i].at
      BY <1>3, <1>5, <2>2, Disjoint
    <3>2. buffer[i].at \in Nat /\ buffer[i].len \in Nat
      BY <1>5, Disjoint
    <3>3. ~(buffer[i].at < off + 6 /\ off + 2 < buffer[i].at + buffer[i].len)
      BY <1>2, <3>1, <3>2
    <3>. QED BY <1>4, <2>2, <3>3 DEF Patched
  <2>. QED BY <2>1, <2>2
<1>8. DOMAIN buffer' = DOMAIN buffer /\ buffer' = [i \in DOMAIN buffer |-> buffer'[i]]
  BY <1>4 DEF Patched
<1>9. ASSUME NEW i \in DOMAIN buffer
      PROVE  /\ buffer'[i] \in Emitted(InsNames, Operand) /\ Usable(buffer'[i])
             /\ buffer'[i].at = buffer[i].at /\ buffer'[i].name = buffer[i].name
             /\ buffer'[i].len = buffer[i].len
             /\ buffer'[i].arg = IF buffer[i].at = off THEN rel ELSE buffer[i].arg
  <2>1. buffer[i] \in Emitted(InsNames, Operand) /\ Usable(buffer[i])
    BY <1>2, <1>5 DEF CompilerTypes, BufferOK
  <2>2. CASE buffer[i].at # off
    BY <1>7, <2>1, <2>2
  <2>3. CASE buffer[i].at = off
    <3>1. i = j
      BY <1>3, <1>5, <2>3, Disjoint
    <3>2. buffer'[i] = [buffer[i] EXCEPT !.arg = rel] /\ rel \in Operand
      BY <1>6, <1>7, <2>3 DEF Operand
    <3>3. /\ buffer'[i] \in Emitted(InsNames, Operand)
          /\ buffer'[i].at = off /\ buffer'[i].name = buffer[i].name
          /\ buffer'[i].len = 6 /\ buffer'[i].arg = rel
      BY <1>3, <2>1, <2>3, <3>1, <3>2 DEF Emitted
    <3>4. off + 6 + rel \in Nat
      BY <1>2, <1>6
    <3>5. buffer'[i].name \in {"je", "jne"}
      BY <1>3, <3>1, <3>3
    <3>6. Usable(buffer'[i])
      BY <1>6, <3>3, <3>4, <3>5 DEF Usable
    <3>. QED BY <1>3, <2>3, <3>1, <3>3, <3>6
  <2>. QED BY <2>2, <2>3
<1>10. Repaired(buffer, buffer', off, rel)
  BY <1>8, <1>9 DEF Repaired
<1>11. /\ Coded(code, Len(code), buffer', addrs, patches.data, JumpName, 6)
       /\ InOrder(buffer', size) /\ Applied(buffer', addrs, patches.data, next + 1, 6)
  <2>1. Repaired(buffer, buffer', patches.data[next + 1].instruction_offset,
                 addrs[patches.data[next + 1].target_opcode_index + 1]
                   - (patches.data[next + 1].instruction_offset + 6))
    BY <1>2, <1>6, <1>10 DEF off, Target
  <2>2. \A k \in 1 .. Len(code) : addrs[k] \in Nat
    <3>1. addrs \in Seq(Nat) /\ Len(code) \in Nat
      BY <1>2 DEF CompilerTypes
    <3>. QED BY <1>2, <3>1
  <2>3. /\ next \in Nat /\ next + 1 \in DOMAIN patches.data
        /\ 1 .. next \subseteq DOMAIN patches.data
        /\ Coded(code, Len(code), buffer, addrs, patches.data, JumpName, 6)
        /\ InOrder(buffer, size) /\ Applied(buffer, addrs, patches.data, next, 6)
    BY <1>2, <1>5
  <2>. QED BY ONLY <2>1, <2>2, <2>3, PatchApplied, SMTT(40)
<1>12. BufferOK'
  <2>1. buffer' \in Seq(Emitted(InsNames, Operand))
    BY <1>5, <1>8, <1>9
  <2>2. \A i \in DOMAIN buffer' : Usable(buffer'[i])
    BY <1>8, <1>9
  <2>. QED BY <1>1, <1>2, <1>11, <2>1, <2>2 DEF BufferOK, CompilerTypes
<1>13. CompilerTypes'
  BY <1>1, <1>2, <1>5, <1>12 DEF CompilerTypes
<1>14. next' <= Len(patches.data)
  BY <1>1, <1>5
<1>15. Compiled' = Len(code)
  BY <1>1 DEF Compiled
<1>16. phase' = "patch" /\ Len(addrs') = Len(code') + 1
       /\ Coded(code', Compiled', buffer', addrs', patches'.data, JumpName, 6)
       /\ Applied(buffer', addrs', patches'.data, next', 6) /\ next' <= Len(patches'.data)
  BY <1>1, <1>2, <1>11, <1>14, <1>15
<1>. QED BY <1>13, <1>16 DEF CompilerInv

LEMMA CallThunkKeeps ==
  ASSUME CompilerInv, CallThunk
  PROVE  CompilerInv'
<1>1. CASE Fail
  BY <1>1, FailKeeps
<1>2. CASE ~Fail
  <2>1. /\ phase = "patch" /\ next >= Len(patches.data) /\ phase' = "run"
        /\ UNCHANGED <<code, fns, next, buffer, size, addrs, patches, start>>
    BY <1>2 DEF CallThunk, jit
  <2>2. /\ CompilerTypes /\ Len(addrs) = Len(code) + 1
        /\ Coded(code, Len(code), buffer, addrs, patches.data, JumpName, 6)
        /\ next <= Len(patches.data) /\ Applied(buffer, addrs, patches.data, next, 6)
    BY <2>1 DEF CompilerInv, Compiled
  <2>3. next = Len(patches.data)
    <3>1. next \in Nat /\ Len(patches.data) \in Nat
      BY <2>2 DEF CompilerTypes, ArrayOf
    <3>. QED BY <2>1, <2>2, <3>1
  <2>4. CompilerTypes'
    BY <2>1, <2>2 DEF CompilerTypes, BufferOK, Phases, Starting
  <2>5. Compiled' = Len(code)
    BY <2>1 DEF Compiled
  <2>. QED BY <2>1, <2>2, <2>3, <2>4, <2>5 DEF CompilerInv
<1>. QED BY <1>1, <1>2

LEMMA CompileKeeps ==
  ASSUME CompilerInv, Compile \/ PatchJump \/ CallThunk
  PROVE  CompilerInv'
BY CreateKeeps, EnterMainKeeps, EmitOpKeeps, EnterLambdaKeeps, LeaveLambdaKeeps, LeaveMainKeeps,
   PatchKeeps, CallThunkKeeps DEF Compile

LEMMA CompilerStays ==
  ASSUME CompilerInv, UNCHANGED <<code, phase, fns, next, jit>>
  PROVE  CompilerInv'
<1>1. UNCHANGED <<code, phase, fns, next, buffer, size, addrs, patches, start>>
  BY DEF jit
<1>2. CompilerTypes' <=> CompilerTypes
  BY <1>1 DEF CompilerTypes, BufferOK
<1>3. Compiled' = Compiled
  BY <1>1 DEF Compiled
<1>. QED BY <1>1, <1>2, <1>3 DEF CompilerInv

-----------------------------------------------------------------------------
(* The processor.  What it finds in a register never is a return address,  *)
(* since a pop that would load one is off track.                           *)

MachineInv ==
  /\ ip \in Nat
  /\ regs \in [Registers -> AnyValue]
  /\ \A r \in Registers : regs[r].base # "buffer"
  /\ stack \in Seq(AnyValue)
  /\ \A i \in DOMAIN stack : stack[i].base = "buffer" => stack[i].off \in Nat
  /\ zf \in BOOLEAN
  /\ mem \in [0 .. (TapeSize - 1) -> Byte]
  /\ input \in Seq(Byte) /\ output \in Seq(Byte)

\* The instruction at ip is one of the buffer.
LEMMA AtIns ==
  ASSUME CompilerInv, NEW names, Here(names)
  PROVE  /\ phase = "run" /\ Current.name \in names /\ Current.at = ip
         /\ Current.len \in Nat /\ Usable(Current)
<1>1. /\ buffer \in Seq(Emitted(InsNames, Operand)) /\ InOrder(buffer, size) /\ size \in Nat
      /\ \A j \in DOMAIN buffer : Usable(buffer[j])
  BY JitCapacityAssumption DEF CompilerInv, CompilerTypes, BufferOK
<1>2. PICK k \in DOMAIN buffer : buffer[k].at = ip /\ buffer[k].name \in names
  BY DEF Here
<1>. DEFINE m == CHOOSE i \in DOMAIN buffer : buffer[i].at = ip
<1>3. m \in DOMAIN buffer /\ buffer[m].at = ip
  BY <1>2
<1>4. Current = buffer[m]
  BY DEF Current
<1>. HIDE DEF m
<1>5. m = k
  BY <1>1, <1>2, <1>3, Disjoint
<1>6. buffer[k].len \in Nat
  BY <1>1, Disjoint
<1>. QED BY <1>1, <1>2, <1>4, <1>5, <1>6 DEF Here

\* The ways a value gets into a register or onto the stack.
LEMMA ValueType ==
  ASSUME NEW base \in {"caller", "tape", "buffer", "stack", "bytes"}, NEW off \in Int
  PROVE  /\ Value(base, off) \in AnyValue
         /\ Value(base, off).base = base /\ Value(base, off).off = off
BY DEF Value, AnyValue

\* Pushing a value that is no return address, or one that is in the buffer.
LEMMA StackGrows ==
  ASSUME MachineInv, NEW v \in AnyValue, v.base = "buffer" => v.off \in Nat,
         stack' = Append(stack, v)
  PROVE  /\ stack' \in Seq(AnyValue)
         /\ \A i \in DOMAIN stack' : stack'[i].base = "buffer" => stack'[i].off \in Nat
<1>1. stack \in Seq(AnyValue)
  BY DEF MachineInv
<1>2. /\ stack' \in Seq(AnyValue) /\ DOMAIN stack' = 1 .. (Len(stack) + 1)
      /\ \A i \in 1 .. (Len(stack) + 1) :
            stack'[i] = IF i = Len(stack) + 1 THEN v ELSE stack[i]
  BY <1>1
<1>3. \A i \in 1 .. (Len(stack) + 1) : i = Len(stack) + 1 \/ i \in DOMAIN stack
  BY <1>1
<1>. QED BY <1>2, <1>3 DEF MachineInv

LEMMA StackShrinks ==
  ASSUME MachineInv, stack # << >>, stack' = Front(stack)
  PROVE  /\ Last(stack) \in AnyValue
         /\ Last(stack).base = "buffer" => Last(stack).off \in Nat
         /\ stack' \in Seq(AnyValue)
         /\ \A i \in DOMAIN stack' : stack'[i].base = "buffer" => stack'[i].off \in Nat
<1>1. stack \in Seq(AnyValue) /\ Len(stack) \in DOMAIN stack /\ Len(stack) \in Nat \ {0}
  BY DEF MachineInv
<1>2. Last(stack) = stack[Len(stack)] /\ stack' = SubSeq(stack, 1, Len(stack) - 1)
  BY DEF Last, Front
<1>3. /\ stack' \in Seq(AnyValue) /\ DOMAIN stack' = 1 .. (Len(stack) - 1)
      /\ \A i \in 1 .. (Len(stack) - 1) : stack'[i] = stack[i] /\ i \in DOMAIN stack
  BY <1>1, <1>2
<1>. QED BY <1>1, <1>2, <1>3 DEF MachineInv

LEMMA RegisterWritten ==
  ASSUME MachineInv, NEW r \in Registers, NEW v \in AnyValue, v.base # "buffer",
         regs' = [regs EXCEPT ![r] = v]
  PROVE  regs' \in [Registers -> AnyValue] /\ \A q \in Registers : regs'[q].base # "buffer"
BY DEF MachineInv

\* An instruction that ends where the next one begins.
LEMMA GoesForward ==
  ASSUME CompilerInv, MachineInv, NEW names, Here(names), Forward
  PROVE  ip' \in Nat
BY AtIns DEF Forward, MachineInv

LEMMA PushRegKeeps ==
  ASSUME CompilerInv, MachineInv, PushReg
  PROVE  (CompilerInv /\ MachineInv)'
<1>1. Here({"push"}) /\ Forward /\ stack' = Append(stack, regs[Current.arg])
      /\ UNCHANGED <<code, phase, fns, next, jit, regs, zf, machine>>
  BY DEF PushReg
<1>2. Current.arg \in Registers
  BY <1>1, AtIns DEF Usable
<1>3. regs[Current.arg] \in AnyValue /\ regs[Current.arg].base # "buffer"
  BY <1>2 DEF MachineInv
<1>4. /\ stack' \in Seq(AnyValue)
      /\ \A i \in DOMAIN stack' : stack'[i].base = "buffer" => stack'[i].off \in Nat
  BY <1>1, <1>3, StackGrows
<1>5. ip' \in Nat
  BY <1>1, GoesForward
<1>. QED BY <1>1, <1>4, <1>5, CompilerStays DEF MachineInv, machine

LEMMA PopRegKeeps ==
  ASSUME CompilerInv, MachineInv, PopReg
  PROVE  (CompilerInv /\ MachineInv)'
<1>1. Here({"pop"}) /\ OnTrack /\ Forward
      /\ regs' = [regs EXCEPT ![Current.arg] = Last(stack)] /\ stack' = Front(stack)
      /\ UNCHANGED <<code, phase, fns, next, jit, zf, machine>>
  BY DEF PopReg
<1>2. Current.arg \in Registers
  BY <1>1, AtIns DEF Usable
<1>3. stack # << >> /\ Last(stack).base # "buffer"
  BY <1>1 DEF OnTrack
<1>4. /\ Last(stack) \in AnyValue /\ stack' \in Seq(AnyValue)
      /\ \A i \in DOMAIN stack' : stack'[i].base = "buffer" => stack'[i].off \in Nat
  BY <1>1, <1>3, StackShrinks
<1>5. regs' \in [Registers -> AnyValue] /\ \A q \in Registers : regs'[q].base # "buffer"
  BY <1>1, <1>2, <1>3, <1>4, RegisterWritten
<1>6. ip' \in Nat
  BY <1>1, GoesForward
<1>. QED BY <1>1, <1>4, <1>5, <1>6, CompilerStays DEF MachineInv, machine

LEMMA SetRegKeeps ==
  ASSUME CompilerInv, MachineInv, SetReg
  PROVE  (CompilerInv /\ MachineInv)'
<1>. DEFINE names == {"nop", "mov_rbp_rsp", "mov_rbx_tape", "add_rbx", "mov_r12_rip"}
            ins == Current
<1>1. Here(names) /\ Forward /\ UNCHANGED <<code, phase, fns, next, jit, stack, zf, machine>>
  BY DEF SetReg
<1>2. ins.name \in names /\ ins.len \in Nat /\ Usable(ins)
  BY <1>1, AtIns
<1>3. ip \in Nat /\ stack \in Seq(AnyValue) /\ Len(stack) \in Int
  BY DEF MachineInv
<1>4. "r12" \in Registers /\ "rbp" \in Registers /\ "rbx" \in Registers
  BY DEF Registers
<1>5. regs' \in [Registers -> AnyValue] /\ \A q \in Registers : regs'[q].base # "buffer"
  <2>1. CASE ins.name = "nop"
    <3>1. regs' = regs
      BY <2>1 DEF SetReg
    <3>. QED BY <3>1 DEF MachineInv
  <2>2. CASE ins.name = "mov_r12_rip"
    <3>. DEFINE v == Value("bytes", ip + ins.len + ins.arg)
    <3>1. ip + ins.len + ins.arg \in Int
      BY <1>2, <1>3, <2>2 DEF Usable
    <3>2. v \in AnyValue /\ v.base = "bytes"
      BY <3>1, ValueType
    <3>3. regs' = [regs EXCEPT !["r12"] = v]
      BY <2>2 DEF SetReg
    <3>. HIDE DEF v
    <3>. QED BY <1>4, <3>2, <3>3, RegisterWritten
  <2>3. CASE ins.name = "mov_rbp_rsp"
    <3>. DEFINE v == Value("stack", Len(stack))
    <3>1. v \in AnyValue /\ v.base = "stack"
      BY <1>3, ValueType
    <3>2. regs' = [regs EXCEPT !["rbp"] = v]
      BY <2>3 DEF SetReg
    <3>. HIDE DEF v
    <3>. QED BY <1>4, <3>1, <3>2, RegisterWritten
  <2>4. CASE ins.name = "mov_rbx_tape"
    <3>. DEFINE v == Value("tape", 0)
    <3>1. v \in AnyValue /\ v.base = "tape"
      BY ValueType
    <3>2. regs' = [regs EXCEPT !["rbx"] = v]
      BY <2>4 DEF SetReg
    <3>. HIDE DEF v
    <3>. QED BY <1>4, <3>1, <3>2, RegisterWritten
  <2>5. CASE ins.name = "add_rbx"
    <3>. DEFINE v == [regs["rbx"] EXCEPT !.off = @ + ins.arg]
    <3>1. regs["rbx"] \in AnyValue /\ regs["rbx"].base # "buffer" /\ DOMAIN regs = Registers
      BY <1>4 DEF MachineInv
    <3>2. ins.arg \in Int
      BY <1>2, <2>5 DEF Usable
    <3>3. v \in AnyValue /\ v.base # "buffer"
      BY <3>1, <3>2 DEF AnyValue
    <3>4. regs' = [regs EXCEPT !["rbx"].off = @ + ins.arg]
      BY <2>5 DEF SetReg
    <3>5. regs' = [regs EXCEPT !["rbx"] = v]
      BY <1>4, <3>1, <3>4
    <3>. HIDE DEF v
    <3>. QED BY <1>4, <3>3, <3>5, RegisterWritten
  <2>. QED BY <1>2, <2>1, <2>2, <2>3, <2>4, <2>5
<1>6. ip' \in Nat
  BY <1>1, GoesForward
<1>. QED BY <1>1, <1>5, <1>6, CompilerStays DEF MachineInv, machine

LEMMA CallMainKeeps ==
  ASSUME CompilerInv, MachineInv, CallMain
  PROVE  (CompilerInv /\ MachineInv)'
<1>. DEFINE v == Value("buffer", ip + Current.len)
<1>1. Here({"call_main"}) /\ stack' = Append(stack, v) /\ ip' = 0
      /\ UNCHANGED <<code, phase, fns, next, jit, regs, zf, machine>>
  BY DEF CallMain
<1>2. ip + Current.len \in Nat
  BY <1>1, AtIns DEF MachineInv
<1>3. v \in AnyValue /\ v.off \in Nat
  BY <1>2, ValueType
<1>. HIDE DEF v
<1>4. /\ stack' \in Seq(AnyValue)
      /\ \A i \in DOMAIN stack' : stack'[i].base = "buffer" => stack'[i].off \in Nat
  BY <1>1, <1>3, StackGrows
<1>. QED BY <1>1, <1>4, CompilerStays DEF MachineInv, machine

\* The call to func() may be over.
LEMMA RetKeeps ==
  ASSUME CompilerInv, MachineInv, Ret
  PROVE  (CompilerInv /\ MachineInv)'
<1>1. Here({"ret"}) /\ OnTrack /\ stack' = Front(stack)
      /\ UNCHANGED <<code, fns, next, regs, zf, machine>>
  BY DEF Ret
<1>2. stack # << >>
  BY <1>1 DEF OnTrack
<1>3. /\ Last(stack).base = "buffer" => Last(stack).off \in Nat
      /\ stack' \in Seq(AnyValue)
      /\ \A i \in DOMAIN stack' : stack'[i].base = "buffer" => stack'[i].off \in Nat
  BY <1>1, <1>2, StackShrinks
<1>4. CASE Last(stack).base = "buffer" /\ ip' = Last(stack).off /\ UNCHANGED <<phase, jit>>
  BY <1>1, <1>3, <1>4, CompilerStays DEF MachineInv, machine
<1>5. CASE phase' = "returned" /\ Destroyed /\ UNCHANGED <<ip, start>>
  <2>1. buffer' = << >> /\ size' = 0 /\ addrs' = << >> /\ patches' = Freed
    BY <1>5 DEF Destroyed
  <2>2. (buffer = << >> /\ size = 0 => BufferOK)'
    BY EmptyBuffer, PTL
  <2>3. patches' \in ArrayOf(PatchRecord) /\ addrs' \in Seq(Nat)
    BY <2>1, FreedType
  <2>4. CompilerTypes'
    BY <1>1, <1>5, <2>1, <2>2, <2>3 DEF CompilerInv, CompilerTypes, Phases, Starting
  <2>5. CompilerInv'
    BY <1>5, <2>4 DEF CompilerInv
  <2>. QED BY <1>1, <1>3, <1>5, <2>5 DEF MachineInv, machine
<1>. QED BY <1>4, <1>5 DEF Ret

\* One cell of the tape is written.
LEMMA CellWritten ==
  ASSUME MachineInv, AtCell, NEW b \in Byte, mem' = [mem EXCEPT ![p] = b]
  PROVE  mem' \in [0 .. (TapeSize - 1) -> Byte]
BY DEF MachineInv

LEMMA AtByte ==
  ASSUME MachineInv, AtCell
  PROVE  mem[p] \in Byte
BY DEF MachineInv, AtCell, OnTape

LEMMA WriteMemKeeps ==
  ASSUME CompilerInv, MachineInv, WriteMem
  PROVE  (CompilerInv /\ MachineInv)'
<1>1. Here({"add_mem", "clear_mem"}) /\ AtCell /\ Forward
      /\ UNCHANGED <<code, phase, fns, next, jit, regs, stack, zf, input, output>>
  BY DEF WriteMem
<1>. DEFINE b == IF Current.name = "add_mem" THEN CellPlus(mem[p], Current.arg) ELSE 0
<1>2. mem' = [mem EXCEPT ![p] = b]
  BY DEF WriteMem
<1>3. b \in Byte
  <2>1. mem[p] \in Byte /\ CellMod \in Nat /\ CellMod > 0
    BY <1>1, AtByte, MachineAssumption
  <2>2. Current.name = "add_mem" => Current.arg \in Int
    BY <1>1, AtIns DEF Usable
  <2>3. Current.name = "add_mem" => mem[p] + Current.arg \in Int
    BY <2>1, <2>2 DEF Byte
  <2>4. Current.name = "add_mem" => CellPlus(mem[p], Current.arg) \in 0 .. (CellMod - 1)
    BY <2>1, <2>3 DEF CellPlus
  <2>. QED BY <2>1, <2>4 DEF Byte
<1>. HIDE DEF b
<1>4. mem' \in [0 .. (TapeSize - 1) -> Byte]
  BY <1>1, <1>2, <1>3, CellWritten
<1>5. ip' \in Nat
  BY <1>1, GoesForward
<1>. QED BY <1>1, <1>4, <1>5, CompilerStays DEF MachineInv

LEMMA TestKeeps ==
  ASSUME CompilerInv, MachineInv, TestMem \/ CondJump
  PROVE  (CompilerInv /\ MachineInv)'
<1>1. CASE TestMem
  <2>1. Here({"test_mem"}) /\ Forward /\ zf' \in BOOLEAN
        /\ UNCHANGED <<code, phase, fns, next, jit, regs, stack, machine>>
    BY <1>1 DEF TestMem
  <2>2. ip' \in Nat
    BY <2>1, GoesForward
  <2>. QED BY <2>1, <2>2, CompilerStays DEF MachineInv, machine
<1>2. CASE CondJump
  <2>1. Here({"je", "jne"})
        /\ UNCHANGED <<code, phase, fns, next, jit, regs, stack, zf, machine>>
        /\ ip' = ip + Current.len + (IF zf = (Current.name = "je") THEN Current.arg ELSE 0)
    BY <1>2 DEF CondJump
  <2>2. /\ Current.at = ip /\ Current.len \in Nat /\ Current.arg \in Int
        /\ Current.at + Current.len + Current.arg \in Nat
    BY <2>1, AtIns DEF Usable
  <2>3. ip' \in Nat
    BY <2>1, <2>2 DEF MachineInv
  <2>. QED BY <2>1, <2>3, CompilerStays DEF MachineInv, machine
<1>. QED BY <1>1, <1>2

LEMMA CharKeeps ==
  ASSUME CompilerInv, MachineInv, GetChar \/ PutChar
  PROVE  (CompilerInv /\ MachineInv)'
<1>1. CASE GetChar
  <2>1. Here({"getchar"}) /\ AtCell /\ Forward
        /\ UNCHANGED <<code, phase, fns, next, jit, regs, stack, zf, output>>
    BY <1>1 DEF GetChar
  <2>2. input \in Seq(Byte)
    BY DEF MachineInv
  <2>3. EOF \in Byte
    BY MachineAssumption DEF EOF, Byte
  <2>4. \E b \in Byte : mem' = [mem EXCEPT ![p] = b]
    BY <1>1, <2>2, <2>3 DEF GetChar
  <2>5. input' \in Seq(Byte)
    BY <1>1, <2>2 DEF GetChar
  <2>6. mem' \in [0 .. (TapeSize - 1) -> Byte]
    BY <2>1, <2>4, CellWritten
  <2>7. ip' \in Nat
    BY <2>1, GoesForward
  <2>. QED BY <2>1, <2>5, <2>6, <2>7, CompilerStays DEF MachineInv
<1>2. CASE PutChar
  <2>1. Here({"putchar"}) /\ AtCell /\ Forward /\ output' = Append(output, mem[p])
        /\ UNCHANGED <<code, phase, fns, next, jit, regs, stack, zf, mem, input>>
    BY <1>2 DEF PutChar
  <2>2. mem[p] \in Byte /\ output \in Seq(Byte)
    BY <2>1, AtByte DEF MachineInv
  <2>3. output' \in Seq(Byte)
    BY <2>1, <2>2
  <2>4. ip' \in Nat
    BY <2>1, GoesForward
  <2>. QED BY <2>1, <2>3, <2>4, CompilerStays DEF MachineInv
<1>. QED BY <1>1, <1>2

LEMMA UndefinedKeeps ==
  ASSUME CompilerInv, MachineInv, Undefined
  PROVE  (CompilerInv /\ MachineInv)'
<1>1. phase' = "undefined" /\ UNCHANGED <<code, fns, next, jit, cpu, machine>>
  BY DEF Undefined
<1>2. UNCHANGED <<buffer, size, addrs, patches, start>>
  BY <1>1 DEF jit
<1>3. CompilerTypes'
  BY <1>1, <1>2 DEF CompilerInv, CompilerTypes, BufferOK, Phases, Starting
<1>4. CompilerInv'
  BY <1>1, <1>3 DEF CompilerInv
<1>. QED BY <1>1, <1>4 DEF MachineInv, cpu, machine

\* No step leaves the invariant.
LEMMA NextKeeps ==
  ASSUME CompilerInv, MachineInv, [Next]_vars
  PROVE  (CompilerInv /\ MachineInv)'
<1>1. CASE Compile \/ PatchJump \/ CallThunk
  <2>1. CompilerInv'
    BY <1>1, CompileKeeps
  <2>2. UNCHANGED <<regs, zf, machine>>
    BY <1>1 DEF Compile, PatchJump, CallThunk, cpu
  <2>3. CASE UNCHANGED <<ip, stack>>
    BY <2>1, <2>2, <2>3 DEF MachineInv, machine
  <2>4. CASE CallThunk /\ ip' = start /\ stack' = << Value("caller", 0) >>
    <3>1. start \in Nat
      BY DEF CompilerInv, CompilerTypes
    <3>. DEFINE v == Value("caller", 0)
    <3>2. v \in AnyValue /\ v.base = "caller"
      BY ValueType
    <3>3. stack' = << v >>
      BY <2>4
    <3>. HIDE DEF v
    <3>4. stack' \in Seq(AnyValue) /\ \A i \in DOMAIN stack' : stack'[i].base # "buffer"
      BY <3>2, <3>3
    <3>. QED BY <2>1, <2>2, <2>4, <3>1, <3>4 DEF MachineInv, machine
  <2>. QED BY <1>1, <2>3, <2>4 DEF Compile, PatchJump, CallThunk, cpu
<1>2. CASE UNCHANGED vars
  <2>1. UNCHANGED <<code, phase, fns, next, jit, cpu, machine>>
    BY <1>2 DEF vars
  <2>. QED BY <2>1, CompilerStays DEF MachineInv, cpu, machine
<1>. QED BY <1>1, <1>2, PushRegKeeps, PopRegKeeps, SetRegKeeps, CallMainKeeps, RetKeeps,
            WriteMemKeeps, TestKeeps, CharKeeps, UndefinedKeeps DEF Next, Run

LEMMA InitHolds ==
  ASSUME Init
  PROVE  CompilerInv /\ MachineInv
<1>1. code \in Seq(Opcode) /\ WellFormed(code) /\ input \in Seq(Byte)
  BY X86JitAssumption, ProgramsAreWellFormed DEF Init, CompilerInit
<1>2. /\ phase = "create" /\ fns = << >> /\ next = 0 /\ buffer = << >> /\ size = 0
      /\ addrs = << >> /\ patches = Freed /\ start = 0
  BY DEF Init, CompilerInit
<1>3. CompilerInv
  BY <1>1, <1>2, EmptyBuffer, FreedType DEF CompilerInv, CompilerTypes, Phases, Starting
<1>4. regs \in [Registers -> AnyValue] /\ \A r \in Registers : regs[r].base # "buffer"
  <2>. DEFINE v(k) == Value("caller", k)
  <2>1. \A k \in Nat : v(k) \in AnyValue /\ v(k).base = "caller"
    BY ValueType
  <2>2. regs = [rbp |-> v(1), rbx |-> v(2), r12 |-> v(3)]
    BY DEF Init, Callers
  <2>. HIDE DEF v
  <2>3. v(1) \in AnyValue /\ v(2) \in AnyValue /\ v(3) \in AnyValue
        /\ v(1).base = "caller" /\ v(2).base = "caller" /\ v(3).base = "caller"
    BY <2>1
  <2>. QED BY <2>2, <2>3 DEF Registers
<1>5. mem \in [0 .. (TapeSize - 1) -> Byte]
  <2>1. 0 \in Byte
    BY MachineAssumption DEF Byte
  <2>. QED BY <2>1 DEF Init, ZeroTape
<1>6. ip = 0 /\ stack = << >> /\ zf = FALSE /\ output = << >>
  BY DEF Init
<1>7. << >> \in Seq(AnyValue) /\ DOMAIN << >> = {} /\ << >> \in Seq(Byte)
  OBVIOUS
<1>. QED BY <1>1, <1>3, <1>4, <1>5, <1>6, <1>7 DEF MachineInv

-----------------------------------------------------------------------------
(* Lambdas.  A body is open while its call of jit_compile_function is, and *)
(* its closure is pushed by the code emitted when that call returns.  Its  *)
(* address, and that of the opcode after it, are known only once the next  *)
(* opcode is compiled.                                                     *)

\* The function of the body compiled by call i, in a buffer of n bytes.
Aligns(f, i, ad, n) ==
  /\ f[i].entry % 16 = 0
  /\ f[i].entry + Length(Prologue) =
       IF i = Len(f) /\ f[i].pc = f[i - 1].pc + 1 THEN n ELSE ad[f[i - 1].pc + 2]

Open(f, a) == \E i \in 1 .. (Len(f) - 1) : a = f[i].pc + 1

\* The definition at a pushes the address of its body's function, in code that
\* ends at offset end.
Handed(a, b, ad, end) ==
  \E j \in DOMAIN b :
     /\ b[j].name = "push_lambda" /\ b[j].arg % 16 = 0
     /\ ad[a + 1] = b[j].arg + Length(Prologue)
     /\ b[j].at + b[j].len = end

\* Where the code of the opcode with C index k begins, after n of them.
Begins(k, ad, n, bytes) == IF k = n THEN bytes ELSE ad[k + 1]

OpenLambdas ==
  phase = "compile" => \A i \in 2 .. Len(fns) : Aligns(fns, i, addrs, size)

ClosedLambdas ==
  phase = "compile" =>
    \A a \in Defs(code) :
      a <= Compiled =>
        \/ Open(fns, a)
        \/ /\ code[a].num <= Compiled
           /\ Handed(a, buffer, addrs, Begins(code[a].num, addrs, Compiled, size))

AllLambdas ==
  phase \in {"patch", "run"} =>
    \A a \in Defs(code) : Handed(a, buffer, addrs, addrs[code[a].num + 1])

LambdaInv == OpenLambdas /\ ClosedLambdas /\ AllLambdas

\* Recording the address of the next opcode settles that of an open body.
LEMMA OpenSettles ==
  ASSUME NEW c, NEW f \in Seq(Calls), Nested(c, f), NEW i \in 2 .. Len(f),
         NEW n, n = f[Len(f)].pc, NEW ad, NEW ae, Agree(ad, ae, n),
         NEW bytes, ae[n + 1] = bytes, Aligns(f, i, ad, bytes)
  PROVE  /\ f[i].entry % 16 = 0 /\ f[i].entry + Length(Prologue) = ae[f[i - 1].pc + 2]
         /\ f[i - 1].pc < f[i].pc /\ f[i].pc <= n /\ f[i - 1].pc \in Nat
<1>1. i - 1 \in DOMAIN f /\ i \in DOMAIN f /\ Len(f) \in DOMAIN f
      /\ i \in Nat /\ Len(f) \in Nat /\ i - 1 < i /\ i <= Len(f)
  OBVIOUS
<1>2. f[i - 1].pc \in Nat /\ f[i].pc \in Nat /\ n \in Nat
  <2>1. f[i - 1] \in Calls /\ f[i] \in Calls /\ f[Len(f)] \in Calls
    BY <1>1
  <2>. QED BY <2>1 DEF Calls
<1>3. f[i - 1].pc < f[i].pc
  BY <1>1 DEF Nested
<1>4. f[i].pc <= n
  <2>1. CASE i = Len(f)
    BY <1>2, <2>1
  <2>2. CASE i # Len(f)
    <3>1. i < Len(f)
      BY <1>1, <2>2
    <3>2. f[i].pc < f[Len(f)].pc
      BY <1>1, <3>1 DEF Nested
    <3>. QED BY <1>2, <3>2
  <2>. QED BY <2>1, <2>2
<1>5. CASE f[i].pc = f[i - 1].pc + 1 /\ i = Len(f)
  <2>1. f[i - 1].pc + 2 = n + 1
    BY <1>2, <1>5
  <2>. QED BY <1>2, <1>3, <1>4, <1>5, <2>1 DEF Aligns
<1>6. CASE ~(f[i].pc = f[i - 1].pc + 1 /\ i = Len(f))
  <2>1. f[i - 1].pc + 2 \in 1 .. n
    <3>1. CASE i = Len(f)
      BY <1>2, <1>3, <1>6, <3>1, SMTT(20)
    <3>2. CASE i # Len(f)
      <4>1. f[i].pc < f[Len(f)].pc
        BY <1>1, <3>2 DEF Nested
      <4>. QED BY <1>2, <1>3, <4>1, SMTT(20)
    <3>. QED BY <3>1, <3>2
  <2>2. ae[f[i - 1].pc + 2] = ad[f[i - 1].pc + 2]
    BY <2>1 DEF Agree
  <2>. QED BY <1>2, <1>3, <1>4, <1>6, <2>2 DEF Aligns
<1>. QED BY <1>5, <1>6

\* It settles where the code after a definition begins, too.
LEMMA HandedSettles ==
  ASSUME NEW k \in Nat, NEW a \in Nat, a < k, a + 1 \in 1 .. k,
         NEW n \in Nat, k <= n, NEW ad, NEW ae, Agree(ad, ae, n),
         NEW bytes, ae[n + 1] = bytes, NEW b, NEW d, Keeps(b, d),
         Handed(a, b, ad, Begins(k, ad, n, bytes))
  PROVE  Handed(a, d, ae, ae[k + 1])
<1>1. Begins(k, ad, n, bytes) = ae[k + 1]
  <2>1. CASE k = n
    BY <2>1 DEF Begins
  <2>2. CASE k # n
    <3>1. k + 1 \in 1 .. n
      BY <2>2
    <3>. QED BY <2>2, <3>1 DEF Begins, Agree
  <2>. QED BY <2>1, <2>2
<1>2. ae[a + 1] = ad[a + 1]
  <2>1. a + 1 \in 1 .. n
    OBVIOUS
  <2>. QED BY <2>1 DEF Agree
<1>3. PICK j \in DOMAIN b : /\ b[j].name = "push_lambda" /\ b[j].arg % 16 = 0
                            /\ ad[a + 1] = b[j].arg + Length(Prologue)
                            /\ b[j].at + b[j].len = ae[k + 1]
  BY <1>1 DEF Handed
<1>4. j \in DOMAIN d /\ d[j] = b[j]
  BY DEF Keeps
<1>. QED BY <1>2, <1>3, <1>4 DEF Handed

\* What every step that compiles something does to buffer and addresses.
LEMMA CodeGrows ==
  ASSUME CompilerTypes, NEW t \in Seq(Legal), Push(t), NEW n \in Nat,
         n + 1 \in 1 .. Len(addrs), Record(n)
  PROVE  /\ size \in Nat /\ Length(t) \in Nat /\ size' = size + Length(t)
         /\ Continues(buffer', buffer, t, size) /\ Keeps(buffer, buffer')
         /\ Agree(addrs, addrs', n) /\ addrs'[n + 1] = size
<1>1. /\ size \in Nat /\ Length(t) \in Nat /\ size' = size + Length(t)
      /\ Continues(buffer', buffer, t, size)
  BY PushStep DEF CompilerTypes
<1>2. Agree(addrs, addrs', n) /\ addrs'[n + 1] = size
  BY <1>1, RecordedAt DEF CompilerTypes
<1>3. Keeps(buffer, buffer')
  BY <1>1 DEF Continues
<1>. QED BY <1>1, <1>2, <1>3

\* A body that is not open when the next address is recorded.
LEMMA ClosedSettles ==
  ASSUME code \in Seq(Opcode), WellFormed(code), NEW n \in Nat,
         Agree(addrs, addrs', n), addrs'[n + 1] = size, Keeps(buffer, buffer'),
         NEW a \in Defs(code), code[a].num <= n,
         Handed(a, buffer, addrs, Begins(code[a].num, addrs, n, size))
  PROVE  Handed(a, buffer', addrs', addrs'[code[a].num + 1])
<1>1. a \in DOMAIN code /\ a \in Nat /\ code[a].op = "op_def_lambda"
  BY DEF Defs
<1>2. code[a].num \in (a + 1) .. Len(code) /\ Len(code) \in Nat
  BY <1>1, BodyShape
<1>3. code[a].num \in Nat /\ a < code[a].num /\ a + 1 \in 1 .. code[a].num
  BY <1>1, <1>2
<1>. DEFINE k == code[a].num
<1>4. k \in Nat /\ a \in Nat /\ a < k /\ a + 1 \in 1 .. k /\ k <= n
      /\ Handed(a, buffer, addrs, Begins(k, addrs, n, size))
  BY <1>1, <1>3
<1>. HIDE DEF k
<1>5. Handed(a, buffer', addrs', addrs'[k + 1])
  BY <1>4, HandedSettles
<1>. QED BY <1>5 DEF k

\* An opcode that is no definition is compiled.
LEMMA EmitOpLambdas ==
  ASSUME CompilerInv, LambdaInv, EmitOp(Template(opc))
  PROVE  LambdaInv'
<1>1. CASE Fail
  <2>1. phase' = "failed"
    BY <1>1 DEF Fail
  <2>. QED BY <2>1 DEF LambdaInv, OpenLambdas, ClosedLambdas, AllLambdas
<1>2. CASE ~Fail
  <2>. DEFINE t == Template(opc)
              n == fn.pc
  <2>1. /\ Compiling /\ opc.op # "op_def_lambda" /\ Push(t) /\ Record(n)
        /\ fns' = [fns EXCEPT ![Len(fns)].pc = @ + 1]
        /\ UNCHANGED <<code, phase>>
    BY <1>2 DEF EmitOp
  <2>2. /\ phase = "compile" /\ CompilerTypes
        /\ fns \in Seq(Calls) /\ fns # << >> /\ Len(fns) \in DOMAIN fns /\ Nested(code, fns)
        /\ fn = fns[Len(fns)] /\ n < fn.end /\ n \in Nat /\ n + 1 \in DOMAIN code
        /\ opc = code[n + 1] /\ opc \in Opcode
        /\ Compiled = n /\ n + 1 \in 1 .. Len(addrs)
    BY <2>1, AtOpcode
  <2>3. t \in Seq(Legal)
    BY <2>1, <2>2, OpTemplate
  <2>4. n = fns[Len(fns)].pc
    BY <2>2
  <2>. HIDE DEF t, n
  <2>5. /\ Keeps(buffer, buffer') /\ Agree(addrs, addrs', n) /\ addrs'[n + 1] = size
    BY <2>1, <2>2, <2>3, CodeGrows
  <2>6. /\ Len(fns') = Len(fns)
        /\ \A i \in DOMAIN fns :
              /\ fns'[i].pc = IF i = Len(fns) THEN fns[i].pc + 1 ELSE fns[i].pc
              /\ fns'[i].entry = fns[i].entry
    <3>1. fns[Len(fns)].pc < fns[Len(fns)].end /\ code \in Seq(Opcode)
      BY <2>2, <2>4 DEF CompilerTypes
    <3>2. /\ fns \in Seq(Calls) /\ fns # << >> /\ Nested(code, fns) /\ fns' = Advanced(fns)
      BY <2>1, <2>2 DEF Advanced
    <3>. QED BY ONLY <3>1, <3>2, CallAdvances
  <2>7. Compiled' = n + 1
    BY <2>1, <2>2, <2>4, <2>6 DEF Compiled
  <2>8. ASSUME NEW i \in 2 .. Len(fns)
        PROVE  Aligns(fns', i, addrs', size')
    <3>1. Aligns(fns, i, addrs, size)
      BY <2>2 DEF LambdaInv, OpenLambdas
    <3>2. /\ fns[i].entry % 16 = 0 /\ fns[i].entry + Length(Prologue) = addrs'[fns[i - 1].pc + 2]
          /\ fns[i - 1].pc < fns[i].pc /\ fns[i - 1].pc \in Nat
      BY <2>2, <2>4, <2>5, <3>1, OpenSettles
    <3>3. i \in DOMAIN fns /\ i - 1 \in DOMAIN fns /\ i - 1 # Len(fns)
      BY <2>2
    <3>4. fns'[i - 1].pc = fns[i - 1].pc /\ fns'[i].entry = fns[i].entry
      BY <2>6, <3>3
    <3>5. ~(i = Len(fns') /\ fns'[i].pc = fns'[i - 1].pc + 1)
      <4>1. fns[i].pc \in Nat
        <5>1. fns[i] \in Calls
          BY <2>2, <3>3
        <5>. QED BY <5>1 DEF Calls
      <4>. QED BY <2>6, <3>2, <3>3, <3>4, <4>1
    <3>. QED BY <3>2, <3>4, <3>5 DEF Aligns
  <2>9. ASSUME NEW a \in Defs(code), a <= n + 1
        PROVE  \/ Open(fns', a)
               \/ /\ code[a].num <= n + 1
                  /\ Handed(a, buffer', addrs', Begins(code[a].num, addrs', n + 1, size'))
    <3>1. a \in DOMAIN code /\ a \in Nat /\ code[a].op = "op_def_lambda" /\ code[a].num \in Nat
      <4>1. a \in DOMAIN code /\ code[a] \in Opcode /\ code[a].op = "op_def_lambda" /\ a \in Nat
        BY <2>2 DEF Defs, CompilerTypes
      <4>. QED BY <4>1 DEF Opcode
    <3>2. a <= n
      BY <2>1, <2>2, <2>9, <3>1
    <3>3. CASE Open(fns, a)
      <4>1. PICK i \in 1 .. (Len(fns) - 1) : a = fns[i].pc + 1
        BY <3>3 DEF Open
      <4>2. i \in DOMAIN fns /\ i # Len(fns)
        BY <2>2
      <4>3. fns'[i].pc = fns[i].pc
        BY <2>6, <4>2
      <4>. QED BY <2>6, <4>1, <4>3 DEF Open
    <3>4. CASE /\ code[a].num <= n
               /\ Handed(a, buffer, addrs, Begins(code[a].num, addrs, n, size))
      <4>1. Handed(a, buffer', addrs', addrs'[code[a].num + 1])
        BY <2>2, <2>5, <3>4, ClosedSettles DEF CompilerTypes
      <4>2. Begins(code[a].num, addrs', n + 1, size') = addrs'[code[a].num + 1]
            /\ code[a].num <= n + 1
        BY <2>2, <3>1, <3>4 DEF Begins
      <4>. QED BY <4>1, <4>2
    <3>. QED BY <2>2, <3>2, <3>3, <3>4 DEF LambdaInv, ClosedLambdas
  <2>10. OpenLambdas'
    BY <2>6, <2>8 DEF OpenLambdas
  <2>11. ClosedLambdas'
    BY <2>1, <2>7, <2>9 DEF ClosedLambdas
  <2>12. AllLambdas'
    BY <2>1, <2>2 DEF AllLambdas
  <2>. QED BY <2>10, <2>11, <2>12 DEF LambdaInv
<1>. QED BY <1>1, <1>2

\* The NOPs and the prologue bring the buffer to where the body begins.
LEMMA AlignedLength ==
  ASSUME size \in Nat
  PROVE  size + Length(Aligned(Prologue)) = Entry + Length(Prologue)
<1>1. Padding \in 0 .. 15
  BY AlignedTemplate
<1>2. Prologue \in Seq(Emission(InsNames, Operand)) /\ Length(Prologue) \in Nat
  <2>1. Prologue \in Seq(Emission(InsNames, Operand))
    BY FixedTemplates, LegalTemplate
  <2>. QED BY <2>1, PlacedShape
<1>3. CASE Padding = 0
  BY <1>2, <1>3 DEF Aligned, Entry
<1>4. CASE Padding # 0
  <2>. DEFINE x == Ins("nop", "", Padding)
  <2>1. x \in Emission(InsNames, Operand) /\ x.len = Padding
    <3>1. "" \in Operand /\ "nop" \in InsNames /\ Padding \in Nat \ {0}
      BY <1>1, <1>4 DEF Operand, InsNames, Names
    <3>. QED BY <3>1 DEF Ins, Emission
  <2>2. Aligned(Prologue) = << x >> \o Prologue
    BY <1>4 DEF Aligned
  <2>. HIDE DEF x
  <2>3. Length(<< x >> \o Prologue) = Padding + Length(Prologue)
    BY <1>2, <2>1, PrefixedLength
  <2>. QED BY <1>1, <1>2, <2>2, <2>3 DEF Entry
<1>. QED BY <1>3, <1>4

\* jit_compile_function calls itself for a body, which is open from then on.
LEMMA EnterLambdaLambdas ==
  ASSUME CompilerInv, LambdaInv, EnterLambda(Prologue)
  PROVE  LambdaInv'
<1>1. CASE Fail
  <2>1. phase' = "failed"
    BY <1>1 DEF Fail
  <2>. QED BY <2>1 DEF LambdaInv, OpenLambdas, ClosedLambdas, AllLambdas
<1>2. CASE ~Fail
  <2>. DEFINE t == Aligned(Prologue)
              n == fn.pc
  <2>1. /\ Compiling /\ opc.op = "op_def_lambda" /\ Push(t) /\ Record(n)
        /\ fns' = Append(fns, [pc |-> n + 1, end |-> opc.num, entry |-> Entry])
        /\ UNCHANGED <<code, phase>>
    BY <1>2 DEF EnterLambda
  <2>2. /\ phase = "compile" /\ CompilerTypes
        /\ fns \in Seq(Calls) /\ fns # << >> /\ Len(fns) \in DOMAIN fns /\ Nested(code, fns)
        /\ fn = fns[Len(fns)] /\ n < fn.end /\ n \in Nat /\ n + 1 \in DOMAIN code
        /\ opc = code[n + 1] /\ opc \in Opcode
        /\ Compiled = n /\ n + 1 \in 1 .. Len(addrs)
    BY <2>1, AtOpcode
  <2>3. size \in Nat /\ t \in Seq(Legal) /\ Entry \in Nat /\ Entry % 16 = 0
    <3>1. size \in Nat
      BY <2>2, JitCapacityAssumption DEF CompilerTypes, BufferOK
    <3>. QED BY <3>1, AlignedTemplate
  <2>4. n = fns[Len(fns)].pc
    BY <2>2
  <2>5. size' = Entry + Length(Prologue)
    BY <2>1, <2>3, AlignedLength DEF Push
  <2>6. /\ Len(fns') = Len(fns) + 1 /\ fns' \in Seq(Calls)
        /\ \A i \in DOMAIN fns : fns'[i] = fns[i]
        /\ fns'[Len(fns')].pc = n + 1 /\ fns'[Len(fns')].entry = Entry
    <3>1. fns' = Entered(fns, code[fns[Len(fns)].pc + 1].num, Entry)
      BY <2>1, <2>2 DEF Entered
    <3>2. /\ fns[Len(fns)].pc < fns[Len(fns)].end
          /\ code[fns[Len(fns)].pc + 1].op = "op_def_lambda"
          /\ code \in Seq(Opcode) /\ WellFormed(code)
      BY <2>1, <2>2 DEF CompilerTypes
    <3>3. fns \in Seq(Calls) /\ fns # << >> /\ Nested(code, fns) /\ Entry \in Nat
      BY <2>2, <2>3
    <3>4. /\ Len(fns') = Len(fns) + 1 /\ fns' \in Seq(Calls)
          /\ \A i \in DOMAIN fns : fns'[i] = fns[i]
          /\ fns'[Len(fns')].pc = fns[Len(fns)].pc + 1 /\ fns'[Len(fns')].entry = Entry
      BY ONLY <3>1, <3>2, <3>3, CallEnters
    <3>. QED BY <2>4, <3>4
  <2>. HIDE DEF t, n
  <2>7. /\ Keeps(buffer, buffer') /\ Agree(addrs, addrs', n) /\ addrs'[n + 1] = size
    BY <2>1, <2>2, <2>3, CodeGrows
  <2>8. Compiled' = n + 1
    BY <2>1, <2>2, <2>6 DEF Compiled
  <2>9. ASSUME NEW i \in 2 .. Len(fns')
        PROVE  Aligns(fns', i, addrs', size')
    <3>1. CASE i = Len(fns')
      <4>1. i - 1 = Len(fns) /\ fns'[i - 1].pc = n /\ fns'[i].pc = n + 1
        BY <2>2, <2>4, <2>6, <3>1
      <4>. QED BY <2>3, <2>5, <2>6, <3>1, <4>1 DEF Aligns
    <3>2. CASE i # Len(fns')
      <4>1. i \in 2 .. Len(fns) /\ i \in DOMAIN fns /\ i - 1 \in DOMAIN fns
        BY <2>2, <2>6, <3>2
      <4>2. Aligns(fns, i, addrs, size)
        BY <2>2, <4>1 DEF LambdaInv, OpenLambdas
      <4>3. /\ fns[i].entry % 16 = 0
            /\ fns[i].entry + Length(Prologue) = addrs'[fns[i - 1].pc + 2]
        BY <2>2, <2>4, <2>7, <4>1, <4>2, OpenSettles
      <4>. QED BY <2>6, <3>2, <4>1, <4>3 DEF Aligns
    <3>. QED BY <3>1, <3>2
  <2>10. ASSUME NEW a \in Defs(code), a <= n + 1
         PROVE  \/ Open(fns', a)
                \/ /\ code[a].num <= n + 1
                   /\ Handed(a, buffer', addrs', Begins(code[a].num, addrs', n + 1, size'))
    <3>1. a \in DOMAIN code /\ a \in Nat /\ code[a].num \in Nat
      <4>1. a \in DOMAIN code /\ code[a] \in Opcode /\ a \in Nat
        BY <2>2 DEF Defs, CompilerTypes
      <4>. QED BY <4>1 DEF Opcode
    <3>2. CASE a = n + 1
      <4>1. Len(fns) \in 1 .. (Len(fns') - 1) /\ fns'[Len(fns)].pc = n
        BY <2>2, <2>4, <2>6
      <4>. QED BY <3>2, <4>1 DEF Open
    <3>3. CASE Open(fns, a)
      <4>1. PICK i \in 1 .. (Len(fns) - 1) : a = fns[i].pc + 1
        BY <3>3 DEF Open
      <4>2. i \in DOMAIN fns /\ i \in 1 .. (Len(fns') - 1)
        BY <2>2, <2>6
      <4>. QED BY <2>6, <4>1, <4>2 DEF Open
    <3>4. CASE /\ code[a].num <= n
               /\ Handed(a, buffer, addrs, Begins(code[a].num, addrs, n, size))
      <4>1. Handed(a, buffer', addrs', addrs'[code[a].num + 1])
        BY <2>2, <2>7, <3>4, ClosedSettles DEF CompilerTypes
      <4>2. Begins(code[a].num, addrs', n + 1, size') = addrs'[code[a].num + 1]
            /\ code[a].num <= n + 1
        BY <2>2, <3>1, <3>4 DEF Begins
      <4>. QED BY <4>1, <4>2
    <3>5. a = n + 1 \/ a <= n
      BY <2>2, <2>10, <3>1
    <3>. QED BY <2>2, <3>2, <3>3, <3>4, <3>5 DEF LambdaInv, ClosedLambdas
  <2>11. OpenLambdas'
    BY <2>9 DEF OpenLambdas
  <2>12. ClosedLambdas'
    BY <2>1, <2>8, <2>10 DEF ClosedLambdas
  <2>13. AllLambdas'
    BY <2>1, <2>2 DEF AllLambdas
  <2>. QED BY <2>11, <2>12, <2>13 DEF LambdaInv
<1>. QED BY <1>1, <1>2

\* What the end of a body adds to the buffer.
LEMMA DefineIsPushed ==
  ASSUME NEW entry \in Nat, NEW b, NEW d, NEW n \in Nat,
         Continues(d, b, Epilogue \o Define(entry), n)
  PROVE  \E j \in DOMAIN d :
            /\ d[j].name = "push_lambda" /\ d[j].arg = entry
            /\ d[j].at + d[j].len = n + Length(Epilogue \o Define(entry))
<1>. DEFINE t == Epilogue \o Define(entry)
            x == Define(entry)[1]
<1>1. /\ Epilogue \in Seq(Legal) /\ Define(entry) \in Seq(Legal) /\ Len(Define(entry)) = 1
      /\ x.name = "push_lambda" /\ x.arg = entry
  BY FixedTemplates, DefineTemplate
<1>2. t \in Seq(Legal) /\ Len(t) = Len(Epilogue) + 1 /\ t[Len(Epilogue) + 1] = x
  BY <1>1, Concatenated
<1>. HIDE DEF t, x
<1>3. Len(Epilogue) \in Nat /\ t # << >>
  BY <1>1, <1>2
<1>4. t \in Seq(Emission(InsNames, Operand))
  BY <1>2, LegalTemplate
<1>5. Len(t) \in 1 .. Len(t) /\ Length(t) = Ends(t)[Len(t) - 1] + t[Len(t)].len
  BY <1>3, <1>4, LastEnds
<1>6. Ends(t)[Len(t) - 1] \in Nat /\ t[Len(t)].len \in Nat
  <2>1. Len(t) \in Nat /\ Len(t) - 1 \in 0 .. Len(t) /\ t[Len(t)] \in Emission(InsNames, Operand)
        /\ \A k \in 1 .. Len(t) : t[k] \in Emission(InsNames, Operand)
    BY <1>4, <1>5
  <2>2. \A k \in 1 .. Len(t) : t[k].len \in Nat
    BY <2>1 DEF Emission
  <2>. QED BY <1>5, <2>1, <2>2, EndsMeaning
<1>. DEFINE j == Len(b) + Len(t)
<1>7. /\ j \in DOMAIN d /\ d[j].at = n + Ends(t)[Len(t) - 1]
      /\ d[j].name = t[Len(t)].name /\ d[j].arg = t[Len(t)].arg /\ d[j].len = t[Len(t)].len
  BY <1>5 DEF Continues, t
<1>8. d[j].at + d[j].len = n + Length(t)
  BY <1>5, <1>6, <1>7
<1>. QED BY <1>1, <1>2, <1>7, <1>8 DEF t

\* The call for a body returns, and its closure is pushed.
LEMMA LeaveLambdaLambdas ==
  ASSUME CompilerInv, LambdaInv, LeaveLambda(Epilogue, Define(fn.entry))
  PROVE  LambdaInv'
<1>1. CASE Fail
  <2>1. phase' = "failed"
    BY <1>1 DEF Fail
  <2>. QED BY <2>1 DEF LambdaInv, OpenLambdas, ClosedLambdas, AllLambdas
<1>2. CASE ~Fail
  <2>. DEFINE t == Epilogue \o Define(fn.entry)
              n == fn.pc
              top == Len(fns)
  <2>1. /\ phase = "compile" /\ fn.pc >= fn.end /\ Len(fns) > 1 /\ Push(t) /\ Record(n)
        /\ fns' = [Front(fns) EXCEPT ![Len(fns) - 1].pc = fn.end]
        /\ UNCHANGED <<code, phase>>
    BY <1>2 DEF LeaveLambda
  <2>2. /\ CompilerTypes
        /\ fns \in Seq(Calls) /\ fns # << >> /\ top \in DOMAIN fns /\ Nested(code, fns)
        /\ fn = fns[top] /\ n = fn.end /\ n \in Nat /\ fn.entry \in Nat
        /\ Compiled = n /\ n + 1 \in 1 .. Len(addrs)
    BY <2>1, AtEnd
  <2>3. t \in Seq(Legal)
    BY <2>2, FixedTemplates, DefineTemplate, Concatenated
  <2>4. n = fns[top].pc /\ n = fns[top].end
    BY <2>2
  <2>5. /\ fns' \in Seq(Calls) /\ Len(fns') = top - 1
        /\ \A i \in 1 .. (top - 1) :
              /\ fns'[i].pc = IF i = top - 1 THEN n ELSE fns[i].pc
              /\ fns'[i].entry = fns[i].entry
    <3>1. /\ fns \in Seq(Calls) /\ Len(fns) > 1 /\ Nested(code, fns) /\ code \in Seq(Opcode)
          /\ fns[Len(fns)].pc >= fns[Len(fns)].end
      BY <2>1, <2>2 DEF CompilerTypes
    <3>2. fns' = Left(fns)
      BY <2>1, <2>2 DEF Left, Front
    <3>3. /\ fns' \in Seq(Calls) /\ Len(fns') = Len(fns) - 1
          /\ \A i \in 1 .. (Len(fns) - 1) :
                /\ fns'[i].pc = IF i = Len(fns) - 1 THEN fns[Len(fns)].pc ELSE fns[i].pc
                /\ fns'[i].entry = fns[i].entry
      BY ONLY <3>1, <3>2, CallLeaves
    <3>. QED BY <2>4, <3>3
  <2>6. top \in Nat /\ top > 1 /\ top - 1 \in 1 .. (top - 1) /\ DOMAIN fns = 1 .. top
    BY <2>1, <2>2
  <2>7. /\ size \in Nat /\ size' = size + Length(t) /\ Continues(buffer', buffer, t, size)
        /\ Keeps(buffer, buffer') /\ Agree(addrs, addrs', n) /\ addrs'[n + 1] = size
    <3>. HIDE DEF t, n
    <3>. QED BY <2>1, <2>2, <2>3, CodeGrows
  <2>8. PICK j \in DOMAIN buffer' :
           /\ buffer'[j].name = "push_lambda" /\ buffer'[j].arg = fn.entry
           /\ buffer'[j].at + buffer'[j].len = size'
    BY <2>2, <2>7, DefineIsPushed
  <2>. HIDE DEF t, n, top
  <2>9. Compiled' = n
    BY <2>1, <2>5, <2>6 DEF Compiled
  <2>10. ASSUME NEW i \in 2 .. top
         PROVE  /\ fns[i].entry % 16 = 0
                /\ fns[i].entry + Length(Prologue) = addrs'[fns[i - 1].pc + 2]
                /\ fns[i - 1].pc < fns[i].pc /\ fns[i].pc <= n /\ fns[i - 1].pc \in Nat
    <3>1. Aligns(fns, i, addrs, size)
      BY <2>1 DEF LambdaInv, OpenLambdas, top
    <3>. QED BY <2>2, <2>4, <2>7, <3>1, OpenSettles DEF top
  <2>11. ASSUME NEW i \in 2 .. Len(fns')
         PROVE  Aligns(fns', i, addrs', size')
    <3>1. i \in 2 .. top /\ i \in 1 .. (top - 1) /\ i - 1 \in 1 .. (top - 1) /\ i - 1 # top - 1
      BY <2>5, <2>6
    <3>2. /\ fns[i].entry % 16 = 0
          /\ fns[i].entry + Length(Prologue) = addrs'[fns[i - 1].pc + 2]
          /\ fns[i - 1].pc < fns[i].pc /\ fns[i - 1].pc \in Nat
      BY <2>10, <3>1
    <3>3. fns'[i - 1].pc = fns[i - 1].pc /\ fns'[i].entry = fns[i].entry
      BY <2>5, <3>1
    <3>4. CASE i = top - 1
      <4>1. fns[i].pc < n /\ fns[i].pc \in Nat
        <5>1. i \in DOMAIN fns /\ top \in DOMAIN fns /\ i < top
          BY <2>6, <3>1
        <5>2. fns[i] \in Calls
          BY <2>2, <5>1
        <5>. QED BY <2>2, <2>4, <5>1, <5>2 DEF Nested, Calls
      <4>2. fns'[i].pc = n
        BY ONLY <2>5, <3>1, <3>4
      <4>3. n # fns[i - 1].pc + 1
        <5>1. n \in Nat
          BY <2>2
        <5>. QED BY ONLY <3>2, <4>1, <5>1
      <4>4. fns'[i].pc # fns'[i - 1].pc + 1
        BY <3>3, <4>2, <4>3
      <4>. QED BY <3>2, <3>3, <4>4 DEF Aligns
    <3>5. CASE i # top - 1
      BY <2>5, <3>2, <3>3, <3>5 DEF Aligns
    <3>. QED BY <3>4, <3>5
  <2>12. ASSUME NEW a \in Defs(code), a <= n
         PROVE  \/ Open(fns', a)
                \/ /\ code[a].num <= n
                   /\ Handed(a, buffer', addrs', Begins(code[a].num, addrs', n, size'))
    <3>. DEFINE b == fns[top - 1].pc + 1
    <3>1. b \in Defs(code) /\ code[b].num = n
      <4>1. top - 1 \in DOMAIN fns /\ (top - 1) + 1 \in DOMAIN fns /\ (top - 1) + 1 = top
        BY <2>6
      <4>2. b \in Defs(code) /\ code[b].num = fns[top].end
        BY <2>2, <4>1 DEF Nested
      <4>. QED BY <2>4, <4>2
    <3>2. CASE a = b
      <4>1. /\ top \in 2 .. top /\ fns[top].entry = fn.entry
        BY <2>2, <2>6
      <4>2. /\ fn.entry % 16 = 0
            /\ fn.entry + Length(Prologue) = addrs'[fns[top - 1].pc + 2]
            /\ fns[top - 1].pc \in Nat
        BY <2>10, <4>1
      <4>3. addrs'[a + 1] = fn.entry + Length(Prologue)
        BY <3>2, <4>2
      <4>4. Begins(code[a].num, addrs', n, size') = size' /\ code[a].num <= n
        BY <2>2, <3>1, <3>2 DEF Begins
      <4>. QED BY <2>8, <4>2, <4>3, <4>4 DEF Handed
    <3>3. CASE a # b
      <4>1. code[a].num # n
        BY <2>2, <3>1, <3>3 DEF CompilerTypes, WellFormed
      <4>2. CASE Open(fns, a)
        <5>1. PICK i \in 1 .. (Len(fns) - 1) : a = fns[i].pc + 1
          BY <4>2 DEF Open
        <5>2. i # top - 1 /\ i \in 1 .. (top - 1) /\ i \in 1 .. (Len(fns') - 1)
          BY <2>5, <2>6, <3>3, <5>1 DEF top
        <5>3. fns'[i].pc = fns[i].pc
          BY <2>5, <5>2
        <5>. QED BY <5>1, <5>2, <5>3 DEF Open
      <4>3. CASE /\ code[a].num <= n
                 /\ Handed(a, buffer, addrs, Begins(code[a].num, addrs, n, size))
        <5>1. Handed(a, buffer', addrs', addrs'[code[a].num + 1])
          BY <2>2, <2>7, <4>3, ClosedSettles DEF CompilerTypes
        <5>2. Begins(code[a].num, addrs', n, size') = addrs'[code[a].num + 1]
          BY <4>1 DEF Begins
        <5>. QED BY <4>3, <5>1, <5>2
      <4>. QED BY <2>1, <2>2, <2>12, <4>2, <4>3 DEF LambdaInv, ClosedLambdas
    <3>. QED BY <3>2, <3>3
  <2>13. OpenLambdas'
    BY <2>11 DEF OpenLambdas
  <2>14. ClosedLambdas'
    BY <2>1, <2>9, <2>12 DEF ClosedLambdas
  <2>15. AllLambdas'
    BY <2>1 DEF AllLambdas
  <2>. QED BY <2>13, <2>14, <2>15 DEF LambdaInv
<1>. QED BY <1>1, <1>2

\* When the main function is compiled no body is open.
LEMMA LeaveMainLambdas ==
  ASSUME CompilerInv, LambdaInv, LeaveMain(Epilogue, Thunk)
  PROVE  LambdaInv'
<1>1. CASE Fail
  <2>1. phase' = "failed"
    BY <1>1 DEF Fail
  <2>. QED BY <2>1 DEF LambdaInv, OpenLambdas, ClosedLambdas, AllLambdas
<1>2. CASE ~Fail
  <2>. DEFINE t == Epilogue \o Thunk
              n == fn.pc
  <2>1. /\ phase = "compile" /\ fn.pc >= fn.end /\ Len(fns) = 1 /\ Push(t) /\ Record(n)
        /\ phase' = "patch" /\ code' = code
    BY <1>2 DEF LeaveMain
  <2>2. /\ CompilerTypes
        /\ fns \in Seq(Calls) /\ Nested(code, fns)
        /\ fn = fns[Len(fns)] /\ n = fn.end /\ n \in Nat
        /\ Compiled = n /\ n + 1 \in 1 .. Len(addrs)
    BY <2>1, AtEnd
  <2>3. n = Len(code)
    BY <2>1, <2>2 DEF Nested
  <2>4. t \in Seq(Legal)
    BY FixedTemplates, Concatenated
  <2>. HIDE DEF t, n
  <2>5. /\ Keeps(buffer, buffer') /\ Agree(addrs, addrs', n) /\ addrs'[n + 1] = size
    BY <2>1, <2>2, <2>4, CodeGrows
  <2>6. ASSUME NEW a \in Defs(code)
        PROVE  Handed(a, buffer', addrs', addrs'[code[a].num + 1])
    <3>1. a <= n
      BY <2>2, <2>3 DEF Defs, CompilerTypes
    <3>2. ~Open(fns, a)
      BY <2>1 DEF Open
    <3>3. code[a].num <= n /\ Handed(a, buffer, addrs, Begins(code[a].num, addrs, n, size))
      BY <2>1, <2>2, <3>1, <3>2 DEF LambdaInv, ClosedLambdas
    <3>. QED BY <2>2, <2>5, <3>3, ClosedSettles DEF CompilerTypes
  <2>. QED BY <2>1, <2>6 DEF LambdaInv, OpenLambdas, ClosedLambdas, AllLambdas
<1>. QED BY <1>1, <1>2

\* patch_jumps() writes to no call that pushes a closure.
LEMMA PatchLambdas ==
  ASSUME CompilerInv, LambdaInv, PatchJump
  PROVE  LambdaInv'
<1>. DEFINE off == patch.instruction_offset
            rel == RelativeOffset(Target, off)
<1>1. phase = "patch" /\ next < Len(patches.data) /\ UNCHANGED <<code, phase, addrs>>
      /\ buffer' \in {Patched(off, rel), buffer}
  BY DEF PatchJump, PatchNext
<1>2. CompilerTypes
  BY DEF CompilerInv
<1>3. /\ buffer \in Seq(Emitted(InsNames, Operand)) /\ InOrder(buffer, size) /\ size \in Nat
  BY <1>2, JitCapacityAssumption DEF CompilerTypes, BufferOK
<1>4. PICK m \in DOMAIN buffer :
         /\ buffer[m].at = off /\ buffer[m].name \in {"je", "jne"} /\ buffer[m].len = 6
  BY <1>1, AtPatch
<1>5. off \in Nat
  BY <1>1, AtPatch
<1>. HIDE DEF off, rel
<1>6. ASSUME NEW j \in DOMAIN buffer, buffer[j].name = "push_lambda"
      PROVE  j \in DOMAIN buffer' /\ buffer'[j] = buffer[j]
  <2>1. buffer[j].at # off
    <3>1. buffer[j].at = off => j = m
      BY <1>3, <1>4, Disjoint
    <3>. QED BY <1>4, <1>6, <3>1
  <2>2. buffer[j].at + buffer[j].len <= off \/ off + 6 <= buffer[j].at
    BY <1>3, <1>4, <2>1, Disjoint
  <2>3. buffer[j].at \in Nat /\ buffer[j].len \in Nat
    BY <1>3, Disjoint
  <2>4. ~(buffer[j].at < off + 6 /\ off + 2 < buffer[j].at + buffer[j].len)
    BY <1>5, <2>2, <2>3
  <2>. QED BY <1>1, <1>6, <2>1, <2>4 DEF Patched
<1>7. ASSUME NEW a \in Defs(code)
      PROVE  Handed(a, buffer', addrs', addrs'[code[a].num + 1])
  <2>1. Handed(a, buffer, addrs, addrs[code[a].num + 1])
    BY <1>1 DEF LambdaInv, AllLambdas
  <2>. QED BY <1>1, <1>6, <2>1 DEF Handed
<1>. QED BY <1>1, <1>7 DEF LambdaInv, OpenLambdas, ClosedLambdas, AllLambdas

LEMMA LambdasStay ==
  ASSUME LambdaInv, UNCHANGED <<code, fns, jit>>,
         \/ phase' = phase
         \/ phase' \notin {"compile", "patch", "run"}
         \/ phase = "patch" /\ phase' = "run"
  PROVE  LambdaInv'
<1>1. UNCHANGED <<code, fns, buffer, size, addrs>>
  BY DEF jit
<1>2. Compiled' = Compiled \/ ~(phase' = "compile")
  BY <1>1 DEF Compiled
<1>. QED BY <1>1, <1>2 DEF LambdaInv, OpenLambdas, ClosedLambdas, AllLambdas

\* No step leaves the invariant.
LEMMA NextKeepsLambdas ==
  ASSUME CompilerInv, LambdaInv, [Next]_vars
  PROVE  LambdaInv'
<1>1. CASE Compile
  <2>1. CASE EnterMain(Prologue)
    <3>1. CASE phase' = "failed"
      BY <3>1 DEF LambdaInv, OpenLambdas, ClosedLambdas, AllLambdas
    <3>2. CASE phase' # "failed"
      <4>1. /\ fns' = << [pc |-> 0, end |-> Len(code), entry |-> 0] >>
            /\ phase' = "compile" /\ code' = code
        BY <2>1, <3>2 DEF EnterMain, Fail
      <4>2. Len(fns') = 1 /\ fns'[1].pc = 0
        BY <4>1
      <4>3. Compiled' = 0
        BY <4>1, <4>2 DEF Compiled
      <4>4. ~(\E a \in Defs(code) : a <= 0)
        BY DEF Defs, CompilerInv, CompilerTypes
      <4>. QED BY <4>1, <4>2, <4>3, <4>4 DEF LambdaInv, OpenLambdas, ClosedLambdas, AllLambdas
    <3>. QED BY <3>1, <3>2
  <2>2. CASE MapBuffer \/ AllocAddresses
    <3>1. phase' \in {"calloc", "enter", "failed"}
      BY <2>2 DEF MapBuffer, AllocAddresses
    <3>. QED BY <3>1 DEF LambdaInv, OpenLambdas, ClosedLambdas, AllLambdas
  <2>. QED BY <1>1, <2>1, <2>2, EmitOpLambdas, EnterLambdaLambdas, LeaveLambdaLambdas, LeaveMainLambdas
           DEF Compile
<1>2. CASE PatchJump
  BY <1>2, PatchLambdas
<1>3. CASE CallThunk
  <2>1. CASE Fail
    <3>1. phase' = "failed"
      BY <2>1 DEF Fail
    <3>. QED BY <3>1 DEF LambdaInv, OpenLambdas, ClosedLambdas, AllLambdas
  <2>2. CASE ~Fail
    <3>1. phase = "patch" /\ phase' = "run" /\ UNCHANGED <<code, fns, jit>>
      BY <1>3, <2>2 DEF CallThunk
    <3>. QED BY <3>1, LambdasStay
  <2>. QED BY <2>1, <2>2
<1>4. CASE Run
  <2>1. CASE UNCHANGED <<code, phase, fns, jit>>
    BY <2>1, LambdasStay
  <2>2. CASE phase' \in {"returned", "undefined"}
    BY <2>2 DEF LambdaInv, OpenLambdas, ClosedLambdas, AllLambdas
  <2>. QED BY <1>4, <2>1, <2>2 DEF Run, PushReg, PopReg, SetReg, CallMain, Ret, WriteMem, TestMem,
                                   CondJump, GetChar, PutChar, Undefined
<1>5. CASE UNCHANGED vars
  BY <1>5, LambdasStay DEF vars
<1>. QED BY <1>1, <1>2, <1>3, <1>4, <1>5 DEF Next

-----------------------------------------------------------------------------
(* Where the code is.  NeverDerails needs of the buffer that the code of   *)
(* every opcode is at its address and, unless it is an op_ret, ends where  *)
(* that of the next opcode begins.                                         *)

\* The instruction x, but for the offset that a jump is patched with.
Same(ins, x) ==
  /\ ins.name = x.name /\ ins.len = x.len
  /\ x.name \notin {"je", "jne"} => ins.arg = x.arg

\* The instructions of template t are in buffer b from offset n on.
Holds(b, t, n) ==
  \A i \in 1 .. Len(t) :
    \E j \in DOMAIN b : b[j].at = n + Ends(t)[i - 1] /\ Same(b[j], t[i])

\* The NOPs that follow offset n in front of a function.
PaddingAt(n) == (16 - (n % 16)) % 16

Nops(n) == << Ins("nop", "", PaddingAt(n)) >>

CodeHeld(o, b, n) ==
  IF o.op = "op_def_lambda"
  THEN /\ PaddingAt(n) # 0 => Holds(b, Nops(n), n)
       /\ Holds(b, Prologue, n + PaddingAt(n))
  ELSE Holds(b, Template(o), n)

CodeLength(o, n) ==
  IF o.op = "op_def_lambda" THEN PaddingAt(n) + Length(Prologue) ELSE Length(Template(o))

\* The first n opcodes, in a buffer of so many bytes.
LaidOut(c, n, b, ad, bytes) ==
  /\ Holds(b, Prologue, 0)
  /\ Begins(0, ad, n, bytes) = Length(Prologue)
  /\ \A k \in 1 .. n :
        /\ CodeHeld(c[k], b, ad[k])
        /\ c[k].op # "op_ret" =>
             Begins(k, ad, n, bytes) = ad[k] + CodeLength(c[k], ad[k])

LayoutInv ==
  /\ phase = "compile" => LaidOut(code, Compiled, buffer, addrs, size)
  /\ phase \in {"patch", "run"} =>
       /\ LaidOut(code, Len(code), buffer, addrs, addrs[Len(code) + 1])
       /\ Holds(buffer, Epilogue, addrs[Len(code) + 1])
       /\ Holds(buffer, Thunk, start)
       /\ start = addrs[Len(code) + 1] + Length(Epilogue)

(***************************************************************************)
(* Where the processor is, and how deep its stack.  The stack holds the    *)
(* caller's return address, that of the thunk, and what prologues saved:   *)
(* three registers in the code of the main function, at least six in that  *)
(* of a body, which is run into where it is defined and never left.        *)
(***************************************************************************)
Framed ==
  \A i \in DOMAIN stack :
    /\ stack[i].base = "buffer" <=> i = 2
    /\ i = 2 => stack[2].off = start + Ends(Thunk)[2]

\* The processor is at instruction i of the template t at offset n.
AtStep(t, n, i) == ip = n + Ends(t)[i - 1]

\* What a prologue has saved before its instruction i.
Saved == << 0, 1, 1, 2 >>

DepthAt(k) == IF InBody(code, k) THEN Len(stack) >= 8 ELSE Len(stack) = 5

InDefinition(k) ==
  \/ ip = addrs[k] /\ PaddingAt(addrs[k]) # 0 /\ Len(stack) >= 5
  \/ \E i \in 1 .. 4 :
        AtStep(Prologue, addrs[k] + PaddingAt(addrs[k]), i) /\ Len(stack) >= 5 + Saved[i]

InReturn(k) == \E i \in 1 .. 4 : AtStep(Epilogue, addrs[k], i) /\ Len(stack) >= 9 - i

\* The processor does not get past the return address of an op_call.
InCall(k) == \E i \in 1 .. 2 : AtStep(CallLambda, addrs[k], i) /\ Len(stack) >= 5

InOther(k) ==
  /\ DepthAt(k)
  /\ \E i \in 1 .. Len(Template(code[k])) : AtStep(Template(code[k]), addrs[k], i)

InOp(k) ==
  CASE code[k].op = "op_def_lambda" -> InDefinition(k)
    [] code[k].op = "op_ret"        -> InReturn(k)
    [] code[k].op = "op_call"       -> InCall(k)
    [] OTHER                        -> InOther(k)

InThunk == \E i \in 1 .. 3 : AtStep(Thunk, start, i) /\ Len(stack) = 1

InMainPrologue == \E i \in 1 .. 4 : AtStep(Prologue, 0, i) /\ Len(stack) = 2 + Saved[i]

InMainEpilogue ==
  \E i \in 1 .. 4 : AtStep(Epilogue, addrs[Len(code) + 1], i) /\ Len(stack) = 6 - i

Located ==
  InThunk \/ InMainPrologue \/ InMainEpilogue \/ \E k \in DOMAIN code : InOp(k)

PathInv == phase = "run" => Framed /\ Located

LEMMA LegalEnds ==
  ASSUME NEW t \in Seq(Legal)
  PROVE  /\ Len(t) \in Nat /\ Ends(t)[0] = 0 /\ Length(t) \in Nat
         /\ \A i \in 0 .. Len(t) : Ends(t)[i] \in Nat /\ Ends(t)[i] <= Length(t)
         /\ \A i \in 1 .. Len(t) :
               t[i].len \in Nat \ {0} /\ Ends(t)[i] = Ends(t)[i - 1] + t[i].len
<1>1. Len(t) \in Nat /\ \A i \in 1 .. Len(t) : t[i] \in Legal
  BY LegalTemplate
<1>2. \A i \in 1 .. Len(t) : t[i].len \in Nat \ {0}
  BY <1>1 DEF Legal, Emission
<1>3. \A i \in 1 .. Len(t) : t[i].len \in Nat
  BY <1>2
<1>4. Len(t) \in 0 .. Len(t)
  BY <1>1
<1>. QED BY <1>1, <1>2, <1>3, <1>4, EndsMeaning DEF Length

\* A buffer that keeps what it held holds the templates that it held.
LEMMA HoldsStay ==
  ASSUME NEW b, NEW d, Keeps(b, d), NEW t, NEW n, Holds(b, t, n)
  PROVE  Holds(d, t, n)
BY DEF Keeps, Holds

\* What is pushed is held, in its parts too.
LEMMA PushedHolds ==
  ASSUME NEW b, NEW d, NEW n, NEW t, Continues(d, b, t, n)
  PROVE  Holds(d, t, n)
BY DEF Continues, Holds, Same

LEMMA PartsHeld ==
  ASSUME NEW d, NEW n \in Nat, NEW s \in Seq(Legal), NEW t \in Seq(Legal), Holds(d, s \o t, n)
  PROVE  Holds(d, s, n) /\ Holds(d, t, n + Length(s))
<1>1. /\ s \in Seq(Emission(InsNames, Operand)) /\ Len(s) \in Nat
      /\ t \in Seq(Emission(InsNames, Operand)) /\ Len(t) \in Nat
  BY LegalTemplate
<1>. DEFINE u == s \o t
<1>2. /\ Len(u) = Len(s) + Len(t)
      /\ \A i \in 1 .. Len(s) : u[i] = s[i]
      /\ \A i \in 1 .. Len(t) : u[Len(s) + i] = t[i]
  BY <1>1, Concatenated
<1>3. /\ \A i \in 0 .. Len(s) : Ends(u)[i] = Ends(s)[i]
      /\ \A i \in 0 .. Len(t) : Ends(u)[Len(s) + i] = Length(s) + Ends(t)[i]
  BY <1>1, JoinedEnds
<1>. HIDE DEF u
<1>4. Holds(d, u, n)
  BY DEF u
<1>5. Holds(d, s, n)
  <2>. SUFFICES ASSUME NEW i \in 1 .. Len(s)
                PROVE  \E j \in DOMAIN d : d[j].at = n + Ends(s)[i - 1] /\ Same(d[j], s[i])
    BY DEF Holds
  <2>1. i \in 1 .. Len(u) /\ i - 1 \in 0 .. Len(s)
    BY <1>1, <1>2
  <2>2. PICK j \in DOMAIN d : d[j].at = n + Ends(u)[i - 1] /\ Same(d[j], u[i])
    BY <1>4, <2>1 DEF Holds
  <2>. QED BY <1>2, <1>3, <2>1, <2>2
<1>6. Holds(d, t, n + Length(s))
  <2>. SUFFICES ASSUME NEW i \in 1 .. Len(t)
                PROVE  \E j \in DOMAIN d :
                         d[j].at = (n + Length(s)) + Ends(t)[i - 1] /\ Same(d[j], t[i])
    BY DEF Holds
  <2>1. /\ Len(s) + i \in 1 .. Len(u) /\ i - 1 \in 0 .. Len(t)
        /\ (Len(s) + i) - 1 = Len(s) + (i - 1)
    BY <1>1, <1>2
  <2>2. PICK j \in DOMAIN d :
           d[j].at = n + Ends(u)[(Len(s) + i) - 1] /\ Same(d[j], u[Len(s) + i])
    BY <1>4, <2>1 DEF Holds
  <2>3. Ends(u)[(Len(s) + i) - 1] = Length(s) + Ends(t)[i - 1]
    BY <1>3, <2>1
  <2>4. Length(s) \in Nat /\ Ends(t)[i - 1] \in Nat
    BY <1>1, <2>1, LegalEnds
  <2>5. d[j].at = (n + Length(s)) + Ends(t)[i - 1]
    BY <2>2, <2>3, <2>4
  <2>. QED BY <1>2, <2>2, <2>5
<1>. QED BY <1>5, <1>6

\* What was laid out stays so when the next address is recorded.
LEMMA LaidOutStays ==
  ASSUME NEW c, NEW n \in Nat, NEW b, NEW d, Keeps(b, d), NEW ad, NEW ae, Agree(ad, ae, n),
         NEW bytes, ae[n + 1] = bytes, LaidOut(c, n, b, ad, bytes)
  PROVE  /\ LaidOut(c, n, d, ae, bytes) /\ ae[1] = Length(Prologue)
         /\ \A k \in 1 .. n :
               c[k].op # "op_ret" => ae[k + 1] = ae[k] + CodeLength(c[k], ae[k])
<1>1. \A k \in 1 .. n : ae[k] = ad[k]
  BY DEF Agree
<1>2. ASSUME NEW k \in 0 .. n
      PROVE  Begins(k, ae, n, bytes) = ae[k + 1] /\ Begins(k, ad, n, bytes) = ae[k + 1]
  <2>1. CASE k = n
    BY <2>1 DEF Begins
  <2>2. CASE k # n
    <3>1. k + 1 \in 1 .. n
      BY <2>2
    <3>. QED BY <1>1, <2>2, <3>1 DEF Begins
  <2>. QED BY <2>1, <2>2
<1>3. 0 \in 0 .. n /\ 0 + 1 = 1
  OBVIOUS
<1>4. Begins(0, ae, n, bytes) = Length(Prologue) /\ ae[1] = Length(Prologue)
  BY <1>2, <1>3 DEF LaidOut
<1>5. ASSUME NEW k \in 1 .. n
      PROVE  /\ CodeHeld(c[k], d, ae[k])
             /\ c[k].op # "op_ret" =>
                  /\ ae[k + 1] = ae[k] + CodeLength(c[k], ae[k])
                  /\ Begins(k, ae, n, bytes) = ae[k] + CodeLength(c[k], ae[k])
  <2>1. /\ CodeHeld(c[k], b, ad[k])
        /\ c[k].op # "op_ret" =>
             Begins(k, ad, n, bytes) = ad[k] + CodeLength(c[k], ad[k])
    BY DEF LaidOut
  <2>2. CodeHeld(c[k], d, ad[k])
    BY <2>1, HoldsStay DEF CodeHeld
  <2>. QED BY <1>1, <1>2, <2>1, <2>2
<1>6. Holds(d, Prologue, 0)
  BY HoldsStay DEF LaidOut
<1>. QED BY <1>4, <1>5, <1>6 DEF LaidOut

\* One more opcode.
LEMMA LaidOutGrows ==
  ASSUME NEW c, NEW n \in Nat, NEW b, NEW d, Keeps(b, d), NEW ad, NEW ae, Agree(ad, ae, n),
         NEW bytes, ae[n + 1] = bytes, LaidOut(c, n, b, ad, bytes),
         CodeHeld(c[n + 1], d, bytes),
         NEW more, more = bytes + CodeLength(c[n + 1], bytes)
  PROVE  LaidOut(c, n + 1, d, ae, more)
<1>1. /\ LaidOut(c, n, d, ae, bytes) /\ ae[1] = Length(Prologue)
      /\ \A k \in 1 .. n :
            c[k].op # "op_ret" => ae[k + 1] = ae[k] + CodeLength(c[k], ae[k])
  BY LaidOutStays
<1>2. ASSUME NEW k \in 1 .. (n + 1)
      PROVE  /\ CodeHeld(c[k], d, ae[k])
             /\ c[k].op # "op_ret" =>
                  Begins(k, ae, n + 1, more) = ae[k] + CodeLength(c[k], ae[k])
  <2>1. CASE k = n + 1
    BY <2>1 DEF Begins
  <2>2. CASE k # n + 1
    <3>1. k \in 1 .. n
      BY <2>2
    <3>. QED BY <1>1, <2>2, <3>1 DEF Begins, LaidOut
  <2>. QED BY <2>1, <2>2
<1>3. Begins(0, ae, n + 1, more) = Length(Prologue)
  <2>1. 0 # n + 1 /\ 0 + 1 = 1
    OBVIOUS
  <2>. QED BY <1>1, <2>1 DEF Begins
<1>. QED BY <1>1, <1>2, <1>3 DEF LaidOut

\* An opcode that is no definition is compiled.
LEMMA EmitOpLayout ==
  ASSUME CompilerInv, LayoutInv, EmitOp(Template(opc)), ~Fail
  PROVE  LayoutInv'
<1>. DEFINE t == Template(opc)
            n == fn.pc
<1>1. /\ Compiling /\ opc.op # "op_def_lambda" /\ Push(t) /\ Record(n)
      /\ fns' = [fns EXCEPT ![Len(fns)].pc = @ + 1]
      /\ UNCHANGED <<code, phase>>
  BY DEF EmitOp
<1>2. /\ phase = "compile" /\ CompilerTypes
      /\ fns \in Seq(Calls) /\ fns # << >> /\ Len(fns) \in DOMAIN fns /\ Nested(code, fns)
      /\ fn = fns[Len(fns)] /\ n < fn.end /\ n \in Nat
      /\ opc = code[n + 1] /\ opc \in Opcode
      /\ Compiled = n /\ n + 1 \in 1 .. Len(addrs)
  BY <1>1, AtOpcode
<1>3. t \in Seq(Legal)
  BY <1>1, <1>2, OpTemplate
<1>4. LaidOut(code, n, buffer, addrs, size)
  BY <1>2 DEF LayoutInv
<1>5. Len(fns') = Len(fns) /\ fns'[Len(fns)].pc = n + 1
  <2>1. fns[Len(fns)].pc < fns[Len(fns)].end /\ code \in Seq(Opcode)
    BY <1>2 DEF CompilerTypes
  <2>2. fns \in Seq(Calls) /\ fns # << >> /\ Nested(code, fns) /\ fns' = Advanced(fns)
    BY <1>1, <1>2 DEF Advanced
  <2>3. Len(fns') = Len(fns) /\ fns'[Len(fns)].pc = fns[Len(fns)].pc + 1
    BY ONLY <1>2, <2>1, <2>2, CallAdvances
  <2>. QED BY <1>2, <2>3
<1>6. CodeLength(opc, size) = Length(t)
  BY <1>1 DEF CodeLength
<1>7. Holds(buffer', t, size) => CodeHeld(opc, buffer', size)
  BY <1>1 DEF CodeHeld
<1>. HIDE DEF t, n
<1>8. /\ size \in Nat /\ size' = size + Length(t) /\ Continues(buffer', buffer, t, size)
      /\ Keeps(buffer, buffer') /\ Agree(addrs, addrs', n) /\ addrs'[n + 1] = size
  BY <1>1, <1>2, <1>3, CodeGrows
<1>9. CodeHeld(code[n + 1], buffer', size)
  BY <1>2, <1>7, <1>8, PushedHolds
<1>10. size' = size + CodeLength(code[n + 1], size)
  BY <1>2, <1>6, <1>8
<1>11. LaidOut(code, n + 1, buffer', addrs', size')
  BY <1>2, <1>4, <1>8, <1>9, <1>10, LaidOutGrows
<1>12. Compiled' = n + 1
  BY <1>1, <1>2, <1>5 DEF Compiled
<1>. QED BY <1>1, <1>2, <1>11, <1>12 DEF LayoutInv

\* NOPs and prologue of a body.
LEMMA AlignedHeld ==
  ASSUME NEW b, size \in Nat, Holds(b, Aligned(Prologue), size)
  PROVE  /\ PaddingAt(size) # 0 => Holds(b, Nops(size), size)
         /\ Holds(b, Prologue, size + PaddingAt(size))
         /\ Length(Aligned(Prologue)) = PaddingAt(size) + Length(Prologue)
<1>1. Padding = PaddingAt(size) /\ Padding \in 0 .. 15
  BY AlignedTemplate DEF Padding, PaddingAt
<1>2. Prologue \in Seq(Legal) /\ Length(Prologue) \in Nat
  BY FixedTemplates, LegalEnds
<1>3. CASE Padding = 0
  BY <1>1, <1>2, <1>3 DEF Aligned
<1>4. CASE Padding # 0
  <2>. DEFINE x == Ins("nop", "", Padding)
  <2>1. x \in Legal /\ x.len = Padding
    <3>1. "" \in Operand /\ "nop" \in InsNames /\ Padding \in Nat \ {0}
      BY <1>1, <1>4 DEF Operand, InsNames, Names
    <3>. QED BY <3>1, PlainIns DEF Ins
  <2>2. Aligned(Prologue) = << x >> \o Prologue /\ Nops(size) = << x >>
    BY <1>1, <1>4 DEF Aligned, Nops
  <2>. HIDE DEF x
  <2>3. << x >> \in Seq(Legal) /\ Length(<< x >>) = Padding
    <3>1. x.len \in Nat
      BY <1>1, <2>1
    <3>2. Length(<< x >>) = x.len
      BY <3>1, ShortTemplates
    <3>. QED BY <2>1, <3>2
  <2>4. Holds(b, << x >>, size) /\ Holds(b, Prologue, size + Padding)
    BY <1>2, <2>2, <2>3, PartsHeld
  <2>5. Length(<< x >> \o Prologue) = Padding + Length(Prologue)
    <3>1. x \in Emission(InsNames, Operand) /\ Prologue \in Seq(Emission(InsNames, Operand))
      BY <1>2, <2>1, LegalTemplate DEF Legal
    <3>. QED BY <2>1, <3>1, PrefixedLength
  <2>. QED BY <1>1, <2>2, <2>4, <2>5
<1>. QED BY <1>3, <1>4

\* jit_compile_function calls itself for a body.
LEMMA EnterLambdaLayout ==
  ASSUME CompilerInv, LayoutInv, EnterLambda(Prologue), ~Fail
  PROVE  LayoutInv'
<1>. DEFINE t == Aligned(Prologue)
            n == fn.pc
<1>1. /\ Compiling /\ opc.op = "op_def_lambda" /\ Push(t) /\ Record(n)
      /\ fns' = Append(fns, [pc |-> n + 1, end |-> opc.num, entry |-> Entry])
      /\ UNCHANGED <<code, phase>>
  BY DEF EnterLambda
<1>2. /\ phase = "compile" /\ CompilerTypes
      /\ fns \in Seq(Calls) /\ fns # << >> /\ n \in Nat
      /\ opc = code[n + 1] /\ opc \in Opcode
      /\ Compiled = n /\ n + 1 \in 1 .. Len(addrs)
  BY <1>1, AtOpcode
<1>3. size \in Nat /\ t \in Seq(Legal)
  <2>1. size \in Nat
    BY <1>2, JitCapacityAssumption DEF CompilerTypes, BufferOK
  <2>. QED BY <2>1, AlignedTemplate
<1>4. LaidOut(code, n, buffer, addrs, size)
  BY <1>2 DEF LayoutInv
<1>5. Len(fns') = Len(fns) + 1 /\ fns'[Len(fns')].pc = n + 1
  BY <1>1, <1>2
<1>6. Holds(buffer', t, size) =>
        CodeHeld(opc, buffer', size) /\ CodeLength(opc, size) = Length(t)
  BY <1>1, <1>3, AlignedHeld DEF CodeHeld, CodeLength
<1>. HIDE DEF t, n
<1>7. /\ size' = size + Length(t) /\ Continues(buffer', buffer, t, size)
      /\ Keeps(buffer, buffer') /\ Agree(addrs, addrs', n) /\ addrs'[n + 1] = size
  BY <1>1, <1>2, <1>3, CodeGrows
<1>8. /\ CodeHeld(code[n + 1], buffer', size)
      /\ size' = size + CodeLength(code[n + 1], size)
  BY <1>2, <1>6, <1>7, PushedHolds
<1>9. LaidOut(code, n + 1, buffer', addrs', size')
  BY <1>2, <1>4, <1>7, <1>8, LaidOutGrows
<1>10. Compiled' = n + 1
  BY <1>1, <1>2, <1>5 DEF Compiled
<1>. QED BY <1>1, <1>2, <1>9, <1>10 DEF LayoutInv

\* The call for a body returns: its last opcode is an op_ret, behind which a
\* definition's own code may follow.
LEMMA LeaveLambdaLayout ==
  ASSUME CompilerInv, LayoutInv, LeaveLambda(Epilogue, Define(fn.entry)), ~Fail
  PROVE  LayoutInv'
<1>. DEFINE t == Epilogue \o Define(fn.entry)
            n == fn.pc
            top == Len(fns)
<1>1. /\ phase = "compile" /\ fn.pc >= fn.end /\ Len(fns) > 1 /\ Push(t) /\ Record(n)
      /\ fns' = [Front(fns) EXCEPT ![Len(fns) - 1].pc = fn.end]
      /\ UNCHANGED <<code, phase>>
  BY DEF LeaveLambda
<1>2. /\ CompilerTypes
      /\ fns \in Seq(Calls) /\ fns # << >> /\ top \in DOMAIN fns /\ Nested(code, fns)
      /\ fn = fns[top] /\ n = fn.end /\ n \in Nat /\ fn.entry \in Nat
      /\ Compiled = n /\ n + 1 \in 1 .. Len(addrs)
  BY <1>1, AtEnd
<1>3. t \in Seq(Legal)
  BY <1>2, FixedTemplates, DefineTemplate, Concatenated
<1>4. LaidOut(code, n, buffer, addrs, size)
  BY <1>1, <1>2 DEF LayoutInv
<1>5. Len(fns') = top - 1 /\ fns'[top - 1].pc = n /\ top \in Nat /\ top > 1
  <2>1. /\ fns \in Seq(Calls) /\ Len(fns) > 1 /\ Nested(code, fns) /\ code \in Seq(Opcode)
        /\ fns[Len(fns)].pc >= fns[Len(fns)].end /\ fns' = Left(fns)
    BY <1>1, <1>2 DEF CompilerTypes, Left, Front
  <2>2. /\ Len(fns') = Len(fns) - 1
        /\ \A i \in 1 .. (Len(fns) - 1) :
              fns'[i].pc = IF i = Len(fns) - 1 THEN fns[Len(fns)].pc ELSE fns[i].pc
    BY ONLY <2>1, CallLeaves
  <2>3. top \in Nat /\ top > 1 /\ top - 1 \in 1 .. (top - 1)
    BY <1>1, <1>2
  <2>. QED BY <1>2, <2>2, <2>3
<1>6. /\ n \in DOMAIN code /\ code[n].op = "op_ret" /\ n # 0
  <2>. DEFINE b == fns[top - 1].pc + 1
  <2>1. top - 1 \in DOMAIN fns /\ (top - 1) + 1 \in DOMAIN fns /\ (top - 1) + 1 = top
    BY <1>2, <1>5
  <2>2. b \in Defs(code) /\ code[b].num = fns[top].end
    BY <1>2, <2>1 DEF Nested
  <2>3. b \in DOMAIN code /\ code[b].op = "op_def_lambda"
    BY <2>2 DEF Defs
  <2>4. code[b].num \in DOMAIN code /\ code[code[b].num].op = "op_ret"
    BY <1>2, <2>3, BodyShape DEF CompilerTypes
  <2>5. 0 \notin DOMAIN code
    BY <1>2 DEF CompilerTypes
  <2>. QED BY <1>2, <2>2, <2>4, <2>5
<1>. HIDE DEF t, n, top
<1>7. /\ size \in Nat /\ size' = size + Length(t)
      /\ Keeps(buffer, buffer') /\ Agree(addrs, addrs', n) /\ addrs'[n + 1] = size
  BY <1>1, <1>2, <1>3, CodeGrows
<1>8. /\ LaidOut(code, n, buffer', addrs', size) /\ addrs'[1] = Length(Prologue)
      /\ \A k \in 1 .. n :
            code[k].op # "op_ret" => addrs'[k + 1] = addrs'[k] + CodeLength(code[k], addrs'[k])
  <2>1. n \in Nat
    BY <1>2
  <2>. QED BY ONLY <1>4, <1>7, <2>1, LaidOutStays
<1>9. LaidOut(code, n, buffer', addrs', size')
  <2>1. Begins(0, addrs', n, size') = Length(Prologue)
    <3>1. 0 + 1 = 1
      OBVIOUS
    <3>. QED BY <1>6, <1>8, <3>1 DEF Begins
  <2>2. ASSUME NEW k \in 1 .. n, code[k].op # "op_ret"
        PROVE  Begins(k, addrs', n, size') = addrs'[k] + CodeLength(code[k], addrs'[k])
    <3>1. k # n
      BY <1>6, <2>2
    <3>. QED BY <1>8, <2>2, <3>1 DEF Begins
  <2>. QED BY <1>8, <2>1, <2>2 DEF LaidOut
<1>10. Compiled' = n
  BY <1>1, <1>5 DEF Compiled
<1>. QED BY <1>1, <1>9, <1>10 DEF LayoutInv

\* The main function is compiled, and the thunk.
LEMMA LeaveMainLayout ==
  ASSUME CompilerInv, LayoutInv, LeaveMain(Epilogue, Thunk), ~Fail
  PROVE  LayoutInv'
<1>. DEFINE t == Epilogue \o Thunk
            n == fn.pc
<1>1. /\ phase = "compile" /\ fn.pc >= fn.end /\ Len(fns) = 1 /\ Push(t) /\ Record(n)
      /\ start' = size + Length(Epilogue) /\ phase' = "patch" /\ code' = code
  BY DEF LeaveMain
<1>2. /\ CompilerTypes
      /\ Nested(code, fns)
      /\ fn = fns[Len(fns)] /\ n = fn.end /\ n \in Nat
      /\ Compiled = n /\ n + 1 \in 1 .. Len(addrs)
  BY <1>1, AtEnd
<1>3. n = Len(code)
  BY <1>1, <1>2 DEF Nested
<1>4. t \in Seq(Legal)
  BY FixedTemplates, Concatenated
<1>5. LaidOut(code, n, buffer, addrs, size)
  BY <1>1, <1>2 DEF LayoutInv
<1>6. ASSUME size \in Nat, Holds(buffer', t, size)
      PROVE  Holds(buffer', Epilogue, size) /\ Holds(buffer', Thunk, size + Length(Epilogue))
  BY <1>6, FixedTemplates, PartsHeld
<1>. HIDE DEF t, n
<1>7. /\ size \in Nat /\ Continues(buffer', buffer, t, size)
      /\ Keeps(buffer, buffer') /\ Agree(addrs, addrs', n) /\ addrs'[n + 1] = size
  BY <1>1, <1>2, <1>4, CodeGrows
<1>8. LaidOut(code, n, buffer', addrs', size)
  <2>1. n \in Nat
    BY <1>2
  <2>. QED BY ONLY <1>5, <1>7, <2>1, LaidOutStays
<1>9. Holds(buffer', Epilogue, size) /\ Holds(buffer', Thunk, start')
  BY <1>1, <1>6, <1>7, PushedHolds
<1>. QED BY <1>1, <1>3, <1>7, <1>8, <1>9 DEF LayoutInv

\* patch_jumps() changes no more than operands.
LEMMA PatchLayout ==
  ASSUME CompilerInv, LayoutInv, PatchJump
  PROVE  LayoutInv'
<1>. DEFINE off == patch.instruction_offset
            rel == RelativeOffset(Target, off)
<1>1. phase = "patch" /\ next < Len(patches.data) /\ UNCHANGED <<code, phase, addrs, start>>
      /\ buffer' \in {Patched(off, rel), buffer}
  BY DEF PatchJump, PatchNext
<1>2. /\ buffer \in Seq(Emitted(InsNames, Operand)) /\ InOrder(buffer, size) /\ size \in Nat
  BY JitCapacityAssumption DEF CompilerInv, CompilerTypes, BufferOK
<1>3. PICK m \in DOMAIN buffer :
         /\ buffer[m].at = off /\ buffer[m].name \in {"je", "jne"} /\ buffer[m].len = 6
  BY <1>1, AtPatch
<1>4. off \in Nat
  BY <1>1, AtPatch
<1>. HIDE DEF off, rel
<1>5. ASSUME NEW j \in DOMAIN buffer
      PROVE  /\ j \in DOMAIN buffer' /\ buffer'[j].at = buffer[j].at
             /\ buffer'[j].name = buffer[j].name /\ buffer'[j].len = buffer[j].len
             /\ buffer[j].name \notin {"je", "jne"} => buffer'[j].arg = buffer[j].arg
  <2>1. buffer[j] \in Emitted(InsNames, Operand)
    BY <1>2
  <2>2. CASE buffer[j].at = off
    <3>1. j = m
      BY <1>2, <1>3, <2>2, Disjoint
    <3>2. Patched(off, rel)[j] = [buffer[j] EXCEPT !.arg = rel]
      BY <1>3, <2>2, <3>1 DEF Patched
    <3>3. j \in DOMAIN Patched(off, rel)
      BY DEF Patched
    <3>4. buffer[j].name \in {"je", "jne"}
      BY <1>3, <3>1
    <3>. QED BY <1>1, <2>1, <3>2, <3>3, <3>4 DEF Emitted
  <2>3. CASE buffer[j].at # off
    <3>1. buffer[j].at + buffer[j].len <= off \/ off + 6 <= buffer[j].at
      BY <1>2, <1>3, <2>3, Disjoint
    <3>2. buffer[j].at \in Nat /\ buffer[j].len \in Nat
      BY <1>2, Disjoint
    <3>3. ~(buffer[j].at < off + 6 /\ off + 2 < buffer[j].at + buffer[j].len)
      BY <1>4, <3>1, <3>2
    <3>4. j \in DOMAIN Patched(off, rel) /\ Patched(off, rel)[j] = buffer[j]
      BY <2>3, <3>3 DEF Patched
    <3>. QED BY <1>1, <3>4
  <2>. QED BY <2>2, <2>3
<1>6. ASSUME NEW t, NEW n, Holds(buffer, t, n) PROVE Holds(buffer', t, n)
  BY <1>5, <1>6 DEF Holds, Same
<1>7. ASSUME NEW o, NEW n, CodeHeld(o, buffer, n) PROVE CodeHeld(o, buffer', n)
  BY <1>6, <1>7 DEF CodeHeld
<1>8. /\ LaidOut(code, Len(code), buffer, addrs, addrs[Len(code) + 1])
      /\ Holds(buffer, Epilogue, addrs[Len(code) + 1]) /\ Holds(buffer, Thunk, start)
      /\ start = addrs[Len(code) + 1] + Length(Epilogue)
  BY <1>1 DEF LayoutInv
<1>9. LaidOut(code, Len(code), buffer', addrs, addrs[Len(code) + 1])
  BY <1>6, <1>7, <1>8 DEF LaidOut
<1>. QED BY <1>1, <1>6, <1>8, <1>9 DEF LayoutInv

LEMMA LayoutStays ==
  ASSUME LayoutInv, UNCHANGED <<code, fns, jit>>,
         \/ phase' = phase
         \/ phase' \notin {"compile", "patch", "run"}
         \/ phase = "patch" /\ phase' = "run"
  PROVE  LayoutInv'
<1>1. UNCHANGED <<code, fns, buffer, size, addrs, start>>
  BY DEF jit
<1>2. Compiled' = Compiled \/ ~(phase' = "compile")
  BY <1>1 DEF Compiled
<1>. QED BY <1>1, <1>2 DEF LayoutInv

\* No step leaves the invariant.
LEMMA NextKeepsLayout ==
  ASSUME CompilerInv, LayoutInv, [Next]_vars
  PROVE  LayoutInv'
<1>1. CASE Compile \/ CallThunk
  <2>1. CASE phase' = "failed"
    BY <2>1 DEF LayoutInv
  <2>2. CASE EnterMain(Prologue) /\ phase' # "failed"
    <3>1. /\ fns' = << [pc |-> 0, end |-> Len(code), entry |-> 0] >> /\ phase' = "compile"
          /\ Push(Prologue) /\ phase = "enter"
      BY <2>2 DEF EnterMain, Fail
    <3>2. buffer = << >> /\ size = 0 /\ BufferOK
      BY <3>1 DEF CompilerInv, CompilerTypes
    <3>3. Length(Prologue) \in Nat /\ size' = 0 + Length(Prologue)
          /\ Continues(buffer', buffer, Prologue, 0)
      BY <3>1, <3>2, FixedTemplates, PushStep
    <3>4. fns'[Len(fns')].pc = 0
      BY <3>1
    <3>5. Compiled' = 0
      BY <3>1, <3>4 DEF Compiled
    <3>6. Holds(buffer', Prologue, 0) /\ size' = Length(Prologue)
      BY <3>3, PushedHolds
    <3>7. LaidOut(code', 0, buffer', addrs', size')
      BY <3>6 DEF LaidOut, Begins
    <3>. QED BY <3>1, <3>5, <3>7 DEF LayoutInv
  <2>3. CASE CallThunk /\ phase' # "failed"
    <3>1. phase = "patch" /\ phase' = "run" /\ UNCHANGED <<code, fns, jit>>
      BY <2>3 DEF CallThunk, Fail
    <3>. QED BY <3>1, LayoutStays
  <2>4. phase' # "failed" => ~Fail
    BY DEF Fail
  <2>5. CASE MapBuffer \/ AllocAddresses
    <3>1. phase' \in {"calloc", "enter", "failed"}
      BY <2>5 DEF MapBuffer, AllocAddresses
    <3>. QED BY <3>1 DEF LayoutInv
  <2>. QED BY <1>1, <2>1, <2>2, <2>3, <2>4, <2>5, EmitOpLayout, EnterLambdaLayout, LeaveLambdaLayout,
             LeaveMainLayout DEF Compile
<1>2. CASE PatchJump
  BY <1>2, PatchLayout
<1>3. CASE Run
  <2>1. CASE UNCHANGED <<code, phase, fns, jit>>
    BY <2>1, LayoutStays
  <2>2. CASE phase' \in {"returned", "undefined"}
    BY <2>2 DEF LayoutInv
  <2>. QED BY <1>3, <2>1, <2>2 DEF Run, PushReg, PopReg, SetReg, CallMain, Ret, WriteMem, TestMem,
                                   CondJump, GetChar, PutChar, Undefined
<1>4. CASE UNCHANGED vars
  BY <1>4, LayoutStays DEF vars
<1>. QED BY <1>1, <1>2, <1>3, <1>4 DEF Next

-----------------------------------------------------------------------------
(* One step of the processor.                                              *)

\* The instructions that go on to the next one and leave the stack alone.
Straight ==
  {"mov_rbp_rsp", "mov_rbx_tape", "add_rbx", "add_mem", "clear_mem", "test_mem",
   "getchar", "putchar", "nop", "mov_r12_rip"}

LEMMA TemplateShapes ==
  /\ Len(Prologue) = 4 /\ Prologue[2].name = "mov_rbp_rsp"
  /\ \A i \in {1, 3, 4} : Prologue[i].name = "push"
  /\ Len(Epilogue) = 4 /\ Epilogue[4].name = "ret"
  /\ \A i \in {1, 2, 3} : Epilogue[i].name = "pop"
  /\ Len(Thunk) = 3 /\ Thunk[1].name = "mov_rbx_tape" /\ Thunk[2].name = "call_main"
  /\ Thunk[3].name = "ret"
  /\ Len(CallLambda) = 5 /\ CallLambda[1].name = "mov_r12_rip"
  /\ CallLambda[2].name = "literal"
<1>1. /\ Len(Prologue) = 4 /\ Prologue[1].name = "push" /\ Prologue[2].name = "mov_rbp_rsp"
      /\ Prologue[3].name = "push" /\ Prologue[4].name = "push"
  BY DEF Prologue, Ins
<1>2. /\ Len(Epilogue) = 4 /\ Epilogue[1].name = "pop" /\ Epilogue[2].name = "pop"
      /\ Epilogue[3].name = "pop" /\ Epilogue[4].name = "ret"
  BY DEF Epilogue, Ins
<1>3. /\ Len(Thunk) = 3 /\ Thunk[1].name = "mov_rbx_tape" /\ Thunk[2].name = "call_main"
      /\ Thunk[3].name = "ret"
  BY DEF Thunk, Ins
<1>4. /\ Len(CallLambda) = 5 /\ CallLambda[1].name = "mov_r12_rip"
      /\ CallLambda[2].name = "literal"
  BY DEF CallLambda, Ins
<1>. QED BY <1>1, <1>2, <1>3, <1>4

\* The code of any opcode but those of the lambda syntax.
LEMMA OtherShapes ==
  ASSUME NEW o \in Opcode, o.op \notin {"op_def_lambda", "op_ret", "op_call"},
         NEW t, t = Template(o)
  PROVE  /\ t[1].name \in Straight
         /\ ~IsJump(o) => Len(t) = 1
         /\ IsJump(o) => Len(t) = 2 /\ t[2].name \in {"je", "jne"}
<1>1. o.op \in OpType
  BY DEF Opcode
<1>2. CASE IsJump(o)
  <2>1. Len(t) = 2 /\ t[2].name \in {"je", "jne"}
    BY <1>2, JumpTemplate DEF JumpName, IsJump
  <2>2. t[1].name = "test_mem"
    BY <1>2 DEF IsJump, Template, Ins
  <2>. QED BY <1>2, <2>1, <2>2 DEF Straight
<1>3. CASE ~IsJump(o)
  <2>1. o.op \in {"op_add", "op_sub", "op_addp", "op_subp", "op_in", "op_out", "op_clear"}
    BY <1>1, <1>3 DEF OpType, IsJump
  <2>2. CASE o.op \in {"op_add", "op_sub"}
    BY <2>2 DEF Template, Ins, Straight, IsJump
  <2>3. CASE o.op \in {"op_addp", "op_subp"}
    BY <2>3 DEF Template, Ins, Straight, IsJump
  <2>4. CASE o.op \in {"op_in", "op_out", "op_clear"}
    BY <2>4 DEF Template, Ins, Straight, IsJump
  <2>. QED BY <2>1, <2>2, <2>3, <2>4
<1>. QED BY <1>2, <1>3

\* The processor at an instruction of a template that is in the buffer.
LEMMA AtTemplate ==
  ASSUME CompilerInv, phase = "run", NEW t \in Seq(Legal), NEW n \in Nat,
         Holds(buffer, t, n), NEW i \in 1 .. Len(t), AtStep(t, n, i)
  PROVE  /\ \A names : Here(names) <=> t[i].name \in names
         /\ Current.name = t[i].name /\ Current.at = ip
         /\ t[i].name \notin {"je", "jne"} => Current.arg = t[i].arg
         /\ ip + Current.len = n + Ends(t)[i]
<1>1. PICK j \in DOMAIN buffer : /\ buffer[j].at = n + Ends(t)[i - 1]
                                 /\ buffer[j].name = t[i].name /\ buffer[j].len = t[i].len
                                 /\ t[i].name \notin {"je", "jne"} => buffer[j].arg = t[i].arg
  BY DEF Holds, Same
<1>2. buffer[j].at = ip
  BY <1>1 DEF AtStep
<1>3. buffer \in Seq(Emitted(InsNames, Operand)) /\ InOrder(buffer, size) /\ size \in Nat
  BY JitCapacityAssumption DEF CompilerInv, CompilerTypes, BufferOK
<1>4. \A k \in DOMAIN buffer : buffer[k].at = ip => k = j
  BY <1>2, <1>3, Disjoint
<1>. DEFINE m == CHOOSE k \in DOMAIN buffer : buffer[k].at = ip
<1>5. m = j
  <2>1. m \in DOMAIN buffer /\ buffer[m].at = ip
    BY <1>2
  <2>. HIDE DEF m
  <2>. QED BY <1>4, <2>1
<1>6. Current = buffer[j]
  BY <1>5 DEF Current
<1>7. ip + Current.len = n + Ends(t)[i]
  <2>1. Ends(t)[i - 1] \in Nat /\ t[i].len \in Nat /\ Ends(t)[i] = Ends(t)[i - 1] + t[i].len
    <3>1. Len(t) \in Nat
      BY LegalEnds
    <3>2. i - 1 \in 0 .. Len(t)
      BY <3>1
    <3>. QED BY <3>2, LegalEnds
  <2>. QED BY <1>1, <1>2, <1>6, <2>1
<1>8. ASSUME NEW names PROVE Here(names) <=> t[i].name \in names
  BY <1>1, <1>2, <1>4 DEF Here
<1>. QED BY <1>1, <1>2, <1>6, <1>7, <1>8

\* What it does there, by the name of the instruction.
LEMMA RunStepIs ==
  ASSUME CompilerInv, MachineInv, phase = "run", phase' = "run", Run,
         NEW name, \A names : Here(names) <=> name \in names, Current.name = name
  PROVE  /\ UNCHANGED <<code, addrs, start>> /\ name \in Names
         /\ name = "push" => /\ Forward
                             /\ \E v \in AnyValue : v.base # "buffer" /\ stack' = Append(stack, v)
         /\ name = "pop" => Forward /\ stack # << >> /\ stack' = Front(stack)
         /\ name = "ret" => /\ stack # << >> /\ Last(stack).base = "buffer"
                            /\ ip' = Last(stack).off /\ stack' = Front(stack)
         /\ name = "call_main" =>
              ip' = 0 /\ stack' = Append(stack, Value("buffer", ip + Current.len))
         /\ name \in {"je", "jne"} =>
              stack' = stack /\ ip' \in {ip + Current.len, ip + Current.len + Current.arg}
         /\ name \in Straight => stack' = stack /\ Forward
<1>1. CASE PushReg
  <2>1. /\ Here({"push"}) /\ Forward /\ stack' = Append(stack, regs[Current.arg])
        /\ UNCHANGED <<code, jit>>
    BY <1>1 DEF PushReg
  <2>2. name = "push"
    BY <2>1
  <2>3. regs[Current.arg] \in AnyValue /\ regs[Current.arg].base # "buffer"
    <3>1. Current.arg \in Registers
      BY <2>1, AtIns DEF Usable
    <3>. QED BY <3>1 DEF MachineInv
  <2>. QED BY <2>1, <2>2, <2>3 DEF jit, Names, Straight
<1>2. CASE PopReg
  <2>1. Here({"pop"}) /\ OnTrack /\ Forward /\ stack' = Front(stack) /\ UNCHANGED <<code, jit>>
    BY <1>2 DEF PopReg
  <2>2. name = "pop" /\ stack # << >>
    BY <2>1 DEF OnTrack
  <2>. QED BY <2>1, <2>2 DEF jit, Names, Straight
<1>3. CASE Ret
  <2>1. Here({"ret"}) /\ OnTrack /\ stack' = Front(stack)
    BY <1>3 DEF Ret
  <2>2. Last(stack).base = "buffer" /\ ip' = Last(stack).off /\ UNCHANGED <<code, jit>>
    BY <1>3 DEF Ret
  <2>3. name = "ret" /\ stack # << >>
    BY <2>1 DEF OnTrack
  <2>. QED BY <2>1, <2>2, <2>3 DEF jit, Names, Straight
<1>4. CASE CallMain
  <2>1. /\ Here({"call_main"}) /\ stack' = Append(stack, Value("buffer", ip + Current.len))
        /\ ip' = 0 /\ UNCHANGED <<code, jit>>
    BY <1>4 DEF CallMain
  <2>2. name = "call_main"
    BY <2>1
  <2>. QED BY <2>1, <2>2 DEF jit, Names, Straight
<1>5. CASE CondJump
  <2>1. /\ Here({"je", "jne"}) /\ UNCHANGED <<code, jit, stack>>
        /\ ip' = ip + Current.len + (IF zf = (Current.name = "je") THEN Current.arg ELSE 0)
    BY <1>5 DEF CondJump
  <2>2. name \in {"je", "jne"}
    BY <2>1
  <2>3. ip' \in {ip + Current.len, ip + Current.len + Current.arg}
    <3>1. ip + Current.len \in Int
      BY <2>1, AtIns DEF MachineInv
    <3>. QED BY <2>1, <3>1
  <2>. QED BY <2>1, <2>2, <2>3 DEF jit, Names, Straight
<1>6. CASE SetReg \/ WriteMem \/ TestMem \/ GetChar \/ PutChar
  <2>1. Here(Straight) /\ Forward /\ UNCHANGED <<code, jit, stack>>
    BY <1>6 DEF SetReg, WriteMem, TestMem, GetChar, PutChar, Here, Straight
  <2>2. name \in Straight
    BY <2>1
  <2>. QED BY <2>1, <2>2 DEF jit, Names, Straight
<1>7. ~Undefined
  BY DEF Undefined
<1>. QED BY <1>1, <1>2, <1>3, <1>4, <1>5, <1>6, <1>7 DEF Run

\* Opcode k in a buffer that is laid out.
CodeAt(k) ==
  /\ k \in Nat /\ k + 1 \in 1 .. (Len(code) + 1) /\ addrs[k] \in Nat
  /\ CodeHeld(code[k], buffer, addrs[k])
  /\ code[k].op # "op_ret" =>
       addrs[k + 1] = addrs[k] + CodeLength(code[k], addrs[k])

\* What the invariants say of a program that runs.
LEMMA LayoutFacts ==
  ASSUME CompilerInv, LayoutInv, phase = "run"
  PROVE  /\ code \in Seq(Opcode) /\ WellFormed(code) /\ Len(code) \in Nat
         /\ start \in Nat /\ \A k \in 1 .. (Len(code) + 1) : addrs[k] \in Nat
         /\ Holds(buffer, Prologue, 0) /\ Holds(buffer, Thunk, start)
         /\ Holds(buffer, Epilogue, addrs[Len(code) + 1])
         /\ start = addrs[Len(code) + 1] + Length(Epilogue)
         /\ addrs[1] = Length(Prologue)
         /\ \A k \in DOMAIN code : CodeAt(k)
<1>1. /\ code \in Seq(Opcode) /\ WellFormed(code) /\ addrs \in Seq(Nat)
      /\ Len(addrs) = Len(code) + 1 /\ start \in Nat
  BY DEF CompilerInv, CompilerTypes
<1>2. \A k \in 1 .. (Len(code) + 1) : addrs[k] \in Nat
  BY <1>1
<1>3. /\ LaidOut(code, Len(code), buffer, addrs, addrs[Len(code) + 1])
      /\ Holds(buffer, Epilogue, addrs[Len(code) + 1]) /\ Holds(buffer, Thunk, start)
      /\ start = addrs[Len(code) + 1] + Length(Epilogue)
  BY DEF LayoutInv
<1>4. Len(code) \in Nat /\ DOMAIN code = 1 .. Len(code)
  BY <1>1
<1>5. \A k \in 0 .. Len(code) :
        Begins(k, addrs, Len(code), addrs[Len(code) + 1]) = addrs[k + 1]
  BY <1>4 DEF Begins
<1>6. addrs[1] = Length(Prologue) /\ Holds(buffer, Prologue, 0)
  <2>1. 0 \in 0 .. Len(code) /\ 0 + 1 = 1
    BY <1>4
  <2>. QED BY <1>3, <1>5, <2>1 DEF LaidOut
<1>7. ASSUME NEW k \in DOMAIN code PROVE CodeAt(k)
  <2>1. k \in 0 .. Len(code) /\ k \in 1 .. (Len(code) + 1) /\ k + 1 \in 1 .. (Len(code) + 1)
    BY <1>4
  <2>. QED BY <1>2, <1>3, <1>4, <1>5, <2>1 DEF LaidOut, CodeAt
<1>. QED BY <1>1, <1>2, <1>3, <1>4, <1>6, <1>7

-----------------------------------------------------------------------------
(* Where a step leads.                                                     *)

Running ==
  /\ CompilerInv /\ MachineInv /\ LayoutInv /\ Framed
  /\ phase = "run" /\ Run /\ phase' = "run"

LEMMA FramedGrows ==
  ASSUME MachineInv, Framed, start' = start, NEW v \in AnyValue, stack' = Append(stack, v),
         v.base = "buffer" <=> Len(stack) = 1,
         Len(stack) = 1 => v.off = start + Ends(Thunk)[2]
  PROVE  Framed' /\ Len(stack') = Len(stack) + 1
<1>. DEFINE h == Len(stack)
<1>1. h \in Nat /\ DOMAIN stack = 1 .. h /\ stack \in Seq(AnyValue)
  BY DEF MachineInv
<1>2. /\ Len(stack') = h + 1 /\ DOMAIN stack' = 1 .. (h + 1)
      /\ \A i \in 1 .. (h + 1) : stack'[i] = IF i = h + 1 THEN v ELSE stack[i]
  BY <1>1
<1>3. /\ v.base = "buffer" <=> h = 1
      /\ h = 1 => v.off = start + Ends(Thunk)[2]
  OBVIOUS
<1>. HIDE DEF h
<1>4. ASSUME NEW i \in 1 .. (h + 1)
      PROVE  /\ stack'[i].base = "buffer" <=> i = 2
             /\ i = 2 => stack'[2].off = start + Ends(Thunk)[2]
  <2>1. CASE i = h + 1
    <3>1. stack'[i] = v /\ (h = 1 <=> i = 2)
      BY <1>1, <1>2, <2>1
    <3>. QED BY <1>3, <3>1
  <2>2. CASE i # h + 1
    <3>1. i \in DOMAIN stack
      BY <1>1, <2>2
    <3>. QED BY <1>2, <2>2, <3>1 DEF Framed
  <2>. QED BY <2>1, <2>2
<1>. QED BY <1>2, <1>4 DEF Framed, h

LEMMA FramedShrinks ==
  ASSUME MachineInv, Framed, start' = start, stack # << >>, stack' = Front(stack)
  PROVE  /\ Framed' /\ Len(stack) \in Nat \ {0} /\ Len(stack') = Len(stack) - 1
         /\ Last(stack).base = "buffer" <=> Len(stack) = 2
         /\ Last(stack).base = "buffer" => Last(stack).off = start + Ends(Thunk)[2]
<1>1. stack \in Seq(AnyValue) /\ Len(stack) \in Nat \ {0} /\ Len(stack) \in DOMAIN stack
  BY DEF MachineInv
<1>2. Last(stack) = stack[Len(stack)] /\ stack' = SubSeq(stack, 1, Len(stack) - 1)
  BY DEF Last, Front
<1>3. /\ Len(stack') = Len(stack) - 1 /\ DOMAIN stack' = 1 .. (Len(stack) - 1)
      /\ \A i \in 1 .. (Len(stack) - 1) : stack'[i] = stack[i] /\ i \in DOMAIN stack
  <2>1. stack' = SubSeq(stack, 1, Len(stack) - 1)
    BY <1>2
  <2>2. /\ stack' \in Seq(AnyValue) /\ DOMAIN stack' = 1 .. (Len(stack) - 1)
        /\ \A i \in 1 .. (Len(stack) - 1) : stack'[i] = stack[i] /\ i \in DOMAIN stack
    BY ONLY <1>1, <2>1
  <2>3. Len(stack') = Len(stack) - 1
    <3>1. Len(stack') \in Nat /\ DOMAIN stack' = 1 .. Len(stack')
      BY ONLY <2>2
    <3>. QED BY ONLY <1>1, <2>2, <3>1
  <2>. QED BY <2>2, <2>3
<1>4. Framed'
  <2>1. ASSUME NEW i \in 1 .. (Len(stack) - 1)
        PROVE  /\ stack'[i].base = "buffer" <=> i = 2
               /\ i = 2 => stack'[2].off = start + Ends(Thunk)[2]
    BY <1>3 DEF Framed
  <2>. QED BY <1>3, <2>1 DEF Framed
<1>5. /\ Last(stack).base = "buffer" <=> Len(stack) = 2
      /\ Last(stack).base = "buffer" => Last(stack).off = start + Ends(Thunk)[2]
  BY <1>1, <1>2 DEF Framed
<1>. QED BY <1>1, <1>3, <1>4, <1>5

LEMMA RunningFacts ==
  ASSUME Running
  PROVE  /\ code \in Seq(Opcode) /\ WellFormed(code) /\ Len(code) \in Nat
         /\ start \in Nat /\ \A k \in 1 .. (Len(code) + 1) : addrs[k] \in Nat
         /\ Holds(buffer, Prologue, 0) /\ Holds(buffer, Thunk, start)
         /\ Holds(buffer, Epilogue, addrs[Len(code) + 1])
         /\ addrs[1] = Length(Prologue)
         /\ \A k \in DOMAIN code : CodeAt(k)
         /\ Len(stack) \in Nat /\ UNCHANGED <<code, addrs, start>>
<1>1. Len(stack) \in Nat
  BY DEF Running, MachineInv
<1>2. UNCHANGED <<code, addrs, start>>
  BY DEF Running, Run, PushReg, PopReg, SetReg, CallMain, Ret, WriteMem, TestMem, CondJump,
         GetChar, PutChar, Undefined, jit
<1>. QED BY <1>1, <1>2, LayoutFacts DEF Running

\* What a step from instruction i of a template does.
LEMMA StepFrom ==
  ASSUME Running, NEW t \in Seq(Legal), NEW n \in Nat, Holds(buffer, t, n),
         NEW i \in 1 .. Len(t), AtStep(t, n, i)
  PROVE  /\ t[i].name \in Names
         /\ t[i].name \in Straight => Framed' /\ stack' = stack /\ ip' = n + Ends(t)[i]
         /\ t[i].name = "push" /\ Len(stack) >= 2 =>
              Framed' /\ Len(stack') = Len(stack) + 1 /\ ip' = n + Ends(t)[i]
         /\ t[i].name = "pop" => Framed' /\ Len(stack') = Len(stack) - 1 /\ ip' = n + Ends(t)[i]
         /\ t[i].name = "ret" => /\ Framed' /\ Len(stack) = 2 /\ Len(stack') = 1
                                 /\ ip' = start + Ends(Thunk)[2]
         /\ t[i].name = "call_main" /\ Len(stack) = 1
              /\ n + Ends(t)[i] = start + Ends(Thunk)[2] =>
              Framed' /\ Len(stack') = 2 /\ ip' = 0
         /\ t[i].name \in {"je", "jne"} =>
              /\ Framed' /\ stack' = stack
              /\ ip' \in {n + Ends(t)[i], n + Ends(t)[i] + Current.arg}
<1>1. CompilerInv /\ MachineInv /\ Framed /\ phase = "run" /\ phase' = "run" /\ Run
  BY DEF Running
<1>2. /\ \A names : Here(names) <=> t[i].name \in names
      /\ Current.name = t[i].name /\ ip + Current.len = n + Ends(t)[i]
  BY <1>1, AtTemplate
<1>. DEFINE name == t[i].name
<1>3. /\ start' = start /\ name \in Names
      /\ name = "push" => /\ Forward
                          /\ \E v \in AnyValue : v.base # "buffer" /\ stack' = Append(stack, v)
      /\ name = "pop" => Forward /\ stack # << >> /\ stack' = Front(stack)
      /\ name = "ret" => /\ stack # << >> /\ Last(stack).base = "buffer"
                         /\ ip' = Last(stack).off /\ stack' = Front(stack)
      /\ name = "call_main" =>
           ip' = 0 /\ stack' = Append(stack, Value("buffer", ip + Current.len))
      /\ name \in {"je", "jne"} =>
           stack' = stack /\ ip' \in {ip + Current.len, ip + Current.len + Current.arg}
      /\ name \in Straight => stack' = stack /\ Forward
  BY <1>1, <1>2, RunStepIs
<1>4. Len(stack) \in Nat
  BY RunningFacts
<1>5. stack' = stack => Framed'
  BY <1>1, <1>3 DEF Framed
<1>6. Forward => ip' = n + Ends(t)[i]
  BY <1>2 DEF Forward
<1>7. CASE name = "push" /\ Len(stack) >= 2
  <2>1. PICK v \in AnyValue : v.base # "buffer" /\ stack' = Append(stack, v)
    BY <1>3, <1>7
  <2>2. Framed' /\ Len(stack') = Len(stack) + 1
    BY <1>1, <1>3, <1>4, <1>7, <2>1, FramedGrows
  <2>. QED BY <1>3, <1>6, <1>7, <2>2 DEF Straight
<1>8. CASE name \in {"pop", "ret"}
  <2>1. stack # << >> /\ stack' = Front(stack)
    BY <1>3, <1>8
  <2>2. /\ Framed' /\ Len(stack) \in Nat \ {0} /\ Len(stack') = Len(stack) - 1
        /\ Last(stack).base = "buffer" => Len(stack) = 2
        /\ Last(stack).base = "buffer" => Last(stack).off = start + Ends(Thunk)[2]
    BY <1>1, <1>3, <2>1, FramedShrinks
  <2>. QED BY <1>3, <1>6, <1>8, <2>2 DEF Straight
<1>9. CASE name = "call_main" /\ Len(stack) = 1 /\ n + Ends(t)[i] = start + Ends(Thunk)[2]
  <2>. DEFINE v == Value("buffer", ip + Current.len)
  <2>1. stack' = Append(stack, v) /\ ip' = 0
    BY <1>3, <1>9
  <2>2. v \in AnyValue /\ v.base = "buffer" /\ v.off = start + Ends(Thunk)[2]
    <3>1. ip + Current.len \in Int
      <4>1. Here({name})
        BY <1>2
      <4>2. Current.len \in Nat /\ ip \in Nat
        BY <1>1, <4>1, AtIns DEF MachineInv
      <4>. QED BY <4>2
    <3>. QED BY <1>2, <1>9, <3>1, ValueType
  <2>. HIDE DEF v
  <2>3. Framed' /\ Len(stack') = 2
    BY <1>1, <1>3, <1>9, <2>1, <2>2, FramedGrows
  <2>. QED BY <1>3, <1>9, <2>1, <2>3 DEF Straight
<1>10. CASE name \in {"je", "jne"}
  BY <1>2, <1>3, <1>5, <1>10 DEF Straight
<1>11. CASE name \in Straight
  BY <1>3, <1>5, <1>6, <1>11 DEF Straight
<1>. QED BY <1>3, <1>7, <1>8, <1>9, <1>10, <1>11

-----------------------------------------------------------------------------
(* Where the steps from each location lead.                                *)

\* The processor is where the code of opcode k begins, or the epilogue.
Arrival(k) ==
  /\ code \in Seq(Opcode) /\ WellFormed(code) /\ Len(stack) \in Nat
  /\ k \in 1 .. (Len(code) + 1) /\ addrs[k] \in Nat
  /\ ip = addrs[k] /\ DepthAt(k)

LEMMA Arrived == (\E l \in Nat : Arrival(l)) => Located
<1>. SUFFICES ASSUME NEW k \in Nat, Arrival(k) PROVE Located
  OBVIOUS
<1>1. /\ code \in Seq(Opcode) /\ WellFormed(code) /\ k \in 1 .. (Len(code) + 1)
      /\ addrs[k] \in Nat /\ ip = addrs[k] /\ DepthAt(k) /\ Len(stack) \in Nat
  BY DEF Arrival
<1>2. Len(code) \in Nat /\ DOMAIN code = 1 .. Len(code)
  BY <1>1
<1>3. /\ Len(Epilogue) = 4 /\ Ends(Epilogue)[0] = 0
      /\ Len(Prologue) = 4 /\ Ends(Prologue)[0] = 0
      /\ Len(CallLambda) = 5 /\ Ends(CallLambda)[0] = 0
  BY FixedTemplates, LegalEnds, TemplateShapes
<1>4. Len(stack) >= 5
  <2>. DEFINE h == Len(stack)
  <2>1. h \in Nat /\ (h >= 8 \/ h = 5)
    BY <1>1 DEF DepthAt
  <2>. HIDE DEF h
  <2>2. h >= 5
    BY <2>1
  <2>. QED BY <2>2 DEF h
<1>5. CASE k = Len(code) + 1
  <2>1. ASSUME NEW a \in Defs(code), k \in Body(code, a)
        PROVE  FALSE
    <3>1. a \in DOMAIN code /\ code[a].op = "op_def_lambda"
      BY DEF Defs
    <3>2. code[a].num \in (a + 1) .. Len(code)
      BY <1>1, <3>1, BodyShape
    <3>. QED BY <1>2, <1>5, <2>1, <3>1, <3>2 DEF Body
  <2>2. Len(stack) = 5
    BY <1>1, <2>1 DEF DepthAt, InBody
  <2>3. AtStep(Epilogue, addrs[Len(code) + 1], 1) /\ Len(stack) = 6 - 1
    BY <1>1, <1>3, <1>5, <2>2 DEF AtStep
  <2>4. 1 \in 1 .. 4
    OBVIOUS
  <2>. QED BY <2>3, <2>4 DEF InMainEpilogue, Located
<1>6. CASE k \in DOMAIN code
  <2>1. code[k] \in Opcode
    BY <1>1, <1>6
  <2>2. CASE code[k].op = "op_def_lambda"
    <3>1. CASE PaddingAt(addrs[k]) # 0
      BY <1>1, <1>4, <2>2, <3>1, <1>6 DEF InDefinition, InOp, Located
    <3>2. CASE PaddingAt(addrs[k]) = 0
      <4>1. AtStep(Prologue, addrs[k] + PaddingAt(addrs[k]), 1)
        BY <1>1, <1>3, <3>2 DEF AtStep
      <4>2. Len(stack) >= 5 + Saved[1] /\ 1 \in 1 .. 4
        BY <1>4 DEF Saved
      <4>3. InDefinition(k)
        BY <4>1, <4>2 DEF InDefinition
      <4>. QED BY <1>6, <2>2, <4>3 DEF InOp, Located
    <3>. QED BY <3>1, <3>2
  <2>3. CASE code[k].op = "op_ret"
    <3>1. PICK a \in Defs(code) : code[a].num = k
      BY <1>1, <1>6, <2>3 DEF WellFormed
    <3>2. a \in DOMAIN code /\ code[a].op = "op_def_lambda"
      BY DEF Defs
    <3>3. code[a].num \in (a + 1) .. Len(code)
      BY <1>1, <3>2, BodyShape
    <3>4. k \in Body(code, a)
      BY <1>2, <3>1, <3>2, <3>3 DEF Body
    <3>5. Len(stack) >= 8
      BY <1>1, <3>4 DEF DepthAt, InBody
    <3>6. AtStep(Epilogue, addrs[k], 1) /\ Len(stack) >= 9 - 1 /\ 1 \in 1 .. 4
      BY <1>1, <1>3, <3>5 DEF AtStep
    <3>7. InReturn(k)
      BY <3>6 DEF InReturn
    <3>. QED BY <1>6, <2>3, <3>7 DEF InOp, Located
  <2>4. CASE code[k].op = "op_call"
    <3>1. AtStep(CallLambda, addrs[k], 1) /\ 1 \in 1 .. 2
      BY <1>1, <1>3 DEF AtStep
    <3>2. InCall(k)
      BY <1>4, <3>1 DEF InCall
    <3>. QED BY <1>6, <2>4, <3>2 DEF InOp, Located
  <2>5. CASE code[k].op \notin {"op_def_lambda", "op_ret", "op_call"}
    <3>1. Len(Template(code[k])) \in {1, 2}
      BY <2>1, <2>5, OtherShapes
    <3>2. Template(code[k]) \in Seq(Legal)
      BY <2>1, <2>5, OpTemplate
    <3>3. AtStep(Template(code[k]), addrs[k], 1) /\ 1 \in 1 .. Len(Template(code[k]))
      <4>1. Ends(Template(code[k]))[1 - 1] = 0
        BY <3>2, LegalEnds
      <4>2. 1 \in 1 .. Len(Template(code[k]))
        BY <3>1
      <4>3. AtStep(Template(code[k]), addrs[k], 1)
        BY <1>1, <4>1 DEF AtStep
      <4>. QED BY <4>2, <4>3
    <3>4. InOther(k)
      BY <1>1, <3>3 DEF InOther
    <3>. QED BY <1>6, <2>5, <3>4 DEF InOp, Located
  <2>. QED BY <2>2, <2>3, <2>4, <2>5
<1>. QED BY <1>1, <1>2, <1>5, <1>6

\* A step to the code of opcode k.
LEMMA StepArrives ==
  ASSUME Running, NEW k \in 1 .. (Len(code) + 1), ip' = addrs[k],
         Len(stack') \in Nat,
         IF InBody(code, k) THEN Len(stack') >= 8 ELSE Len(stack') = 5
  PROVE  Located'
<1>1. /\ code \in Seq(Opcode) /\ WellFormed(code) /\ addrs[k] \in Nat
      /\ UNCHANGED <<code, addrs>> /\ Len(code) \in Nat
  BY RunningFacts
<1>2. k \in Nat
  BY <1>1
<1>3. DepthAt(k)'
  BY <1>1, <1>2 DEF DepthAt
<1>4. Arrival(k)'
  BY <1>1, <1>2, <1>3 DEF Arrival
<1>5. ((\E l \in Nat : Arrival(l)) => Located)'
  BY Arrived, PTL
<1>. QED BY <1>2, <1>4, <1>5

\* From the instructions of a prologue, and of an epilogue.
LEMMA PrologueStep ==
  ASSUME Running, NEW n \in Nat, Holds(buffer, Prologue, n), Len(stack) >= 2,
         NEW i \in 1 .. 4, AtStep(Prologue, n, i)
  PROVE  /\ Framed' /\ ip' = n + Ends(Prologue)[i]
         /\ Len(stack') = Len(stack) + (IF i = 4 THEN 1 ELSE Saved[i + 1] - Saved[i])
<1>1. Prologue \in Seq(Legal) /\ i \in 1 .. Len(Prologue)
  BY FixedTemplates, TemplateShapes
<1>2. Len(stack) \in Nat
  BY RunningFacts
<1>3. CASE i = 2
  <2>1. Prologue[i].name \in Straight
    BY <1>3, TemplateShapes DEF Straight
  <2>2. Framed' /\ stack' = stack /\ ip' = n + Ends(Prologue)[i]
    BY <1>1, <2>1, StepFrom
  <2>. QED BY <1>2, <1>3, <2>2 DEF Saved
<1>4. CASE i # 2
  <2>1. i \in {1, 3, 4}
    BY <1>4
  <2>2. Prologue[i].name = "push"
    BY <2>1, TemplateShapes
  <2>3. Framed' /\ Len(stack') = Len(stack) + 1 /\ ip' = n + Ends(Prologue)[i]
    BY <1>1, <2>2, StepFrom
  <2>4. i # 4 => Saved[i + 1] - Saved[i] = 1
    BY <2>1 DEF Saved
  <2>. QED BY <2>3, <2>4
<1>. QED BY <1>3, <1>4

LEMMA EpilogueStep ==
  ASSUME Running, NEW n \in Nat, Holds(buffer, Epilogue, n),
         NEW i \in 1 .. 4, AtStep(Epilogue, n, i)
  PROVE  /\ Framed' /\ Len(stack) \in Nat /\ Len(stack') = Len(stack) - 1
         /\ IF i = 4 THEN Len(stack) = 2 /\ ip' = start + Ends(Thunk)[2]
                     ELSE ip' = n + Ends(Epilogue)[i]
<1>1. Epilogue \in Seq(Legal) /\ i \in 1 .. Len(Epilogue)
  BY FixedTemplates, TemplateShapes
<1>2. Len(stack) \in Nat
  BY RunningFacts
<1>3. CASE i = 4
  <2>1. Epilogue[i].name = "ret"
    BY <1>3, TemplateShapes
  <2>2. Framed' /\ Len(stack) = 2 /\ Len(stack') = 1 /\ ip' = start + Ends(Thunk)[2]
    BY <1>1, <2>1, StepFrom
  <2>. QED BY <1>2, <1>3, <2>2
<1>4. CASE i # 4
  <2>1. i \in {1, 2, 3}
    BY <1>4
  <2>2. Epilogue[i].name = "pop"
    BY <2>1, TemplateShapes
  <2>3. Framed' /\ Len(stack') = Len(stack) - 1 /\ ip' = n + Ends(Epilogue)[i]
    BY <1>1, <2>2, StepFrom
  <2>. QED BY <1>2, <1>4, <2>3
<1>. QED BY <1>3, <1>4

LEMMA ThunkSteps ==
  ASSUME Running, InThunk
  PROVE  Framed' /\ Located'
<1>1. PICK i \in 1 .. 3 : AtStep(Thunk, start, i) /\ Len(stack) = 1
  BY DEF InThunk
<1>2. /\ Thunk \in Seq(Legal) /\ i \in 1 .. Len(Thunk)
      /\ start \in Nat /\ start' = start /\ Holds(buffer, Thunk, start)
  BY <1>1, FixedTemplates, TemplateShapes, RunningFacts
<1>3. CASE i = 1
  <2>1. Thunk[i].name \in Straight
    BY <1>3, TemplateShapes DEF Straight
  <2>2. Framed' /\ stack' = stack /\ ip' = start + Ends(Thunk)[1]
    BY <1>1, <1>2, <1>3, <2>1, StepFrom
  <2>3. AtStep(Thunk, start, 2)' /\ Len(stack') = 1 /\ 2 \in 1 .. 3
    BY <1>1, <1>2, <2>2 DEF AtStep
  <2>. QED BY <2>2, <2>3 DEF InThunk, Located
<1>4. CASE i = 2
  <2>1. Thunk[i].name = "call_main"
    BY <1>4, TemplateShapes
  <2>2. Framed' /\ Len(stack') = 2 /\ ip' = 0
    BY <1>1, <1>2, <1>4, <2>1, StepFrom
  <2>3. AtStep(Prologue, 0, 1)' /\ Len(stack') = 2 + Saved[1] /\ 1 \in 1 .. 4
    BY <2>2, FixedTemplates, LegalEnds DEF AtStep, Saved
  <2>. QED BY <2>2, <2>3 DEF InMainPrologue, Located
<1>5. CASE i = 3
  <2>1. Thunk[i].name = "ret"
    BY <1>5, TemplateShapes
  <2>2. Len(stack) = 2
    BY <1>1, <1>2, <2>1, StepFrom
  <2>. QED BY <1>1, <2>2
<1>. QED BY <1>3, <1>4, <1>5

LEMMA MainPrologueSteps ==
  ASSUME Running, InMainPrologue
  PROVE  Framed' /\ Located'
<1>1. PICK i \in 1 .. 4 : AtStep(Prologue, 0, i) /\ Len(stack) = 2 + Saved[i]
  BY DEF InMainPrologue
<1>2. Len(stack) >= 2 /\ Saved[i] \in Nat
  BY <1>1 DEF Saved
<1>3. Holds(buffer, Prologue, 0) /\ addrs[1] = Length(Prologue) /\ Len(stack) \in Nat
      /\ code \in Seq(Opcode) /\ WellFormed(code) /\ Len(code) \in Nat
  BY RunningFacts
<1>4. /\ Framed' /\ ip' = 0 + Ends(Prologue)[i]
      /\ Len(stack') = Len(stack) + (IF i = 4 THEN 1 ELSE Saved[i + 1] - Saved[i])
  BY <1>1, <1>2, <1>3, PrologueStep
<1>5. Len(stack') \in Nat
  BY <1>3, <1>4 DEF Saved
<1>6. CASE i # 4
  <2>1. i + 1 \in 1 .. 4 /\ (i + 1) - 1 = i
    BY <1>6
  <2>2. Len(stack') = 2 + Saved[i + 1]
    BY <1>1, <1>2, <1>4, <1>5, <1>6 DEF Saved
  <2>3. AtStep(Prologue, 0, i + 1)'
    BY <1>4, <2>1 DEF AtStep
  <2>. QED BY <1>4, <2>1, <2>2, <2>3 DEF InMainPrologue, Located
<1>7. CASE i = 4
  <2>1. Len(stack') = 5
    BY <1>1, <1>4, <1>5, <1>7 DEF Saved
  <2>2. Ends(Prologue)[4] \in Nat /\ Length(Prologue) = Ends(Prologue)[4]
    BY FixedTemplates, LegalEnds, TemplateShapes DEF Length
  <2>3. ip' = addrs[1]
    BY <1>3, <1>4, <1>7, <2>2
  <2>4. ~InBody(code, 1)
    <3>1. ASSUME NEW a \in Defs(code) PROVE 1 \notin Body(code, a)
      <4>1. a \in DOMAIN code /\ code[a].op = "op_def_lambda"
        BY DEF Defs
      <4>2. a \in Nat /\ a >= 1
        BY <1>3, <4>1
      <4>. QED BY <4>2 DEF Body
    <3>. QED BY <3>1 DEF InBody
  <2>5. 1 \in 1 .. (Len(code) + 1)
    BY <1>3
  <2>6. Located'
    BY <1>5, <2>1, <2>3, <2>4, <2>5, StepArrives
  <2>. QED BY <1>4, <2>6
<1>. QED BY <1>6, <1>7

LEMMA MainEpilogueSteps ==
  ASSUME Running, InMainEpilogue
  PROVE  Framed' /\ Located'
<1>. DEFINE n == addrs[Len(code) + 1]
<1>1. PICK i \in 1 .. 4 : AtStep(Epilogue, n, i) /\ Len(stack) = 6 - i
  BY DEF InMainEpilogue
<1>2. /\ n \in Nat /\ n' = n /\ Holds(buffer, Epilogue, n) /\ Len(code) \in Nat
      /\ start \in Nat /\ start' = start
  <2>1. Len(code) + 1 \in 1 .. (Len(code) + 1)
    BY RunningFacts
  <2>. QED BY <2>1, RunningFacts
<1>. HIDE DEF n
<1>3. /\ Framed' /\ Len(stack) \in Nat /\ Len(stack') = Len(stack) - 1
      /\ IF i = 4 THEN Len(stack) = 2 /\ ip' = start + Ends(Thunk)[2]
                  ELSE ip' = n + Ends(Epilogue)[i]
  BY <1>1, <1>2, EpilogueStep
<1>4. CASE i = 4
  <2>1. AtStep(Thunk, start, 3)' /\ 3 \in 1 .. 3 /\ Len(stack') = 1
    BY <1>2, <1>3, <1>4 DEF AtStep
  <2>. QED BY <1>3, <2>1 DEF InThunk, Located
<1>5. CASE i # 4
  <2>1. i + 1 \in 1 .. 4 /\ (i + 1) - 1 = i
    BY <1>5
  <2>2. Len(stack') = 6 - (i + 1)
    BY <1>1, <1>3
  <2>3. AtStep(Epilogue, n, i + 1)'
    BY <1>2, <1>3, <1>5, <2>1 DEF AtStep
  <2>. QED BY <1>3, <2>1, <2>2, <2>3 DEF InMainEpilogue, Located, n
<1>. QED BY <1>4, <1>5

LEMMA NopsShape ==
  ASSUME NEW n \in Nat, PaddingAt(n) # 0, NEW t, t = Nops(n)
  PROVE  /\ t \in Seq(Legal) /\ Len(t) = 1 /\ t[1].name = "nop"
         /\ Ends(t)[0] = 0 /\ Ends(t)[1] = PaddingAt(n)
<1>. DEFINE x == Ins("nop", "", PaddingAt(n))
<1>1. PaddingAt(n) \in Nat \ {0} /\ "" \in Operand
  BY DEF PaddingAt, Operand
<1>2. x \in Legal
  BY <1>1, PlainIns DEF InsNames, Names
<1>3. x.name = "nop" /\ x.len = PaddingAt(n) /\ t = << x >>
  BY DEF Ins, Nops
<1>. HIDE DEF x
<1>4. t \in Seq(Legal) /\ Len(t) = 1 /\ t[1] = x
  BY <1>2, <1>3
<1>5. 1 \in 1 .. Len(t)
  BY <1>4
<1>6. Ends(t)[0] = 0 /\ Ends(t)[1] = Ends(t)[1 - 1] + t[1].len
  BY <1>4, <1>5, LegalEnds
<1>7. Ends(t)[1] = 0 + x.len
  BY <1>4, <1>6
<1>8. x.len \in Nat /\ x.len = PaddingAt(n)
  BY <1>1, <1>3
<1>9. Ends(t)[1] = x.len
  BY <1>7, <1>8
<1>. QED BY <1>3, <1>4, <1>6, <1>8, <1>9

\* What is on the stack of the main function stays there.
Deep == Len(stack) >= 5 /\ Len(stack') >= 5

LEMMA DefinitionSteps ==
  ASSUME Running, NEW k \in DOMAIN code, code[k].op = "op_def_lambda", InDefinition(k)
  PROVE  Framed' /\ Located' /\ Deep
<1>. DEFINE n == addrs[k] + PaddingAt(addrs[k])
<1>1. /\ addrs[k] \in Nat /\ addrs' = addrs /\ code' = code /\ Len(stack) \in Nat
      /\ CodeHeld(code[k], buffer, addrs[k])
      /\ addrs[k + 1] = addrs[k] + CodeLength(code[k], addrs[k])
      /\ code \in Seq(Opcode) /\ WellFormed(code) /\ k + 1 \in 1 .. (Len(code) + 1)
  BY RunningFacts DEF CodeAt
<1>2. PaddingAt(addrs[k]) \in Nat
  BY <1>1 DEF PaddingAt
<1>3. /\ PaddingAt(addrs[k]) # 0 => Holds(buffer, Nops(addrs[k]), addrs[k])
      /\ Holds(buffer, Prologue, n) /\ addrs[k + 1] = n + Length(Prologue)
  <2>1. Length(Prologue) \in Nat
    BY FixedTemplates, LegalEnds
  <2>. QED BY <1>1, <1>2, <2>1 DEF CodeHeld, CodeLength
<1>4. n \in Nat /\ n' = n
  BY <1>1, <1>2 DEF PaddingAt
<1>5. CASE ip = addrs[k] /\ PaddingAt(addrs[k]) # 0 /\ Len(stack) >= 5
  <2>. DEFINE t == Nops(addrs[k])
  <2>1. /\ t \in Seq(Legal) /\ Len(t) = 1 /\ t[1].name = "nop"
        /\ Ends(t)[0] = 0 /\ Ends(t)[1] = PaddingAt(addrs[k])
    BY <1>1, <1>5, NopsShape
  <2>. HIDE DEF t
  <2>4. AtStep(t, addrs[k], 1) /\ 1 \in 1 .. Len(t)
    BY <1>1, <1>5, <2>1 DEF AtStep
  <2>5. t[1].name \in Straight
    BY <2>1 DEF Straight
  <2>6. Holds(buffer, t, addrs[k])
    BY <1>3, <1>5 DEF t
  <2>7. Framed' /\ stack' = stack /\ ip' = addrs[k] + Ends(t)[1]
    BY <1>1, <2>1, <2>4, <2>5, <2>6, StepFrom
  <2>8. AtStep(Prologue, n, 1)' /\ 1 \in 1 .. 4
    <3>1. Ends(Prologue)[1 - 1] = 0
      BY FixedTemplates, LegalEnds
    <3>. QED BY <1>4, <2>1, <2>7, <3>1 DEF AtStep
  <2>9. Len(stack') >= 5 + Saved[1]
    BY <1>5, <2>7 DEF Saved
  <2>10. InDefinition(k)'
    BY <2>8, <2>9 DEF InDefinition
  <2>11. InOp(k)'
    BY <1>1, <2>10 DEF InOp
  <2>. QED BY <1>1, <1>5, <2>7, <2>11 DEF Located, Deep
<1>6. ASSUME NEW i \in 1 .. 4, AtStep(Prologue, n, i), Len(stack) >= 5 + Saved[i]
      PROVE  Framed' /\ Located' /\ Deep
  <2>1. Saved[i] \in Nat /\ Len(stack) >= 2
    BY <1>1, <1>6 DEF Saved
  <2>. HIDE DEF n
  <2>2. /\ Framed' /\ ip' = n + Ends(Prologue)[i]
        /\ Len(stack') = Len(stack) + (IF i = 4 THEN 1 ELSE Saved[i + 1] - Saved[i])
    BY <1>3, <1>4, <1>6, <2>1, PrologueStep
  <2>3. CASE i # 4
    <3>1. i + 1 \in 1 .. 4 /\ (i + 1) - 1 = i
      BY <2>3
    <3>2. Len(stack') >= 5 + Saved[i + 1]
      <4>1. Saved[i] \in Nat /\ Saved[i + 1] \in Nat
        BY <3>1 DEF Saved
      <4>2. Len(stack') = Len(stack) + (Saved[i + 1] - Saved[i])
        BY <2>2, <2>3
      <4>. QED BY <1>1, <1>6, <4>1, <4>2
    <3>3. AtStep(Prologue, n, i + 1)'
      BY <1>4, <2>2, <3>1 DEF AtStep
    <3>4. InDefinition(k)'
      BY <3>1, <3>2, <3>3 DEF InDefinition, n
    <3>5. InOp(k)'
      BY <1>1, <3>4 DEF InOp
    <3>6. Deep
      <4>1. Saved[i] \in Nat /\ Saved[i + 1] \in Nat
        BY <3>1 DEF Saved
      <4>. QED BY <1>1, <1>6, <3>2, <4>1, SMTT(20) DEF Deep
    <3>. QED BY <1>1, <2>2, <3>5, <3>6 DEF Located
  <2>4. CASE i = 4
    <3>1. Len(stack') \in Nat /\ Len(stack') >= 8
      BY <1>1, <1>6, <2>2, <2>4 DEF Saved
    <3>2. Length(Prologue) = Ends(Prologue)[4]
      BY TemplateShapes DEF Length
    <3>3. ip' = addrs[k + 1]
      BY <1>3, <2>2, <2>4, <3>2 DEF n
    <3>4. InBody(code, k + 1)
      BY <1>1, BodyStarts DEF Defs
    <3>5. Located'
      BY <1>1, <3>1, <3>3, <3>4, StepArrives
    <3>6. Deep
      BY <1>1, <1>6, <2>1, <3>1 DEF Deep
    <3>. QED BY <2>2, <3>5, <3>6
  <2>. QED BY <2>3, <2>4
<1>. QED BY <1>5, <1>6 DEF InDefinition

LEMMA ReturnSteps ==
  ASSUME Running, NEW k \in DOMAIN code, code[k].op = "op_ret", InReturn(k)
  PROVE  Framed' /\ Located' /\ Deep
<1>1. PICK i \in 1 .. 4 : AtStep(Epilogue, addrs[k], i) /\ Len(stack) >= 9 - i
  BY DEF InReturn
<1>2. /\ addrs[k] \in Nat /\ addrs' = addrs /\ code' = code
      /\ CodeHeld(code[k], buffer, addrs[k])
  BY RunningFacts DEF CodeAt
<1>3. Holds(buffer, Epilogue, addrs[k])
  BY <1>2 DEF CodeHeld, Template
<1>4. /\ Framed' /\ Len(stack) \in Nat /\ Len(stack') = Len(stack) - 1
      /\ IF i = 4 THEN Len(stack) = 2 /\ ip' = start + Ends(Thunk)[2]
                  ELSE ip' = addrs[k] + Ends(Epilogue)[i]
  BY <1>1, <1>2, <1>3, EpilogueStep
<1>5. i # 4
  <2>. SUFFICES ASSUME i = 4 PROVE FALSE
    OBVIOUS
  <2>1. Len(stack) = 2 /\ Len(stack) >= 5
    BY <1>1, <1>4
  <2>. QED BY <2>1
<1>6. i + 1 \in 1 .. 4 /\ (i + 1) - 1 = i
  BY <1>5
<1>7. Len(stack') >= 9 - (i + 1)
  BY <1>1, <1>4
<1>8. AtStep(Epilogue, addrs[k], i + 1)'
  BY <1>2, <1>4, <1>5, <1>6 DEF AtStep
<1>9. InReturn(k)'
  BY <1>6, <1>7, <1>8 DEF InReturn
<1>10. InOp(k)'
  BY <1>2, <1>9 DEF InOp
<1>11. Deep
  BY <1>1, <1>4, <1>5 DEF Deep
<1>. QED BY <1>2, <1>4, <1>10, <1>11 DEF Located

LEMMA CallSteps ==
  ASSUME Running, NEW k \in DOMAIN code, code[k].op = "op_call", InCall(k)
  PROVE  Framed' /\ Located' /\ Deep
<1>1. PICK i \in 1 .. 2 : AtStep(CallLambda, addrs[k], i) /\ Len(stack) >= 5
  BY DEF InCall
<1>2. /\ addrs[k] \in Nat /\ addrs' = addrs /\ code' = code
      /\ CodeHeld(code[k], buffer, addrs[k])
  BY RunningFacts DEF CodeAt
<1>3. /\ Holds(buffer, CallLambda, addrs[k]) /\ CallLambda \in Seq(Legal)
      /\ i \in 1 .. Len(CallLambda)
  BY <1>2, FixedTemplates, TemplateShapes DEF CodeHeld, Template
<1>4. i # 2
  <2>1. CallLambda[i].name \in Names
    BY <1>1, <1>2, <1>3, StepFrom
  <2>. QED BY <2>1, TemplateShapes DEF Names
<1>5. i = 1
  BY <1>4
<1>6. CallLambda[i].name \in Straight
  BY <1>5, TemplateShapes DEF Straight
<1>7. Framed' /\ stack' = stack /\ ip' = addrs[k] + Ends(CallLambda)[i]
  BY <1>1, <1>2, <1>3, <1>6, StepFrom
<1>8. AtStep(CallLambda, addrs[k], 2)' /\ 2 \in 1 .. 2
  BY <1>2, <1>5, <1>7 DEF AtStep
<1>9. InCall(k)'
  BY <1>1, <1>7, <1>8 DEF InCall
<1>10. InOp(k)'
  BY <1>2, <1>9 DEF InOp
<1>. QED BY <1>1, <1>2, <1>7, <1>10 DEF Located, Deep

\* The jump of a bracket in a program that runs.
LEMMA JumpLands ==
  ASSUME CompilerInv, phase = "run", NEW k \in DOMAIN code, IsJump(code[k])
  PROVE  /\ buffer[JumpAt(k)].name = IF code[k].op = "op_jf" THEN "je" ELSE "jne"
         /\ buffer[JumpAt(k)].at + buffer[JumpAt(k)].len + buffer[JumpAt(k)].arg
              = addrs[code[k].num + 1]
<1>1. /\ code \in Seq(Opcode) /\ WellFormed(code) /\ addrs \in Seq(Nat)
      /\ patches.data \in Seq(PatchRecord)
      /\ buffer \in Seq(Emitted(InsNames, Operand)) /\ InOrder(buffer, size) /\ size \in Nat
      /\ Len(addrs) = Len(code) + 1
      /\ Coded(code, Len(code), buffer, addrs, patches.data, JumpName, 6)
      /\ Applied(buffer, addrs, patches.data, Len(patches.data), 6)
  BY JitCapacityAssumption DEF CompilerInv, CompilerTypes, BufferOK, ArrayOf, Compiled
<1>2. k \in 1 .. Len(code) /\ Len(code) \in Nat /\ code[k] \in Opcode
  BY <1>1
<1>3. code[k].op \in {"op_jf", "op_jt"} /\ k \in Jumps(code, Len(code))
  BY <1>2 DEF IsJump, Jumps
<1>4. PICK x \in DOMAIN buffer : JumpAt(k) = x /\ buffer[x].at = addrs[k] + 4
  <2>1. JumpIn(buffer, addrs[k] + 4, JumpName[code[k].op], 6)
    BY <1>1, <1>3 DEF Coded
  <2>. QED BY <2>1 DEF JumpIn, JumpAt
<1>5. Goes(buffer[x], code[k], addrs, addrs[k] + 4, JumpName, 6, 6)
  <2>1. DOMAIN patches.data = 1 .. Len(patches.data)
    BY <1>1
  <2>. QED BY ONLY <1>1, <1>3, <1>4, <2>1, JumpsGo
<1>6. addrs[k] \in Nat /\ addrs[code[k].num + 1] \in Nat
  <2>1. code[k].num + 1 \in 1 .. Len(addrs)
    BY <1>1, <1>2, <1>3, JumpTarget
  <2>2. k \in 1 .. Len(addrs)
    BY <1>1, <1>2
  <2>. QED BY <1>1, <2>1, <2>2, SMTT(20)
<1>. QED BY <1>3, <1>4, <1>5, <1>6 DEF JumpName, Goes

LEMMA OtherSteps ==
  ASSUME Running, NEW k \in DOMAIN code, InOther(k),
         code[k].op \notin {"op_def_lambda", "op_ret", "op_call"}
  PROVE  Framed' /\ Located' /\ Deep
<1>. DEFINE t == Template(code[k])
            n == addrs[k]
<1>1. PICK i \in 1 .. Len(t) : AtStep(t, n, i)
  BY DEF InOther
<1>2. /\ n \in Nat /\ addrs' = addrs /\ code' = code /\ Len(stack) \in Nat
      /\ code \in Seq(Opcode) /\ WellFormed(code) /\ k \in Nat
      /\ k + 1 \in 1 .. (Len(code) + 1) /\ code[k] \in Opcode
      /\ Holds(buffer, t, n) /\ addrs[k + 1] = n + Length(t)
  <2>1. CodeHeld(code[k], buffer, n) /\ addrs[k + 1] = n + CodeLength(code[k], n)
    BY RunningFacts DEF CodeAt
  <2>2. Holds(buffer, t, n) /\ addrs[k + 1] = n + Length(t)
    BY <2>1 DEF CodeHeld, CodeLength
  <2>3. code[k] \in Opcode
    BY RunningFacts DEF CodeAt
  <2>. QED BY <2>2, <2>3, RunningFacts DEF CodeAt
<1>3. t \in Seq(Legal)
  BY <1>2, OpTemplate
<1>4. /\ t[1].name \in Straight
      /\ ~IsJump(code[k]) => Len(t) = 1
      /\ IsJump(code[k]) => Len(t) = 2 /\ t[2].name \in {"je", "jne"}
  BY <1>2, OtherShapes
<1>5. DepthAt(k)
  BY DEF InOther
<1>6. t' = t
  BY <1>2 DEF Template
<1>10. Len(stack) >= 5
  <2>. DEFINE h == Len(stack)
  <2>1. h \in Nat /\ (h >= 8 \/ h = 5)
    BY <1>2, <1>5 DEF DepthAt
  <2>. HIDE DEF h
  <2>2. h >= 5
    BY <2>1
  <2>. QED BY <2>2 DEF h
<1>. HIDE DEF t, n
<1>7. ASSUME Framed', stack' = stack, ip' = n + Length(t)
      PROVE  Located'
  <2>1. InBody(code, k) <=> InBody(code, k + 1)
    BY <1>2, NextStaysInBody
  <2>2. IF InBody(code, k + 1) THEN Len(stack') >= 8 ELSE Len(stack') = 5
    BY <1>5, <1>7, <2>1 DEF DepthAt
  <2>. QED BY <1>2, <1>7, <2>2, StepArrives
<1>8. ASSUME i = 1 PROVE stack' = stack /\ Framed' /\ Located'
  <2>1. Framed' /\ stack' = stack /\ ip' = n + Ends(t)[1]
    BY <1>1, <1>2, <1>3, <1>4, <1>8, StepFrom
  <2>2. CASE ~IsJump(code[k])
    <3>1. Length(t) = Ends(t)[1]
      BY <1>4, <2>2 DEF Length
    <3>. QED BY <1>7, <2>1, <3>1
  <2>3. CASE IsJump(code[k])
    <3>1. 2 \in 1 .. Len(t)
      BY <1>4, <2>3
    <3>2. AtStep(t, n, 2)'
      BY <1>2, <1>6, <2>1 DEF AtStep, n
    <3>3. DepthAt(k)'
      BY <1>2, <1>5, <2>1 DEF DepthAt
    <3>4. InOther(k)'
      BY <1>6, <3>1, <3>2, <3>3 DEF InOther, t, n
    <3>5. InOp(k)'
      BY <1>2, <3>4 DEF InOp
    <3>. QED BY <1>2, <2>1, <3>5 DEF Located
  <2>. QED BY <2>2, <2>3
<1>9. ASSUME i # 1 PROVE stack' = stack /\ Framed' /\ Located'
  <2>0. i \in 1 .. Len(t)
    BY <1>1
  <2>1. IsJump(code[k]) /\ i = 2
    <3>1. CASE IsJump(code[k])
      <4>1. Len(t) = 2
        BY <1>4, <3>1
      <4>2. i \in 1 .. 2
        BY ONLY <2>0, <4>1
      <4>. QED BY <1>9, <3>1, <4>2
    <3>2. CASE ~IsJump(code[k])
      <4>1. Len(t) = 1
        BY <1>4, <3>2
      <4>2. i \in 1 .. 1
        BY ONLY <2>0, <4>1
      <4>. QED BY <1>9, <4>2
    <3>. QED BY <3>1, <3>2
  <2>2. t[2].name \in {"je", "jne"} /\ Length(t) = Ends(t)[2] /\ 2 \in 1 .. Len(t)
    BY <1>4, <2>1 DEF Length
  <2>3. /\ Framed' /\ stack' = stack
        /\ ip' \in {n + Ends(t)[2], n + Ends(t)[2] + Current.arg}
    BY <1>1, <1>2, <1>3, <2>1, <2>2, StepFrom
  <2>4. CASE ip' = n + Ends(t)[2]
    BY <1>7, <2>2, <2>3, <2>4
  <2>5. CASE ip' = n + Ends(t)[2] + Current.arg
    <3>. DEFINE m == code[k].num + 1
    <3>1. CompilerInv /\ phase = "run"
      BY DEF Running
    <3>2. Current.at = ip /\ ip + Current.len = n + Ends(t)[2]
      BY <1>1, <1>2, <1>3, <2>1, <2>2, <3>1, AtTemplate
    <3>3. Ends(t)[2 - 1] = 4
      BY <1>2, <2>1, JumpTemplate DEF t
    <3>4. ip = addrs[k] + 4
      BY <1>1, <2>1, <3>3 DEF AtStep, n
    <3>5. Current = buffer[JumpAt(k)]
      BY <3>4 DEF Current, JumpAt
    <3>6. Current.at + Current.len + Current.arg = addrs[m]
      BY <2>1, <3>1, <3>5, JumpLands
    <3>7. ip' = addrs[m]
      BY <2>5, <3>2, <3>6
    <3>8. m \in 1 .. (Len(code) + 1) /\ (InBody(code, k) <=> InBody(code, m))
      BY <1>2, <2>1, JumpTarget, JumpStaysInBody DEF IsJump
    <3>. HIDE DEF m
    <3>9. IF InBody(code, m) THEN Len(stack') >= 8 ELSE Len(stack') = 5
      BY <1>5, <2>3, <3>8 DEF DepthAt
    <3>10. Located'
      BY <1>2, <2>3, <3>7, <3>8, <3>9, StepArrives
    <3>. QED BY <2>3, <3>10
  <2>. QED BY <2>3, <2>4, <2>5
<1>11. stack' = stack /\ Framed' /\ Located'
  BY <1>8, <1>9
<1>. QED BY <1>10, <1>11 DEF Deep

\* No step leaves the path.
LEMMA NextKeepsPath ==
  ASSUME CompilerInv, MachineInv, LayoutInv, PathInv, [Next]_vars
  PROVE  PathInv'
<1>. SUFFICES ASSUME phase' = "run" PROVE Framed' /\ Located'
  BY DEF PathInv
<1>1. CASE CallThunk
  <2>1. phase' # "failed"
    OBVIOUS
  <2>2. ip' = start /\ stack' = << Value("caller", 0) >> /\ start' = start
    BY <1>1, <2>1 DEF CallThunk, Fail, jit
  <2>3. Value("caller", 0).base = "caller"
    BY ValueType
  <2>. DEFINE v == Value("caller", 0)
  <2>. HIDE DEF v
  <2>4. DOMAIN stack' = {1} /\ Len(stack') = 1 /\ stack'[1] = v
    BY <2>2 DEF v
  <2>5. Framed'
    BY <2>3, <2>4 DEF Framed, v
  <2>6. start \in Nat /\ Ends(Thunk)[1 - 1] = 0
    BY FixedTemplates, LegalEnds DEF CompilerInv, CompilerTypes
  <2>7. AtStep(Thunk, start, 1)' /\ 1 \in 1 .. 3
    BY <2>2, <2>6 DEF AtStep
  <2>. QED BY <2>4, <2>5, <2>7 DEF InThunk, Located
<1>2. CASE Compile \/ PatchJump
  <2>1. phase \in Starting
    BY <1>2 DEF Starting, Compile, MapBuffer, AllocAddresses, EnterMain, EmitOp, EnterLambda, LeaveLambda, LeaveMain, Compiling,
                PatchJump, PatchNext
  <2>. QED BY <1>2, <2>1 DEF Starting, Compile, MapBuffer, AllocAddresses, EnterMain, EmitOp,
                             EnterLambda, LeaveLambda, LeaveMain, Compiling, PatchJump, PatchNext, Fail
<1>3. CASE Run
  <2>1. phase = "run"
    BY <1>3 DEF Run, Here, PushReg, PopReg, SetReg, CallMain, WriteMem, TestMem, CondJump,
                GetChar, PutChar, Undefined, Ret
  <2>2. Running /\ Located
    BY <1>3, <2>1 DEF Running, PathInv
  <2>3. ASSUME NEW k \in DOMAIN code, InOp(k) PROVE Framed' /\ Located'
    BY <2>2, <2>3, DefinitionSteps, ReturnSteps, CallSteps, OtherSteps DEF InOp
  <2>. QED BY <2>2, <2>3, ThunkSteps, MainPrologueSteps, MainEpilogueSteps DEF Located
<1>4. CASE UNCHANGED vars
  BY <1>4 DEF vars, cpu, jit, PathInv, Framed, Located, InThunk, InMainPrologue,
              InMainEpilogue, InOp, InDefinition, InReturn, InCall, InOther, DepthAt, AtStep
<1>. QED BY <1>1, <1>2, <1>3, <1>4 DEF Next

-----------------------------------------------------------------------------
(* Whoever is on the path is on track.                                     *)

LEMMA OnTrackAt ==
  ASSUME CompilerInv, phase = "run", NEW t \in Seq(Legal), NEW n \in Nat,
         Holds(buffer, t, n), NEW i \in 1 .. Len(t), AtStep(t, n, i), t[i].name \in Names,
         t[i].name = "pop" => stack # << >> /\ Last(stack).base # "buffer",
         t[i].name = "ret" => stack # << >> /\ (Last(stack).base = "buffer" \/ Len(stack) = 1)
  PROVE  OnTrack /\ (Here({"pop"}) <=> t[i].name = "pop")
<1>1. \A names : Here(names) <=> t[i].name \in names
  BY AtTemplate
<1>2. (Here({"pop"}) <=> t[i].name = "pop") /\ (Here({"ret"}) <=> t[i].name = "ret")
  BY <1>1
<1>. QED BY <1>1, <1>2 DEF OnTrack

\* What is on top of the stack.
LEMMA TopOfStack ==
  ASSUME MachineInv, Framed, Len(stack) >= 1
  PROVE  stack # << >> /\ (Last(stack).base = "buffer" <=> Len(stack) = 2)
<1>1. Len(stack) \in DOMAIN stack /\ Last(stack) = stack[Len(stack)]
  BY DEF MachineInv, Last
<1>2. stack # << >>
  BY <1>1
<1>3. stack[Len(stack)].base = "buffer" <=> Len(stack) = 2
  BY <1>1 DEF Framed
<1>. QED BY <1>1, <1>2, <1>3

\* An instruction of a template lies in its code.
LEMMA WithinTemplate ==
  ASSUME NEW t \in Seq(Legal), NEW n \in Nat, NEW i \in 1 .. Len(t), AtStep(t, n, i)
  PROVE  ip \in n .. (n + Length(t) - 1)
<1>1. i - 1 \in 0 .. Len(t) /\ i \in 0 .. Len(t)
  BY LegalEnds
<1>2. /\ Ends(t)[i - 1] \in Nat /\ Ends(t)[i] \in Nat /\ Ends(t)[i] <= Length(t)
      /\ t[i].len \in Nat \ {0} /\ Ends(t)[i] = Ends(t)[i - 1] + t[i].len
      /\ Length(t) \in Nat
  BY <1>1, LegalEnds
<1>. QED BY <1>2, SMTT(20) DEF AtStep

LEMMA NopOnTrack ==
  ASSUME CompilerInv, phase = "run", NEW n \in Nat, PaddingAt(n) # 0,
         Holds(buffer, Nops(n), n), ip = n
  PROVE  OnTrack /\ ~Here({"pop"})
<1>. DEFINE t == Nops(n)
<1>1. t \in Seq(Legal) /\ Len(t) = 1 /\ t[1].name = "nop" /\ Ends(t)[0] = 0
  BY NopsShape
<1>. HIDE DEF t
<1>2. AtStep(t, n, 1) /\ 1 \in 1 .. Len(t)
  BY <1>1 DEF AtStep
<1>3. Holds(buffer, t, n)
  BY DEF t
<1>. QED BY <1>1, <1>2, <1>3, OnTrackAt DEF Names

LEMMA PrologueOnTrack ==
  ASSUME CompilerInv, phase = "run", NEW n \in Nat, Holds(buffer, Prologue, n),
         NEW i \in 1 .. 4, AtStep(Prologue, n, i)
  PROVE  OnTrack /\ ~Here({"pop"})
<1>1. Prologue \in Seq(Legal) /\ i \in 1 .. Len(Prologue)
  BY FixedTemplates, TemplateShapes
<1>2. Prologue[i].name \in {"push", "mov_rbp_rsp"}
  <2>1. i \in {1, 3, 4} \/ i = 2
    OBVIOUS
  <2>. QED BY <2>1, TemplateShapes
<1>. QED BY <1>1, <1>2, OnTrackAt DEF Names

\* The code of an opcode.
LEMMA OpOnTrack ==
  ASSUME CompilerInv, LayoutInv, phase = "run", NEW k \in DOMAIN code, InOp(k)
  PROVE  (OnTrack /\ ~Here({"pop"})) \/ InLambdaCode
<1>. DEFINE n == addrs[k]
<1>1. n \in Nat /\ CodeHeld(code[k], buffer, n) /\ code[k] \in Opcode
  <2>1. code[k] \in Opcode /\ CodeAt(k)
    BY LayoutFacts
  <2>. QED BY <2>1 DEF CodeAt
<1>2. CASE code[k].op = "op_def_lambda"
  <2>1. /\ PaddingAt(n) # 0 => Holds(buffer, Nops(n), n)
        /\ Holds(buffer, Prologue, n + PaddingAt(n)) /\ InDefinition(k)
    BY <1>1, <1>2 DEF CodeHeld, InOp
  <2>2. n + PaddingAt(n) \in Nat
    BY <1>1 DEF PaddingAt
  <2>. QED BY <1>1, <2>1, <2>2, NopOnTrack, PrologueOnTrack DEF InDefinition
<1>3. CASE code[k].op \in {"op_ret", "op_call"}
  <2>1. Template(code[k]) = IF code[k].op = "op_ret" THEN Epilogue ELSE CallLambda
    BY <1>3 DEF Template
  <2>2. PICK i \in 1 .. Len(Template(code[k])) : AtStep(Template(code[k]), n, i)
    <3>1. CASE code[k].op = "op_ret"
      <4>1. PICK i \in 1 .. 4 : AtStep(Epilogue, n, i)
        BY <3>1 DEF InOp, InReturn
      <4>. QED BY <2>1, <3>1, <4>1, TemplateShapes
    <3>2. CASE code[k].op = "op_call"
      <4>1. PICK i \in 1 .. 2 : AtStep(CallLambda, n, i)
        BY <3>2 DEF InOp, InCall
      <4>2. Template(code[k]) = CallLambda /\ i \in 1 .. 5
        BY <2>1, <3>2
      <4>. QED BY <4>1, <4>2, TemplateShapes
    <3>. QED BY <1>3, <3>1, <3>2
  <2>3. Template(code[k]) \in Seq(Legal)
    BY <2>1, FixedTemplates
  <2>4. ip \in n .. (n + Length(Template(code[k])) - 1)
    BY <1>1, <2>2, <2>3, WithinTemplate
  <2>. QED BY <1>3, <2>4 DEF InLambdaCode
<1>4. CASE code[k].op \notin {"op_def_lambda", "op_ret", "op_call"}
  <2>. DEFINE t == Template(code[k])
  <2>1. t \in Seq(Legal) /\ Holds(buffer, t, n)
    BY <1>1, <1>4, OpTemplate DEF CodeHeld
  <2>2. PICK i \in 1 .. Len(t) : AtStep(t, n, i)
    BY <1>4 DEF InOp, InOther
  <2>3. t[i].name \in Straight \cup {"je", "jne"}
    <3>1. /\ t[1].name \in Straight /\ Len(t) \in {1, 2}
          /\ Len(t) = 2 => t[2].name \in {"je", "jne"}
      BY <1>1, <1>4, OtherShapes
    <3>. HIDE DEF t
    <3>2. CASE Len(t) = 1
      <4>1. i \in 1 .. 1
        BY ONLY <2>2, <3>2
      <4>. QED BY <3>1, <4>1
    <3>3. CASE Len(t) = 2
      <4>1. i \in 1 .. 2
        BY ONLY <2>2, <3>3
      <4>2. CASE i = 1
        BY <3>1, <4>2
      <4>3. CASE i = 2
        BY <3>1, <3>3, <4>3
      <4>. QED BY <4>1, <4>2, <4>3
    <3>. QED BY <3>1, <3>2, <3>3
  <2>. HIDE DEF t
  <2>. QED BY <1>1, <2>1, <2>2, <2>3, OnTrackAt DEF Straight, Names
<1>. QED BY <1>2, <1>3, <1>4

LEMMA OnPath ==
  ASSUME CompilerInv, MachineInv, LayoutInv, PathInv, phase = "run"
  PROVE  (OnTrack /\ (Here({"pop"}) => InMainEpilogue)) \/ InLambdaCode
<1>1. Framed /\ Located
  BY DEF PathInv
<1>2. /\ Holds(buffer, Prologue, 0) /\ Holds(buffer, Thunk, start) /\ start \in Nat
      /\ Holds(buffer, Epilogue, addrs[Len(code) + 1]) /\ addrs[Len(code) + 1] \in Nat
  <2>1. Len(code) + 1 \in 1 .. (Len(code) + 1)
    BY LayoutFacts
  <2>. QED BY <2>1, LayoutFacts
<1>3. CASE InThunk
  <2>1. PICK i \in 1 .. 3 : AtStep(Thunk, start, i) /\ Len(stack) = 1
    BY <1>3 DEF InThunk
  <2>2. Thunk \in Seq(Legal) /\ i \in 1 .. Len(Thunk)
    BY FixedTemplates, TemplateShapes
  <2>3. stack # << >>
    BY <1>1, <2>1, TopOfStack
  <2>4. Thunk[i].name \in {"mov_rbx_tape", "call_main", "ret"}
    <3>1. i \in {1, 2, 3}
      OBVIOUS
    <3>. QED BY <3>1, TemplateShapes
  <2>. QED BY <1>2, <2>1, <2>2, <2>3, <2>4, OnTrackAt DEF Names
<1>4. CASE InMainPrologue
  BY <1>2, <1>4, PrologueOnTrack DEF InMainPrologue
<1>5. CASE InMainEpilogue
  <2>1. PICK i \in 1 .. 4 : AtStep(Epilogue, addrs[Len(code) + 1], i) /\ Len(stack) = 6 - i
    BY <1>5 DEF InMainEpilogue
  <2>2. Epilogue \in Seq(Legal) /\ i \in 1 .. Len(Epilogue)
    BY FixedTemplates, TemplateShapes
  <2>3. stack # << >> /\ (Last(stack).base = "buffer" <=> i = 4)
    BY <1>1, <2>1, TopOfStack
  <2>4. Epilogue[i].name = IF i = 4 THEN "ret" ELSE "pop"
    <3>1. i \in {1, 2, 3} \/ i = 4
      OBVIOUS
    <3>. QED BY <3>1, TemplateShapes
  <2>5. OnTrack
    BY <1>2, <2>1, <2>2, <2>3, <2>4, OnTrackAt DEF Names
  <2>. QED BY <1>5, <2>5
<1>6. ASSUME NEW k \in DOMAIN code, InOp(k) PROVE (OnTrack /\ ~Here({"pop"})) \/ InLambdaCode
  BY <1>6, OpOnTrack
<1>. QED BY <1>1, <1>3, <1>4, <1>5, <1>6 DEF Located

-----------------------------------------------------------------------------
(* What the epilogue of the main function finds.  The register that goes   *)
(* to a place of the frame keeps what it held on entry until it is there,  *)
(* and holds it again once it is popped; the place keeps it in between.    *)

\* Place i of the stack is where register r is saved.
Preserved(i, r) == (IF Len(stack) >= i THEN stack[i] ELSE regs[r]) = OnEntry[r]

\* The thunk has not yet put the address of the tape in rbx.
BeforeTape == AtStep(Thunk, start, 1) /\ Len(stack) = 1

EntryKept == Preserved(3, "rbp") /\ Preserved(5, "r12") /\ (Preserved(4, "rbx") \/ BeforeTape)

EntryInv ==
  /\ phase \in Starting => regs = Callers
  /\ phase = "run" => EntryKept

LEMMA EntryValues ==
  /\ OnEntry["rbp"] = Callers["rbp"] /\ OnEntry["r12"] = Callers["r12"]
  /\ OnEntry["rbx"] = Value("tape", 0)
  /\ OnEntry' = OnEntry
BY DEF OnEntry, Callers

\* A push, to place j or another.
LEMMA KeptByPush ==
  ASSUME MachineInv, NEW v, v \in AnyValue, stack' = Append(stack, v), regs' = regs,
         NEW j \in Nat \ {0}, NEW r, Preserved(j, r), j = Len(stack) + 1 => v = regs[r]
  PROVE  Preserved(j, r)'
<1>. DEFINE h == Len(stack)
<1>1. h \in Nat /\ stack \in Seq(AnyValue)
  BY DEF MachineInv
<1>2. /\ Len(stack') = h + 1
      /\ \A i \in 1 .. (h + 1) : stack'[i] = IF i = h + 1 THEN v ELSE stack[i]
  BY <1>1
<1>3. /\ (IF h >= j THEN stack[j] ELSE regs[r]) = OnEntry[r] /\ OnEntry'[r] = OnEntry[r]
      /\ j = h + 1 => v = regs[r]
  BY EntryValues DEF Preserved
<1>. HIDE DEF h
<1>4. (IF h + 1 >= j THEN stack'[j] ELSE regs[r]) = OnEntry[r]
  <2>1. CASE h >= j
    BY <1>1, <1>2, <1>3, <2>1
  <2>2. CASE j = h + 1
    BY <1>1, <1>2, <1>3, <2>2
  <2>3. CASE j > h + 1
    BY <1>1, <1>3, <2>3
  <2>4. h >= j \/ j = h + 1 \/ j > h + 1
    BY <1>1
  <2>. QED BY <2>1, <2>2, <2>3, <2>4
<1>. QED BY <1>2, <1>3, <1>4 DEF Preserved

\* A pop of place j into its register, or of another into another.
LEMMA KeptByPop ==
  ASSUME MachineInv, stack # << >>, stack' = Front(stack), NEW a \in Registers,
         regs' = [regs EXCEPT ![a] = Last(stack)],
         NEW j \in Nat \ {0}, NEW r \in Registers, Preserved(j, r),
         j >= Len(stack) => (r = a <=> j = Len(stack))
  PROVE  Preserved(j, r)'
<1>. DEFINE h == Len(stack)
<1>1. h \in Nat \ {0} /\ stack \in Seq(AnyValue) /\ regs \in [Registers -> AnyValue]
  BY DEF MachineInv
<1>2. /\ Len(stack') = h - 1 /\ Last(stack) = stack[h]
      /\ \A i \in 1 .. (h - 1) : stack'[i] = stack[i]
  <2>1. Last(stack) = stack[h] /\ stack' = SubSeq(stack, 1, h - 1)
    BY DEF Last, Front
  <2>. HIDE DEF h
  <2>2. h \in Nat \ {0} /\ stack \in Seq(AnyValue) /\ h = Len(stack)
    BY <1>1 DEF h
  <2>3. /\ stack' \in Seq(AnyValue) /\ DOMAIN stack' = 1 .. (h - 1)
        /\ \A i \in 1 .. (h - 1) : stack'[i] = stack[i]
    BY ONLY <2>1, <2>2
  <2>4. Len(stack') = h - 1
    <3>1. Len(stack') \in Nat /\ DOMAIN stack' = 1 .. Len(stack')
      BY ONLY <2>3
    <3>. QED BY ONLY <2>2, <2>3, <3>1
  <2>. QED BY <2>1, <2>3, <2>4
<1>3. /\ (IF h >= j THEN stack[j] ELSE regs[r]) = OnEntry[r] /\ OnEntry'[r] = OnEntry[r]
      /\ j >= h => (r = a <=> j = h)
  BY EntryValues DEF Preserved
<1>4. regs'[r] = IF r = a THEN stack[h] ELSE regs[r]
  BY <1>1, <1>2
<1>. HIDE DEF h
<1>5. (IF h - 1 >= j THEN stack'[j] ELSE regs'[r]) = OnEntry[r]
  <2>1. CASE h - 1 >= j
    BY <1>1, <1>2, <1>3, <2>1
  <2>2. CASE j >= h
    BY <1>1, <1>3, <1>4, <2>2
  <2>. QED BY <1>1, <2>1, <2>2
<1>. QED BY <1>2, <1>3, <1>5 DEF Preserved

\* What one instruction does to the registers.
LEMMA ValuesFrom ==
  ASSUME Running, NEW t \in Seq(Legal), NEW n \in Nat, Holds(buffer, t, n),
         NEW i \in 1 .. Len(t), AtStep(t, n, i)
  PROVE  /\ t[i].name = "push" =>
              /\ regs' = regs /\ stack' = Append(stack, regs[t[i].arg])
              /\ regs[t[i].arg] \in AnyValue
         /\ t[i].name = "pop" =>
              /\ stack # << >> /\ stack' = Front(stack) /\ t[i].arg \in Registers
              /\ regs' = [regs EXCEPT ![t[i].arg] = Last(stack)]
         /\ t[i].name = "ret" => regs' = regs
         /\ t[i].name = "call_main" =>
              regs' = regs /\ \E v \in AnyValue : stack' = Append(stack, v)
         /\ t[i].name = "mov_rbp_rsp" =>
              stack' = stack /\ \E v : regs' = [regs EXCEPT !["rbp"] = v]
         /\ t[i].name = "mov_rbx_tape" =>
              stack' = stack /\ regs' = [regs EXCEPT !["rbx"] = Value("tape", 0)]
<1>1. CompilerInv /\ MachineInv /\ phase = "run" /\ phase' = "run" /\ Run
  BY DEF Running
<1>. DEFINE name == t[i].name
<1>2. /\ \A names : Here(names) <=> name \in names
      /\ Current.name = name
      /\ name \notin {"je", "jne"} => Current.arg = t[i].arg
  BY <1>1, AtTemplate
<1>3. name \in {"push", "pop"} => t[i].arg \in Registers
  BY LegalTemplate DEF Legal
<1>. HIDE DEF name
<1>4. ~Undefined
  BY <1>1 DEF Undefined
<1>5. CASE name = "push"
  <2>1. PushReg
    BY <1>1, <1>2, <1>4, <1>5 DEF Run, PushReg, PopReg, SetReg, CallMain, Ret, WriteMem, TestMem,
                                  CondJump, GetChar, PutChar
  <2>2. Current.arg = t[i].arg /\ regs[t[i].arg] \in AnyValue
    BY <1>1, <1>2, <1>3, <1>5 DEF MachineInv
  <2>. QED BY <1>5, <2>1, <2>2 DEF PushReg, name
<1>6. CASE name = "pop"
  <2>1. PopReg
    BY <1>1, <1>2, <1>4, <1>6 DEF Run, PushReg, PopReg, SetReg, CallMain, Ret, WriteMem, TestMem,
                                  CondJump, GetChar, PutChar
  <2>2. stack # << >>
    BY <2>1 DEF PopReg, OnTrack
  <2>. QED BY <1>2, <1>3, <1>6, <2>1, <2>2 DEF PopReg, name
<1>7. CASE name = "ret"
  <2>1. Ret
    BY <1>1, <1>2, <1>4, <1>7 DEF Run, PushReg, PopReg, SetReg, CallMain, Ret, WriteMem, TestMem,
                                  CondJump, GetChar, PutChar
  <2>. QED BY <1>7, <2>1 DEF Ret, name
<1>8. CASE name = "call_main"
  <2>1. CallMain
    BY <1>1, <1>2, <1>4, <1>8 DEF Run, PushReg, PopReg, SetReg, CallMain, Ret, WriteMem, TestMem,
                                  CondJump, GetChar, PutChar
  <2>. DEFINE m == ip + Current.len
  <2>2. m \in Int
    <3>1. Here({"call_main"})
      BY <2>1 DEF CallMain
    <3>. QED BY <1>1, <3>1, AtIns DEF MachineInv
  <2>3. stack' = Append(stack, Value("buffer", m)) /\ regs' = regs
    BY <2>1 DEF CallMain
  <2>. HIDE DEF m
  <2>4. Value("buffer", m) \in AnyValue
    BY <2>2, ValueType
  <2>. QED BY <1>8, <2>3, <2>4 DEF name
<1>9. CASE name \in {"mov_rbp_rsp", "mov_rbx_tape"}
  <2>1. SetReg
    BY <1>1, <1>2, <1>4, <1>9 DEF Run, PushReg, PopReg, SetReg, CallMain, Ret, WriteMem, TestMem,
                                  CondJump, GetChar, PutChar
  <2>2. Current.name = name /\ stack' = stack
    BY <1>2, <2>1 DEF SetReg
  <2>3. CASE name = "mov_rbp_rsp"
    <3>1. regs' = [regs EXCEPT !["rbp"] = Value("stack", Len(stack))]
      BY <2>1, <2>2, <2>3, Zenon DEF SetReg
    <3>. QED BY <2>2, <2>3, <3>1 DEF name
  <2>4. CASE name = "mov_rbx_tape"
    <3>1. regs' = [regs EXCEPT !["rbx"] = Value("tape", 0)]
      BY <2>1, <2>2, <2>4, Zenon DEF SetReg
    <3>. QED BY <2>2, <2>4, <3>1 DEF name
  <2>. QED BY <1>9, <2>3, <2>4
<1>. QED BY <1>5, <1>6, <1>7, <1>8, <1>9 DEF name

\* In the code of an opcode the main function's frame is below the top.
LEMMA DeepKept ==
  ASSUME Running, Deep, EntryKept
  PROVE  EntryKept'
<1>. DEFINE h == Len(stack)
<1>1. MachineInv /\ stack \in Seq(AnyValue) /\ h \in Nat /\ h >= 5 /\ Len(stack') >= 5
  BY DEF Running, MachineInv, Deep
<1>2. \/ stack' = stack
      \/ \E v : stack' = Append(stack, v)
      \/ stack # << >> /\ stack' = Front(stack)
  BY DEF Running, Run, PushReg, PopReg, SetReg, CallMain, Ret, WriteMem, TestMem, CondJump,
         GetChar, PutChar, Undefined, OnTrack, cpu
<1>3. ASSUME NEW j \in 3 .. 5 PROVE stack'[j] = stack[j]
  <2>1. CASE stack' = stack
    BY <2>1
  <2>2. CASE \E v : stack' = Append(stack, v)
    <3>1. PICK v : stack' = Append(stack, v)
      BY <2>2
    <3>2. j \in 1 .. Len(stack)
      BY <1>1, <1>3
    <3>. QED BY <1>1, <3>1, <3>2
  <2>3. CASE stack # << >> /\ stack' = Front(stack)
    <3>1. Len(stack') = Len(stack) - 1 /\ stack' = SubSeq(stack, 1, Len(stack) - 1)
      BY <1>1, <2>3 DEF Front
    <3>2. j \in 1 .. (Len(stack) - 1)
      BY <1>1, <1>3, <3>1
    <3>. QED BY <1>1, <3>1, <3>2
  <2>. QED BY <1>2, <2>1, <2>2, <2>3
<1>4. stack'[3] = stack[3] /\ stack'[4] = stack[4] /\ stack'[5] = stack[5]
  BY <1>3
<1>5. Preserved(3, "rbp") /\ Preserved(4, "rbx") /\ Preserved(5, "r12")
  <2>1. Len(stack) # 1
    BY <1>1
  <2>. QED BY <2>1 DEF EntryKept, BeforeTape
<1>6. stack[3] = OnEntry["rbp"] /\ stack[4] = OnEntry["rbx"] /\ stack[5] = OnEntry["r12"]
  BY <1>1, <1>5 DEF Preserved
<1>7. Len(stack') \in Nat
  BY <1>1, <1>2
<1>8. Preserved(3, "rbp")' /\ Preserved(4, "rbx")' /\ Preserved(5, "r12")'
  BY <1>1, <1>4, <1>6, <1>7, EntryValues DEF Preserved
<1>. QED BY <1>8 DEF EntryKept

LEMMA ThunkKept ==
  ASSUME Running, InThunk, EntryKept
  PROVE  EntryKept'
<1>1. PICK i \in 1 .. 3 : AtStep(Thunk, start, i) /\ Len(stack) = 1
  BY DEF InThunk
<1>2. /\ Thunk \in Seq(Legal) /\ i \in 1 .. Len(Thunk) /\ MachineInv
      /\ start \in Nat /\ Holds(buffer, Thunk, start)
  BY <1>1, FixedTemplates, TemplateShapes, RunningFacts DEF Running
<1>3. regs \in [Registers -> AnyValue]
  BY <1>2 DEF MachineInv
<1>4. CASE i = 1
  <2>1. stack' = stack /\ regs' = [regs EXCEPT !["rbx"] = Value("tape", 0)]
    BY <1>1, <1>2, <1>4, TemplateShapes, ValuesFrom
  <2>2. regs'["rbx"] = OnEntry["rbx"] /\ regs'["rbp"] = regs["rbp"] /\ regs'["r12"] = regs["r12"]
    BY <1>3, <2>1, EntryValues DEF Registers
  <2>3. regs["rbp"] = OnEntry["rbp"] /\ regs["r12"] = OnEntry["r12"]
    BY <1>1 DEF EntryKept, Preserved
  <2>4. Len(stack') = 1 /\ OnEntry' = OnEntry
    BY <1>1, <2>1, EntryValues
  <2>5. Preserved(3, "rbp")' /\ Preserved(4, "rbx")' /\ Preserved(5, "r12")'
    BY <2>2, <2>3, <2>4 DEF Preserved
  <2>. QED BY <2>5 DEF EntryKept
<1>5. CASE i = 2
  <2>1. ~BeforeTape
    <3>1. Ends(Thunk)[0] = 0 /\ Ends(Thunk)[1] = Ends(Thunk)[1 - 1] + Thunk[1].len
          /\ Thunk[1].len \in Nat \ {0}
      BY <1>2, TemplateShapes, LegalEnds
    <3>2. ip = start + Ends(Thunk)[1]
      BY <1>1, <1>5 DEF AtStep
    <3>3. BeforeTape => ip = start + Ends(Thunk)[0]
      BY DEF BeforeTape, AtStep
    <3>. QED BY <1>2, <3>1, <3>2, <3>3
  <2>2. PICK v \in AnyValue : stack' = Append(stack, v) /\ regs' = regs
    BY <1>1, <1>2, <1>5, TemplateShapes, ValuesFrom
  <2>3. Preserved(3, "rbp") /\ Preserved(4, "rbx") /\ Preserved(5, "r12")
    BY <2>1 DEF EntryKept
  <2>4. Preserved(3, "rbp")' /\ Preserved(4, "rbx")' /\ Preserved(5, "r12")'
    BY <1>1, <1>2, <2>2, <2>3, KeptByPush
  <2>. QED BY <2>4 DEF EntryKept
<1>6. i # 3
  <2>. SUFFICES ASSUME i = 3 PROVE FALSE
    OBVIOUS
  <2>1. Thunk[i].name = "ret"
    BY TemplateShapes
  <2>2. Len(stack) = 2
    BY <1>1, <1>2, <2>1, StepFrom
  <2>. QED BY <1>1, <2>2
<1>. QED BY <1>4, <1>5, <1>6

\* What the prologue pushes and the epilogue pops.
LEMMA SavedRegisters ==
  /\ Prologue[1].arg = "rbp" /\ Prologue[3].arg = "rbx" /\ Prologue[4].arg = "r12"
  /\ Epilogue[1].arg = "r12" /\ Epilogue[2].arg = "rbx" /\ Epilogue[3].arg = "rbp"
<1>1. Prologue[1].arg = "rbp" /\ Prologue[3].arg = "rbx" /\ Prologue[4].arg = "r12"
  BY DEF Prologue, Ins
<1>2. Epilogue[1].arg = "r12" /\ Epilogue[2].arg = "rbx" /\ Epilogue[3].arg = "rbp"
  BY DEF Epilogue, Ins
<1>. QED BY <1>1, <1>2

LEMMA PrologueKept ==
  ASSUME Running, InMainPrologue, EntryKept
  PROVE  EntryKept'
<1>1. PICK i \in 1 .. 4 : AtStep(Prologue, 0, i) /\ Len(stack) = 2 + Saved[i]
  BY DEF InMainPrologue
<1>2. /\ Prologue \in Seq(Legal) /\ i \in 1 .. Len(Prologue) /\ MachineInv
      /\ Holds(buffer, Prologue, 0)
  BY <1>1, FixedTemplates, TemplateShapes, RunningFacts DEF Running
<1>3. Len(stack) >= 2 /\ Len(stack) = IF i = 1 THEN 2 ELSE IF i = 4 THEN 4 ELSE 3
  BY <1>1 DEF Saved
<1>4. Preserved(3, "rbp") /\ Preserved(4, "rbx") /\ Preserved(5, "r12")
  BY <1>3 DEF EntryKept, BeforeTape
<1>5. CASE i = 2
  <2>1. PICK v : stack' = stack /\ regs' = [regs EXCEPT !["rbp"] = v]
    <3>. DEFINE z == 0
    <3>1. Prologue[i].name = "mov_rbp_rsp"
      BY <1>5, TemplateShapes
    <3>2. z \in Nat /\ Holds(buffer, Prologue, z) /\ AtStep(Prologue, z, i)
      BY <1>1, <1>2
    <3>. HIDE DEF z
    <3>. QED BY <1>2, <3>1, <3>2, ValuesFrom
  <2>2. regs'["rbx"] = regs["rbx"] /\ regs'["r12"] = regs["r12"] /\ Len(stack) = 3
    BY <1>2, <1>3, <1>5, <2>1 DEF MachineInv, Registers
  <2>. QED BY <1>4, <2>1, <2>2, EntryValues DEF EntryKept, Preserved
<1>6. CASE i # 2
  <2>. DEFINE a == Prologue[i].arg
  <2>1. i \in {1, 3, 4}
    BY <1>6
  <2>2. Prologue[i].name = "push" /\ a = (CASE i = 1 -> "rbp" [] i = 3 -> "rbx" [] i = 4 -> "r12")
    BY <2>1, TemplateShapes, SavedRegisters
  <2>3. regs' = regs /\ stack' = Append(stack, regs[a]) /\ regs[a] \in AnyValue
    BY <1>1, <1>2, <2>2, ValuesFrom
  <2>4. /\ 3 = Len(stack) + 1 => a = "rbp"
        /\ 4 = Len(stack) + 1 => a = "rbx"
        /\ 5 = Len(stack) + 1 => a = "r12"
    BY <1>3, <2>1, <2>2
  <2>. HIDE DEF a
  <2>5. Preserved(3, "rbp")' /\ Preserved(4, "rbx")' /\ Preserved(5, "r12")'
    BY <1>2, <1>4, <2>3, <2>4, KeptByPush
  <2>. QED BY <2>5 DEF EntryKept
<1>. QED BY <1>5, <1>6

LEMMA EpilogueKept ==
  ASSUME Running, InMainEpilogue, EntryKept
  PROVE  EntryKept'
<1>. DEFINE n == addrs[Len(code) + 1]
<1>1. PICK i \in 1 .. 4 : AtStep(Epilogue, n, i) /\ Len(stack) = 6 - i
  BY DEF InMainEpilogue
<1>2. /\ Epilogue \in Seq(Legal) /\ i \in 1 .. Len(Epilogue) /\ MachineInv
      /\ n \in Nat /\ Holds(buffer, Epilogue, n)
  <2>1. Len(code) + 1 \in 1 .. (Len(code) + 1)
    BY RunningFacts
  <2>. QED BY <1>1, <2>1, FixedTemplates, TemplateShapes, RunningFacts DEF Running
<1>. HIDE DEF n
<1>3. Preserved(3, "rbp") /\ Preserved(4, "rbx") /\ Preserved(5, "r12")
  BY <1>1 DEF EntryKept, BeforeTape
<1>4. CASE i = 4
  <2>1. Len(stack) = 2 /\ Len(stack') = 1 /\ regs' = regs
    BY <1>1, <1>2, <1>4, TemplateShapes, StepFrom, ValuesFrom
  <2>. QED BY <1>3, <2>1, EntryValues DEF EntryKept, Preserved
<1>5. CASE i # 4
  <2>. DEFINE a == Epilogue[i].arg
  <2>1. i \in {1, 2, 3}
    BY <1>5
  <2>2. Epilogue[i].name = "pop" /\ a = (CASE i = 1 -> "r12" [] i = 2 -> "rbx" [] i = 3 -> "rbp")
    BY <2>1, TemplateShapes, SavedRegisters
  <2>3. /\ stack # << >> /\ stack' = Front(stack) /\ a \in Registers
        /\ regs' = [regs EXCEPT ![a] = Last(stack)]
    BY <1>1, <1>2, <2>2, ValuesFrom
  <2>4. /\ 3 >= Len(stack) => ("rbp" = a <=> 3 = Len(stack))
        /\ 4 >= Len(stack) => ("rbx" = a <=> 4 = Len(stack))
        /\ 5 >= Len(stack) => ("r12" = a <=> 5 = Len(stack))
    BY <1>1, <2>1, <2>2
  <2>. HIDE DEF a
  <2>5. Preserved(3, "rbp")'
    <3>1. "rbp" \in Registers /\ 3 \in Nat \ {0}
      BY DEF Registers
    <3>. QED BY <1>2, <1>3, <2>3, <2>4, <3>1, KeptByPop
  <2>6. Preserved(4, "rbx")'
    <3>1. "rbx" \in Registers /\ 4 \in Nat \ {0}
      BY DEF Registers
    <3>. QED BY <1>2, <1>3, <2>3, <2>4, <3>1, KeptByPop
  <2>7. Preserved(5, "r12")'
    <3>1. "r12" \in Registers /\ 5 \in Nat \ {0}
      BY DEF Registers
    <3>. QED BY <1>2, <1>3, <2>3, <2>4, <3>1, KeptByPop
  <2>. QED BY <2>5, <2>6, <2>7 DEF EntryKept
<1>. QED BY <1>4, <1>5

\* No step loses what is kept.
LEMMA NextKeepsEntry ==
  ASSUME CompilerInv, MachineInv, LayoutInv, PathInv, EntryInv, [Next]_vars
  PROVE  EntryInv'
<1>1. CASE Compile \/ PatchJump \/ (CallThunk /\ phase' = "failed")
  <2>1. phase \in Starting /\ phase' # "run"
    BY <1>1 DEF Starting, Compile, MapBuffer, AllocAddresses, EnterMain, EmitOp, EnterLambda,
                LeaveLambda, LeaveMain, Compiling, PatchJump, PatchNext, CallThunk, Fail
  <2>2. regs' = regs
    BY <1>1 DEF Compile, PatchJump, CallThunk, cpu
  <2>. QED BY <2>1, <2>2 DEF EntryInv, Callers
<1>2. CASE CallThunk /\ phase' # "failed"
  <2>1. /\ phase = "patch" /\ phase' = "run" /\ regs' = regs /\ start' = start
        /\ stack' = << Value("caller", 0) >> /\ ip' = start
    BY <1>2 DEF CallThunk, Fail, jit
  <2>2. regs = Callers
    BY <2>1 DEF EntryInv, Starting
  <2>. DEFINE v == Value("caller", 0)
  <2>. HIDE DEF v
  <2>3. Len(stack') = 1
    BY <2>1 DEF v
  <2>4. start \in Nat /\ Ends(Thunk)[1 - 1] = 0
    BY FixedTemplates, LegalEnds DEF CompilerInv, CompilerTypes
  <2>5. BeforeTape'
    BY <2>1, <2>3, <2>4 DEF BeforeTape, AtStep
  <2>6. Preserved(3, "rbp")' /\ Preserved(5, "r12")'
    BY <2>1, <2>2, <2>3, EntryValues DEF Preserved
  <2>7. phase' \notin Starting
    BY <2>1 DEF Starting
  <2>. QED BY <2>5, <2>6, <2>7 DEF EntryInv, EntryKept
<1>3. CASE Run
  <2>1. phase = "run" /\ phase' \notin Starting
    BY <1>3 DEF Run, Here, PushReg, PopReg, SetReg, CallMain, WriteMem, TestMem, CondJump,
                GetChar, PutChar, Undefined, Ret, Starting
  <2>2. CASE phase' = "run"
    <3>1. Running /\ Located /\ EntryKept
      BY <1>3, <2>1, <2>2 DEF Running, PathInv, EntryInv
    <3>2. ASSUME NEW k \in DOMAIN code, InOp(k) PROVE Deep
      BY <3>1, <3>2, DefinitionSteps, ReturnSteps, CallSteps, OtherSteps DEF InOp
    <3>3. EntryKept'
      BY <3>1, <3>2, DeepKept, ThunkKept, PrologueKept, EpilogueKept DEF Located
    <3>. QED BY <2>1, <3>3 DEF EntryInv
  <2>3. CASE phase' # "run"
    BY <2>1, <2>3 DEF EntryInv
  <2>. QED BY <2>2, <2>3
<1>4. CASE UNCHANGED vars
  <2>1. UNCHANGED <<phase, start, ip, regs, stack>>
    BY <1>4 DEF vars, cpu, jit
  <2>2. (EntryKept => EntryKept')
    BY <2>1, EntryValues DEF EntryKept, Preserved, BeforeTape, AtStep
  <2>. QED BY <2>1, <2>2 DEF EntryInv, Callers
<1>. QED BY <1>1, <1>2, <1>3, <1>4 DEF Next

\* What a pop finds.
LEMMA PopsFindEntry ==
  ASSUME CompilerInv, MachineInv, LayoutInv, PathInv, EntryInv, phase = "run", Here({"pop"})
  PROVE  Last(stack) = OnEntry[Current.arg] \/ InLambdaCode
<1>. SUFFICES ASSUME ~InLambdaCode PROVE Last(stack) = OnEntry[Current.arg]
  OBVIOUS
<1>1. InMainEpilogue /\ EntryKept
  BY OnPath DEF EntryInv
<1>. DEFINE n == addrs[Len(code) + 1]
<1>2. PICK i \in 1 .. 4 : AtStep(Epilogue, n, i) /\ Len(stack) = 6 - i
  BY <1>1 DEF InMainEpilogue
<1>3. n \in Nat /\ Holds(buffer, Epilogue, n)
  <2>1. Len(code) + 1 \in 1 .. (Len(code) + 1)
    BY LayoutFacts
  <2>. QED BY <2>1, LayoutFacts
<1>. HIDE DEF n
<1>4. Epilogue \in Seq(Legal) /\ i \in 1 .. Len(Epilogue)
  BY FixedTemplates, TemplateShapes
<1>5. Epilogue[i].name = "pop" /\ Current.arg = Epilogue[i].arg
  <2>1. Here({"pop"}) <=> Epilogue[i].name \in {"pop"}
    BY <1>2, <1>3, <1>4, AtTemplate
  <2>2. Epilogue[i].name = "pop"
    BY <2>1
  <2>. QED BY <1>2, <1>3, <1>4, <2>2, AtTemplate
<1>6. i # 4
  BY <1>5, TemplateShapes
<1>7. stack \in Seq(AnyValue) /\ Last(stack) = stack[6 - i]
  BY <1>2 DEF MachineInv, Last
<1>8. Preserved(3, "rbp") /\ Preserved(4, "rbx") /\ Preserved(5, "r12")
  BY <1>1, <1>2 DEF EntryKept, BeforeTape
<1>9. CASE i = 1
  <2>1. Last(stack) = stack[5] /\ Len(stack) = 5
    BY <1>2, <1>7, <1>9
  <2>. QED BY <1>5, <1>8, <1>9, <2>1, SavedRegisters DEF Preserved
<1>10. CASE i = 2
  <2>1. Last(stack) = stack[4] /\ Len(stack) = 4
    BY <1>2, <1>7, <1>10
  <2>. QED BY <1>5, <1>8, <1>10, <2>1, SavedRegisters DEF Preserved
<1>11. CASE i = 3
  <2>1. Last(stack) = stack[3] /\ Len(stack) = 3
    BY <1>2, <1>7, <1>11
  <2>. QED BY <1>5, <1>8, <1>11, <2>1, SavedRegisters DEF Preserved
<1>. QED BY <1>6, <1>9, <1>10, <1>11

-----------------------------------------------------------------------------
(* The pointer of the emitted code is 64 bits wide, that of interpreter()  *)
(* 32: as long as the moves are few, they are on the same cell or both off *)
(* the tape.                                                               *)

\* The moves add up.
LEMMA MovesMeaning ==
  ASSUME NEW c \in Seq(Opcode)
  PROVE  /\ Len(c) \in Nat
         /\ \A k \in 0 .. Len(c) : Moves(c)[k] \in Nat /\ Moves(c)[k] <= Moves(c)[Len(c)]
         /\ \A k \in 1 .. Len(c) :
               Moves(c)[k] = Moves(c)[k - 1]
                 + (IF c[k].op \in {"op_addp", "op_subp"} THEN c[k].num ELSE 0)
<1>. DEFINE t == [k \in DOMAIN c |->
                    [len |-> IF c[k].op \in {"op_addp", "op_subp"} THEN c[k].num ELSE 0]]
<1>1. Len(c) \in Nat /\ DOMAIN c = 1 .. Len(c) /\ \A k \in 1 .. Len(c) : c[k].num \in Nat
  <2>1. \A k \in 1 .. Len(c) : c[k] \in Opcode
    OBVIOUS
  <2>. QED BY <2>1 DEF Opcode
<1>2. Len(t) = Len(c)
  <2>1. t \in Seq({t[k] : k \in DOMAIN c}) /\ DOMAIN t = 1 .. Len(c)
    BY <1>1
  <2>2. Len(t) \in Nat /\ DOMAIN t = 1 .. Len(t)
    BY <2>1
  <2>. QED BY ONLY <1>1, <2>1, <2>2
<1>3. \A k \in 1 .. Len(c) :
         t[k].len = (IF c[k].op \in {"op_addp", "op_subp"} THEN c[k].num ELSE 0)
  BY <1>1
<1>4. Moves(c) = Ends(t)
  BY DEF Moves
<1>. HIDE DEF t
<1>5. \A k \in 1 .. Len(t) : t[k].len \in Nat
  BY <1>1, <1>2, <1>3
<1>6. /\ \A k \in 1 .. Len(t) : Ends(t)[k] = Ends(t)[k - 1] + t[k].len
      /\ \A k \in 0 .. Len(t) : Ends(t)[k] \in Nat /\ \A i \in 0 .. k : Ends(t)[i] <= Ends(t)[k]
  BY <1>1, <1>2, <1>5, EndsMeaning
<1>7. Len(c) \in 0 .. Len(c)
  BY <1>1
<1>. QED BY <1>1, <1>2, <1>3, <1>4, <1>6, <1>7

LEMMA PointerOnTape ==
  ASSUME NEW q \in (TapeSize - PtrMod) .. (PtrMod - 1)
  PROVE  /\ OnTape(q) <=> OnTape(PtrPlus(q, 0))
         /\ OnTape(q) => PtrPlus(q, 0) = q
<1>1. PtrMod \in Nat \ {0} /\ TapeSize \in Nat \ {0} /\ PtrMod > TapeSize
  BY MachineAssumption
<1>2. q \in Int /\ PtrPlus(q, 0) = q % PtrMod
  BY <1>1 DEF PtrPlus
<1>3. CASE q >= 0
  <2>1. q % PtrMod = q
    BY <1>1, <1>2, <1>3, SmallRemainder
  <2>. QED BY <1>2, <2>1
<1>4. CASE q < 0
  <2>. DEFINE x == q + PtrMod
              j == 1
  <2>1. /\ x \in TapeSize .. (PtrMod - 1) /\ x \in Int
        /\ x = q + (PtrMod * j) /\ j \in Int
    BY <1>1, <1>2, <1>4
  <2>2. x % PtrMod = x
    BY <1>1, <2>1, SmallRemainder
  <2>. HIDE DEF x, j
  <2>3. x % PtrMod = q % PtrMod
    BY <1>1, <1>2, <2>1, SameRemainder
  <2>4. ~OnTape(q) /\ ~OnTape(x)
    BY <1>1, <1>2, <1>4, <2>1 DEF OnTape
  <2>. QED BY <1>2, <2>2, <2>3, <2>4
<1>. QED BY <1>2, <1>3, <1>4

\* What the sign extension of imm32 makes of a number.
LEMMA Imm32Value ==
  ASSUME NEW n \in Nat
  PROVE  /\ Imm32(n) \in Int /\ Imm32(n) <= n /\ -n <= Imm32(n)
         /\ \E j \in Int : n = Imm32(n) + (PtrMod * j)
<1>. DEFINE d == n \div PtrMod
            r == n % PtrMod
<1>1. PtrMod \in Nat \ {0}
  BY MachineAssumption
<1>2. n = (PtrMod * d) + r /\ d \in Int /\ r \in 0 .. (PtrMod - 1)
  BY <1>1, Division
<1>3. Imm32(n) = IF 2 * r < PtrMod THEN r ELSE r - PtrMod
  BY DEF Imm32
<1>. HIDE DEF d, r
<1>4. d >= 0
  <2>1. CASE d <= -1
    <3>1. PtrMod * d <= -PtrMod
      BY <1>1, <1>2, <2>1
    <3>. QED BY <1>1, <1>2, <3>1
  <2>. QED BY <1>2, <2>1
<1>5. PtrMod * d >= 0
  BY <1>1, <1>2, <1>4
<1>6. r <= n
  BY <1>1, <1>2, <1>5
<1>7. CASE 2 * r < PtrMod
  <2>1. Imm32(n) = r /\ r \in Int /\ r <= n /\ -n <= r
    BY <1>1, <1>2, <1>3, <1>6, <1>7
  <2>2. \E j \in Int : n = r + (PtrMod * j)
    <3>1. n = r + (PtrMod * d)
      BY <1>1, <1>2
    <3>. QED BY <1>2, <3>1, Zenon
  <2>. QED BY <2>1, <2>2, Zenon
<1>8. CASE ~(2 * r < PtrMod)
  <2>1. Imm32(n) = r - PtrMod /\ r - PtrMod \in Int /\ r - PtrMod <= n /\ -n <= r - PtrMod
    BY <1>1, <1>2, <1>3, <1>6, <1>8
  <2>2. PtrMod * (d + 1) = (PtrMod * d) + PtrMod /\ d + 1 \in Int
    BY <1>1, <1>2
  <2>3. n = (r - PtrMod) + (PtrMod * (d + 1))
    BY <1>1, <1>2, <2>2
  <2>. QED BY <2>1, <2>2, <2>3
<1>. QED BY <1>7, <1>8

\* A move keeps the two pointers together, and an addition the two cells.
LEMMA MovesAlike ==
  ASSUME NEW q \in Int, NEW n \in Nat
  PROVE  /\ PtrPlus(q + Imm32(n), 0) = PtrPlus(PtrPlus(q, 0), n)
         /\ PtrPlus(q + (-Imm32(n)), 0) = PtrPlus(PtrPlus(q, 0), -n)
<1>1. PtrMod \in Nat \ {0}
  BY MachineAssumption
<1>2. Imm32(n) \in Int
  BY Imm32Value
<1>3. PICK j \in Int : n = Imm32(n) + (PtrMod * j)
  BY Imm32Value
<1>. DEFINE i == Imm32(n)
            a == q + i
            b == q + n
            u == q + (-i)
            v == q + (-n)
<1>. HIDE DEF i
<1>4. i \in Int /\ n = i + (PtrMod * j)
  BY <1>2, <1>3 DEF i
<1>5. b = a + (PtrMod * j) /\ u = v + (PtrMod * j) /\ a \in Int /\ b \in Int /\ u \in Int /\ v \in Int
  BY <1>1, <1>4
<1>6. ((q % PtrMod) + n) % PtrMod = b % PtrMod /\ ((q % PtrMod) + (-n)) % PtrMod = v % PtrMod
  <2>1. n \in Int /\ -n \in Int
    OBVIOUS
  <2>. QED BY <1>1, <2>1, SumRemainder
<1>7. PtrPlus(q, 0) = q % PtrMod /\ PtrPlus(a, 0) = a % PtrMod /\ PtrPlus(u, 0) = u % PtrMod
  BY <1>5 DEF PtrPlus
<1>8. b % PtrMod = a % PtrMod /\ u % PtrMod = v % PtrMod
  <2>. HIDE DEF a, b, u, v
  <2>. QED BY <1>1, <1>5, SameRemainder
<1>9. PtrPlus(a, 0) = PtrPlus(PtrPlus(q, 0), n) /\ PtrPlus(u, 0) = PtrPlus(PtrPlus(q, 0), -n)
  BY <1>6, <1>7, <1>8 DEF PtrPlus
<1>. QED BY <1>9 DEF i

LEMMA AddsAlike ==
  ASSUME NEW x \in Int, NEW n \in Nat
  PROVE  CellPlus(x, Imm8(n)) = CellPlus(x, n) /\ CellPlus(x, -Imm8(n)) = CellPlus(x, -n)
<1>1. CellMod \in Nat \ {0}
  BY MachineAssumption
<1>2. n \in Int
  OBVIOUS
<1>3. /\ (x + (n % CellMod)) % CellMod = (x + n) % CellMod
      /\ (x - (n % CellMod)) % CellMod = (x - n) % CellMod
  BY <1>1, <1>2, SumRemainder, DifferenceRemainder, Zenon
<1>4. n % CellMod \in Int
  BY <1>1, Division
<1>5. x + (-(n % CellMod)) = x - (n % CellMod) /\ x + (-n) = x - n
  BY <1>4
<1>. QED BY <1>3, <1>5 DEF CellPlus, Imm8

-----------------------------------------------------------------------------
(* Which opcode the processor is at.  Without the lambda syntax, the code  *)
(* of the opcodes stands in the buffer in their order.                     *)

LEMMA Ordered ==
  ASSUME CompilerInv, LayoutInv, phase = "run", Compared
  PROVE  /\ Len(code) \in Nat /\ DOMAIN code = 1 .. Len(code)
         /\ DOMAIN addrs = 1 .. (Len(code) + 1)
         /\ \A i \in DOMAIN addrs : addrs[i] \in Nat
         /\ \A i, j \in DOMAIN addrs : i < j => addrs[i] < addrs[j]
         /\ addrs[1] = Length(Prologue) /\ Length(Prologue) \in Nat
         /\ start = addrs[Len(code) + 1] + Length(Epilogue) /\ Length(Epilogue) \in Nat
         /\ addrs[Len(code) + 1] < start
         /\ \A k \in DOMAIN code :
              LET t == Template(code[k])
              IN  /\ code[k] \in Opcode /\ t \in Seq(Legal) /\ Holds(buffer, t, addrs[k])
                  /\ addrs[k + 1] = addrs[k] + Length(t) /\ Length(t) \in Nat \ {0}
                  /\ k \in DOMAIN addrs /\ k + 1 \in DOMAIN addrs
                  /\ code[k].op \notin {"op_def_lambda", "op_ret", "op_call"}
<1>. DEFINE n == Len(code)
<1>1. /\ code \in Seq(Opcode) /\ n \in Nat /\ DOMAIN code = 1 .. n
      /\ addrs[1] = Length(Prologue) /\ \A k \in 1 .. (n + 1) : addrs[k] \in Nat
      /\ start = addrs[n + 1] + Length(Epilogue)
      /\ \A k \in DOMAIN code : CodeAt(k)
  BY LayoutFacts
<1>2. DOMAIN addrs = 1 .. (n + 1)
  <2>1. addrs \in Seq(Nat) /\ Len(addrs) = n + 1
    BY DEF CompilerInv, CompilerTypes
  <2>. QED BY <2>1
<1>3. ASSUME NEW t \in Seq(Legal), Len(t) \in Nat \ {0} PROVE Length(t) \in Nat \ {0}
  <2>1. Len(t) \in 1 .. Len(t) /\ Len(t) - 1 \in 0 .. Len(t)
    BY <1>3
  <2>2. /\ Ends(t)[Len(t)] = Ends(t)[Len(t) - 1] + t[Len(t)].len
        /\ Ends(t)[Len(t) - 1] \in Nat /\ t[Len(t)].len \in Nat \ {0}
    BY <2>1, LegalEnds
  <2>. QED BY <2>2 DEF Length
<1>4. ASSUME NEW k \in DOMAIN code
      PROVE  /\ code[k] \in Opcode /\ Template(code[k]) \in Seq(Legal)
             /\ Holds(buffer, Template(code[k]), addrs[k])
             /\ addrs[k + 1] = addrs[k] + Length(Template(code[k]))
             /\ Length(Template(code[k])) \in Nat \ {0}
             /\ k \in 1 .. (n + 1) /\ k + 1 \in 1 .. (n + 1)
             /\ code[k].op \notin {"op_def_lambda", "op_ret", "op_call"}
  <2>1. code[k] \in Opcode /\ code[k].op \notin {"op_def_lambda", "op_ret", "op_call"}
    BY <1>1 DEF Compared
  <2>2. Template(code[k]) \in Seq(Legal) /\ Len(Template(code[k])) \in Nat \ {0}
    BY <2>1, OpTemplate, OtherShapes
  <2>3. CodeAt(k)
    BY <1>1
  <2>4. /\ Holds(buffer, Template(code[k]), addrs[k])
        /\ addrs[k + 1] = addrs[k] + Length(Template(code[k]))
    BY <2>1, <2>3 DEF CodeAt, CodeHeld, CodeLength
  <2>5. k \in 1 .. (n + 1) /\ k + 1 \in 1 .. (n + 1)
    BY <1>1
  <2>. QED BY <1>3, <2>1, <2>2, <2>4, <2>5
<1>5. \A k \in 1 .. n : addrs[k] < addrs[k + 1]
  <2>. SUFFICES ASSUME NEW k \in 1 .. n PROVE addrs[k] < addrs[k + 1]
    OBVIOUS
  <2>. DEFINE l == Length(Template(code[k]))
  <2>1. addrs[k + 1] = addrs[k] + l /\ l \in Nat \ {0} /\ addrs[k] \in Nat
    BY <1>1, <1>4
  <2>. HIDE DEF l
  <2>. QED BY <2>1
<1>6. \A i, j \in 1 .. (n + 1) : i < j => addrs[i] < addrs[j]
  BY <1>1, <1>5, Increasing
<1>7. Length(Prologue) \in Nat /\ Length(Epilogue) \in Nat \ {0}
  <2>1. Len(Epilogue) \in Nat \ {0}
    BY TemplateShapes
  <2>. QED BY <1>3, <2>1, FixedTemplates, LegalEnds
<1>8. addrs[n + 1] < start
  <2>1. addrs[n + 1] \in Nat
    BY <1>1
  <2>. QED BY <1>1, <1>7, <2>1
<1>. QED BY <1>1, <1>2, <1>4, <1>6, <1>7, <1>8

\* The processor has got to the code of m opcodes.
Reached(m) ==
  /\ phase \in {"run", "undefined"} /\ ip \in Nat /\ start \in Nat /\ ip < start
  /\ \A j \in DOMAIN addrs : addrs[j] <= ip <=> j <= m

LEMMA PcIs ==
  ASSUME NEW m \in Nat, DOMAIN addrs \in SUBSET Nat, 1 .. m \subseteq DOMAIN addrs,
         0 \notin DOMAIN addrs, Reached(m)
  PROVE  PcOf = IF m = 0 THEN 0 ELSE m - 1
<1>. DEFINE S == {0} \cup {k - 1 : k \in {j \in DOMAIN addrs : addrs[j] <= ip}}
            v == IF m = 0 THEN 0 ELSE m - 1
<1>1. {j \in DOMAIN addrs : addrs[j] <= ip} = 1 .. m
  BY DEF Reached
<1>2. S = {0} \cup {k - 1 : k \in 1 .. m}
  BY <1>1
<1>. HIDE DEF S
<1>3. v \in S /\ S \subseteq Nat /\ \A x \in S : x <= v
  BY <1>2
<1>4. Max(S) = v
  <2>1. \A x \in S : (\A y \in S : x >= y) => x = v
    BY <1>3
  <2>2. \A y \in S : v >= y
    BY <1>3
  <2>. QED BY <1>3, <2>1, <2>2 DEF Max
<1>5. PcOf = Max(S)
  <2>1. phase # "returned" /\ phase \in {"run", "undefined"} /\ ip < start /\ ~(ip > start)
    BY DEF Reached
  <2>. QED BY <2>1, Zenon DEF PcOf, S
<1>. QED BY <1>4, <1>5

LEMMA PcIsNext ==
  (\A m \in Nat :
     DOMAIN addrs \in SUBSET Nat /\ 1 .. m \subseteq DOMAIN addrs
       /\ 0 \notin DOMAIN addrs /\ Reached(m) =>
     PcOf = IF m = 0 THEN 0 ELSE m - 1)'
<1>1. \A m \in Nat :
        DOMAIN addrs \in SUBSET Nat /\ 1 .. m \subseteq DOMAIN addrs
          /\ 0 \notin DOMAIN addrs /\ Reached(m) =>
        PcOf = IF m = 0 THEN 0 ELSE m - 1
  BY PcIs
<1>. QED BY <1>1, PTL

\* The pointer at opcode k: the moves so far have not brought it further than
\* they could since the last access to the tape.
Follows(k) ==
  /\ regs["rbx"].base = "tape" /\ pointer = PtrPlus(p, 0)
  /\ p \in (-Moves(code)[k - 1]) .. (TapeSize - 1 + Moves(code)[k - 1])

\* Between the test and the jump of a bracket, the flag is that of the cell.
InCode(k) ==
  /\ Len(stack) = 5 /\ Follows(k)
  /\ \E i \in 1 .. Len(Template(code[k])) :
        /\ AtStep(Template(code[k]), addrs[k], i)
        /\ i = 2 => AtCell /\ (zf <=> mem[p] = 0)

BeforeCode ==
  /\ pointer = 0
  /\ \/ AtStep(Thunk, start, 1) /\ Len(stack) = 1
     \/ AtStep(Thunk, start, 2) /\ Len(stack) = 1 /\ regs["rbx"] = Value("tape", 0)
     \/ InMainPrologue /\ regs["rbx"] = Value("tape", 0)

AfterCode == InMainEpilogue \/ (AtStep(Thunk, start, 3) /\ Len(stack) = 1)

TraceInv ==
  /\ Moves(code)[Len(code)] <= PtrMod - TapeSize
  /\ NotStarted => pointer = 0
  /\ phase = "run" /\ Compared =>
       BeforeCode \/ AfterCode \/ \E k \in DOMAIN code : InCode(k)

\* The instructions of opcode k are behind the code of k opcodes.
LEMMA ReachedCode ==
  ASSUME CompilerInv, MachineInv, LayoutInv, phase = "run", Compared,
         NEW k \in DOMAIN code, NEW i \in 1 .. Len(Template(code[k])),
         AtStep(Template(code[k]), addrs[k], i)
  PROVE  /\ Reached(k) /\ addrs[1] <= ip /\ ip < addrs[Len(code) + 1]
         /\ ip \in addrs[k] .. (addrs[k + 1] - 1)
<1>. DEFINE n == Len(code)
            t == Template(code[k])
<1>1. /\ n \in Nat /\ DOMAIN code = 1 .. n /\ DOMAIN addrs = 1 .. (n + 1)
      /\ \A j \in DOMAIN addrs : addrs[j] \in Nat
      /\ \A a, b \in DOMAIN addrs : a < b => addrs[a] < addrs[b]
      /\ addrs[n + 1] < start
      /\ t \in Seq(Legal) /\ addrs[k + 1] = addrs[k] + Length(t)
      /\ k \in DOMAIN addrs /\ k + 1 \in DOMAIN addrs
  BY Ordered
<1>2. ip \in addrs[k] .. (addrs[k] + Length(t) - 1)
  BY <1>1, WithinTemplate
<1>3. ip \in Nat /\ start \in Nat
  BY DEF MachineInv, CompilerInv, CompilerTypes
<1>4. k \in 1 .. n /\ addrs[k] \in Nat /\ addrs[k + 1] \in Nat /\ addrs[n + 1] \in Nat /\ addrs[1] \in Nat
  BY <1>1
<1>5. addrs[k] <= ip /\ ip < addrs[k + 1]
  <2>. DEFINE l == Length(t)
  <2>1. l \in Nat /\ addrs[k + 1] = addrs[k] + l /\ ip \in addrs[k] .. (addrs[k] + l - 1)
    BY <1>1, <1>2, LegalEnds
  <2>. HIDE DEF l
  <2>. QED BY <1>3, <1>4, <2>1
<1>. HIDE DEF t
<1>6. addrs[k + 1] <= addrs[n + 1] /\ addrs[1] <= addrs[k]
  <2>1. k + 1 = n + 1 \/ k + 1 < n + 1
    BY <1>1, <1>4
  <2>2. k = 1 \/ 1 < k
    BY <1>4
  <2>3. n + 1 \in DOMAIN addrs /\ 1 \in DOMAIN addrs
    BY <1>1
  <2>4. addrs[k + 1] = addrs[n + 1] \/ addrs[k + 1] < addrs[n + 1]
    BY <1>1, <2>1, <2>3
  <2>5. addrs[1] = addrs[k] \/ addrs[1] < addrs[k]
    BY <1>1, <2>2, <2>3
  <2>. QED BY <1>4, <2>4, <2>5
<1>7. ASSUME NEW j \in DOMAIN addrs PROVE addrs[j] <= ip <=> j <= k
  <2>1. j \in Nat /\ addrs[j] \in Nat
    BY <1>1
  <2>2. CASE j <= k
    <3>1. j = k \/ j < k
      BY <1>4, <2>1, <2>2
    <3>2. addrs[j] = addrs[k] \/ addrs[j] < addrs[k]
      BY <1>1, <3>1
    <3>. QED BY <1>3, <1>4, <1>5, <2>1, <2>2, <3>2
  <2>3. CASE ~(j <= k)
    <3>1. j = k + 1 \/ k + 1 < j
      BY <1>4, <2>1, <2>3
    <3>2. addrs[j] = addrs[k + 1] \/ addrs[k + 1] < addrs[j]
      BY <1>1, <3>1
    <3>. QED BY <1>3, <1>4, <1>5, <2>1, <2>3, <3>2
  <2>. QED BY <2>2, <2>3
<1>8. Reached(k)
  BY <1>1, <1>3, <1>4, <1>5, <1>6, <1>7 DEF Reached
<1>. QED BY <1>1, <1>3, <1>4, <1>5, <1>6, <1>8

LEMMA ReachedEpilogue ==
  ASSUME CompilerInv, MachineInv, LayoutInv, phase = "run", Compared,
         NEW i \in 1 .. 4, AtStep(Epilogue, addrs[Len(code) + 1], i)
  PROVE  Reached(Len(code) + 1) /\ addrs[Len(code) + 1] <= ip /\ (i # 1 => addrs[Len(code) + 1] < ip)
<1>. DEFINE n == Len(code)
<1>1. /\ n \in Nat /\ DOMAIN addrs = 1 .. (n + 1)
      /\ \A j \in DOMAIN addrs : addrs[j] \in Nat
      /\ \A a, b \in DOMAIN addrs : a < b => addrs[a] < addrs[b]
      /\ start = addrs[n + 1] + Length(Epilogue)
  BY Ordered
<1>2. Epilogue \in Seq(Legal) /\ i \in 1 .. Len(Epilogue) /\ Len(Epilogue) = 4
  BY FixedTemplates, TemplateShapes
<1>3. n + 1 \in DOMAIN addrs /\ addrs[n + 1] \in Nat
  BY <1>1
<1>4. ip \in addrs[n + 1] .. (addrs[n + 1] + Length(Epilogue) - 1)
  BY <1>2, <1>3, WithinTemplate
<1>5. ip \in Nat /\ start \in Nat /\ Length(Epilogue) \in Nat
  BY FixedTemplates, LegalEnds DEF MachineInv, CompilerInv, CompilerTypes
<1>6. addrs[n + 1] <= ip /\ ip < start
  BY <1>1, <1>3, <1>4, <1>5
<1>7. ASSUME NEW j \in DOMAIN addrs PROVE addrs[j] <= ip
  <2>1. j = n + 1 \/ j < n + 1
    BY <1>1
  <2>2. addrs[j] = addrs[n + 1] \/ addrs[j] < addrs[n + 1]
    BY <1>1, <1>3, <2>1
  <2>. QED BY <1>1, <1>3, <1>5, <1>6, <2>2
<1>8. Reached(n + 1)
  BY <1>1, <1>5, <1>6, <1>7 DEF Reached
<1>9. i # 1 => addrs[n + 1] < ip
  <2>. SUFFICES ASSUME i # 1 PROVE addrs[n + 1] < ip
    OBVIOUS
  <2>1. i - 1 \in 1 .. Len(Epilogue) /\ (i - 1) - 1 \in 0 .. Len(Epilogue)
    BY <1>2
  <2>2. /\ Ends(Epilogue)[i - 1] = Ends(Epilogue)[(i - 1) - 1] + Epilogue[i - 1].len
        /\ Ends(Epilogue)[(i - 1) - 1] \in Nat /\ Epilogue[i - 1].len \in Nat \ {0}
    BY <1>2, <2>1, LegalEnds
  <2>. DEFINE e == Ends(Epilogue)[i - 1]
  <2>3. e \in Nat \ {0} /\ ip = addrs[n + 1] + e
    BY <2>2 DEF AtStep
  <2>. HIDE DEF e
  <2>. QED BY <1>3, <2>3
<1>. QED BY <1>6, <1>8, <1>9

\* From where the processor is, to the index that interpreter() is at.
LEMMA PcMeaning ==
  ASSUME CompilerInv, MachineInv, LayoutInv, phase = "run", Compared
  PROVE  /\ BeforeCode => PcOf = 0
         /\ AfterCode => PcOf = Len(code)
         /\ \A k \in DOMAIN code : InCode(k) => PcOf = k - 1
<1>. DEFINE n == Len(code)
<1>1. /\ n \in Nat /\ DOMAIN code = 1 .. n /\ DOMAIN addrs = 1 .. (n + 1)
      /\ \A j \in DOMAIN addrs : addrs[j] \in Nat
      /\ \A a, b \in DOMAIN addrs : a < b => addrs[a] < addrs[b]
      /\ addrs[1] = Length(Prologue) /\ Length(Prologue) \in Nat
      /\ addrs[n + 1] < start
  BY Ordered
<1>2. ip \in Nat /\ start \in Nat
  BY DEF MachineInv, CompilerInv, CompilerTypes
<1>3. ASSUME NEW m \in 0 .. (n + 1), Reached(m)
      PROVE  PcOf = IF m = 0 THEN 0 ELSE m - 1
  <2>1. m \in Nat /\ DOMAIN addrs \in SUBSET Nat /\ 1 .. m \subseteq DOMAIN addrs /\ 0 \notin DOMAIN addrs
    BY <1>1
  <2>. QED BY <1>3, <2>1, PcIs
<1>4. ASSUME NEW i \in 1 .. 3, AtStep(Thunk, start, i)
      PROVE  PcOf = IF i = 3 THEN n ELSE 0
  <2>1. Thunk \in Seq(Legal) /\ i \in 1 .. Len(Thunk) /\ Len(Thunk) = 3
    BY FixedTemplates, TemplateShapes
  <2>2. Holds(buffer, Thunk, start)
    BY LayoutFacts
  <2>3. Current.name = Thunk[i].name
    BY <1>2, <1>4, <2>1, <2>2, AtTemplate
  <2>. DEFINE e == Ends(Thunk)[i - 1]
  <2>4. e \in Nat /\ (i = 1 => e = 0) /\ (i = 3 => e # 0)
    <3>1. i - 1 \in 0 .. Len(Thunk)
      BY <2>1
    <3>2. i = 3 => /\ Ends(Thunk)[i - 1] = Ends(Thunk)[1] + Thunk[2].len
                   /\ Ends(Thunk)[1] \in Nat /\ Thunk[2].len \in Nat \ {0}
      <4>1. 2 \in 1 .. Len(Thunk) /\ 1 \in 0 .. Len(Thunk) /\ 2 - 1 = 1 /\ 3 - 1 = 2
        BY <2>1
      <4>2. Ends(Thunk)[2] = Ends(Thunk)[2 - 1] + Thunk[2].len /\ Thunk[2].len \in Nat \ {0}
        BY <2>1, <4>1, LegalEnds
      <4>3. Ends(Thunk)[1] \in Nat
        BY <2>1, <4>1, LegalEnds
      <4>. QED BY <4>1, <4>2, <4>3
    <3>3. i = 3 => e # 0
      BY <3>2
    <3>4. Ends(Thunk)[i - 1] \in Nat /\ Ends(Thunk)[0] = 0
      BY <2>1, <3>1, LegalEnds
    <3>. QED BY <3>3, <3>4
  <2>5. ip = start + e
    BY <1>4 DEF AtStep
  <2>. HIDE DEF e
  <2>6. ~(ip < start) /\ (i = 1 => ~(ip > start)) /\ (i = 3 => ip > start)
    BY <1>2, <2>4, <2>5
  <2>7. Current.name = "ret" <=> i = 3
    <3>1. i = 1 \/ i = 2 \/ i = 3
      OBVIOUS
    <3>. QED BY <2>3, <3>1, TemplateShapes
  <2>8. ~(phase = "returned") /\ ~(phase \in {"run", "undefined"} /\ ip < start)
    BY <2>6
  <2>9. CASE i = 3
    BY <2>6, <2>7, <2>8, <2>9, Zenon DEF PcOf
  <2>10. CASE i # 3
    BY <2>6, <2>7, <2>8, <2>10, Zenon DEF PcOf
  <2>. QED BY <2>9, <2>10
<1>5. ASSUME InMainPrologue PROVE PcOf = 0
  <2>1. PICK i \in 1 .. 4 : AtStep(Prologue, 0, i)
    BY <1>5 DEF InMainPrologue
  <2>2. ip \in 0 .. (0 + Length(Prologue) - 1)
    <3>1. Prologue \in Seq(Legal) /\ i \in 1 .. Len(Prologue) /\ 0 \in Nat
      BY FixedTemplates, TemplateShapes
    <3>. QED BY <2>1, <3>1, WithinTemplate
  <2>3. ip < addrs[1] /\ \A j \in DOMAIN addrs : addrs[1] <= addrs[j]
    <3>1. ip < addrs[1]
      BY <1>1, <2>2
    <3>2. ASSUME NEW j \in DOMAIN addrs PROVE addrs[1] <= addrs[j]
      <4>1. 1 \in DOMAIN addrs /\ (j = 1 \/ 1 < j)
        BY <1>1
      <4>2. addrs[1] = addrs[j] \/ addrs[1] < addrs[j]
        BY <1>1, <4>1
      <4>. QED BY <1>1, <4>1, <4>2
    <3>. QED BY <3>1, <3>2
  <2>4. ASSUME NEW j \in DOMAIN addrs PROVE ~(addrs[j] <= ip) /\ ~(j <= 0)
    BY <1>1, <1>2, <2>3
  <2>5. ip < start
    <3>1. n + 1 \in DOMAIN addrs /\ addrs[n + 1] \in Nat /\ 1 \in DOMAIN addrs /\ addrs[1] \in Nat
      BY <1>1
    <3>. QED BY <1>1, <1>2, <2>3, <3>1
  <2>6. Reached(0) /\ 0 \in 0 .. (n + 1)
    BY <1>1, <1>2, <2>4, <2>5 DEF Reached
  <2>. QED BY <1>3, <2>6
<1>6. ASSUME InMainEpilogue PROVE PcOf = n
  <2>1. Reached(n + 1)
    BY <1>6, ReachedEpilogue DEF InMainEpilogue
  <2>2. n + 1 \in 0 .. (n + 1) /\ n + 1 # 0 /\ (n + 1) - 1 = n
    BY <1>1
  <2>. QED BY <1>3, <2>1, <2>2
<1>7. ASSUME NEW k \in DOMAIN code, InCode(k) PROVE PcOf = k - 1
  <2>1. Reached(k)
    BY <1>7, ReachedCode DEF InCode
  <2>2. k \in 0 .. (n + 1) /\ k # 0
    BY <1>1
  <2>. QED BY <1>3, <2>1, <2>2
<1>8. BeforeCode => PcOf = 0
  <2>1. 1 \in 1 .. 3 /\ 2 \in 1 .. 3
    OBVIOUS
  <2>. QED BY <1>4, <1>5, <2>1 DEF BeforeCode
<1>9. AfterCode => PcOf = n
  <2>1. 3 \in 1 .. 3
    OBVIOUS
  <2>. QED BY <1>4, <1>6, <2>1 DEF AfterCode
<1>. QED BY <1>7, <1>8, <1>9

-----------------------------------------------------------------------------
(* What a step does to the tape, to stdin and stdout, and to the pointer.  *)

Kept(name) ==
  /\ name \notin {"add_mem", "clear_mem", "getchar"} => mem' = mem
  /\ name # "getchar" => input' = input
  /\ name # "putchar" => output' = output
  /\ name \notin {"pop", "mov_rbx_tape", "add_rbx"} => regs'["rbx"] = regs["rbx"]

Done(name) ==
  /\ name = "mov_rbx_tape" => regs'["rbx"] = Value("tape", 0)
  /\ name = "add_rbx" => regs'["rbx"].base = regs["rbx"].base /\ p' = p + Current.arg
  /\ name \in {"add_mem", "clear_mem", "test_mem", "getchar", "putchar"} => AtCell
  /\ name = "add_mem" => mem' = [mem EXCEPT ![p] = CellPlus(mem[p], Current.arg)]
  /\ name = "clear_mem" => mem' = [mem EXCEPT ![p] = 0]
  /\ name = "test_mem" => (zf' <=> mem[p] = 0)
  /\ name \in {"je", "jne"} =>
       ip' = ip + Current.len + (IF zf = (name = "je") THEN Current.arg ELSE 0)
  /\ name = "getchar" =>
       \/ input # << >> /\ mem' = [mem EXCEPT ![p] = Head(input)] /\ input' = Tail(input)
       \/ input = << >> /\ mem' = [mem EXCEPT ![p] = EOF] /\ input' = input
  /\ name = "putchar" => Len(output) < MaxOutput /\ output' = Append(output, mem[p])

LEMMA Effect ==
  ASSUME CompilerInv, MachineInv, phase = "run", phase' # "undefined", Run,
         NEW name, \A names : Here(names) <=> name \in names, Current.name = name
  PROVE  Kept(name) /\ Done(name)
<1>1. CASE PushReg
  <2>1. name = "push" /\ UNCHANGED <<regs, mem, input, output>>
    BY <1>1 DEF PushReg, machine
  <2>. QED BY <2>1 DEF Kept, Done
<1>2. CASE PopReg
  <2>1. name = "pop" /\ UNCHANGED <<mem, input, output>>
    BY <1>2 DEF PopReg, machine
  <2>. QED BY <2>1 DEF Kept, Done
<1>3. CASE Ret
  <2>1. name = "ret" /\ UNCHANGED <<regs, mem, input, output>>
    BY <1>3 DEF Ret, machine
  <2>. QED BY <2>1 DEF Kept, Done
<1>4. CASE CallMain
  <2>1. name = "call_main" /\ UNCHANGED <<regs, mem, input, output>>
    BY <1>4 DEF CallMain, machine
  <2>. QED BY <2>1 DEF Kept, Done
<1>5. CASE CondJump
  <2>1. /\ name \in {"je", "jne"} /\ UNCHANGED <<regs, mem, input, output>>
        /\ ip' = ip + Current.len + (IF zf = (name = "je") THEN Current.arg ELSE 0)
    BY <1>5 DEF CondJump, machine
  <2>. QED BY <2>1 DEF Kept, Done
<1>6. CASE SetReg
  <2>1. /\ name \in {"nop", "mov_rbp_rsp", "mov_rbx_tape", "add_rbx", "mov_r12_rip"}
        /\ UNCHANGED <<mem, input, output>>
    BY <1>6 DEF SetReg, machine
  <2>2. regs' = CASE name = "nop"          -> regs
                  [] name = "mov_r12_rip"  ->
                       [regs EXCEPT !["r12"] = Value("bytes", ip + Current.len + Current.arg)]
                  [] name = "mov_rbp_rsp"  -> [regs EXCEPT !["rbp"] = Value("stack", Len(stack))]
                  [] name = "mov_rbx_tape" -> [regs EXCEPT !["rbx"] = Value("tape", 0)]
                  [] name = "add_rbx"      -> [regs EXCEPT !["rbx"].off = @ + Current.arg]
    BY <1>6 DEF SetReg
  <2>3. regs \in [Registers -> AnyValue] /\ "rbx" \in Registers
    BY DEF MachineInv, Registers
  <2>4. CASE name = "nop"
    <3>1. regs' = regs
      BY <2>2, <2>4
    <3>. QED BY <2>1, <2>4, <3>1 DEF Kept, Done
  <2>5. CASE name = "mov_r12_rip"
    <3>. DEFINE v == Value("bytes", ip + Current.len + Current.arg)
    <3>1. regs' = [regs EXCEPT !["r12"] = v]
      BY <2>2, <2>5
    <3>. HIDE DEF v
    <3>2. regs'["rbx"] = regs["rbx"]
      BY <2>3, <3>1
    <3>. QED BY <2>1, <2>5, <3>2 DEF Kept, Done
  <2>6. CASE name = "mov_rbp_rsp"
    <3>. DEFINE v == Value("stack", Len(stack))
    <3>1. regs' = [regs EXCEPT !["rbp"] = v]
      BY <2>2, <2>6
    <3>. HIDE DEF v
    <3>2. regs'["rbx"] = regs["rbx"]
      BY <2>3, <3>1
    <3>. QED BY <2>1, <2>6, <3>2 DEF Kept, Done
  <2>7. CASE name = "mov_rbx_tape"
    <3>1. regs' = [regs EXCEPT !["rbx"] = Value("tape", 0)]
      BY <2>2, <2>7
    <3>2. regs'["rbx"] = Value("tape", 0)
      BY <2>3, <3>1
    <3>. QED BY <2>1, <2>7, <3>2 DEF Kept, Done
  <2>8. CASE name = "add_rbx"
    <3>1. regs' = [regs EXCEPT !["rbx"].off = @ + Current.arg]
      BY <2>2, <2>8
    <3>2. regs'["rbx"].base = regs["rbx"].base /\ regs'["rbx"].off = regs["rbx"].off + Current.arg
      BY <2>3, <3>1 DEF AnyValue
    <3>. QED BY <2>1, <2>8, <3>2 DEF Kept, Done, p
  <2>. QED BY <2>1, <2>4, <2>5, <2>6, <2>7, <2>8
<1>7. CASE WriteMem
  <2>1. name \in {"add_mem", "clear_mem"} /\ AtCell /\ UNCHANGED <<regs, input, output>>
    BY <1>7 DEF WriteMem
  <2>2. mem' = [mem EXCEPT ![p] = IF name = "add_mem" THEN CellPlus(@, Current.arg) ELSE 0]
    BY <1>7 DEF WriteMem
  <2>3. CASE name = "add_mem"
    <3>1. mem' = [mem EXCEPT ![p] = CellPlus(mem[p], Current.arg)]
      BY <2>2, <2>3
    <3>. QED BY <2>1, <2>3, <3>1 DEF Kept, Done
  <2>4. CASE name = "clear_mem"
    <3>1. mem' = [mem EXCEPT ![p] = 0]
      BY <2>2, <2>4
    <3>. QED BY <2>1, <2>4, <3>1 DEF Kept, Done
  <2>. QED BY <2>1, <2>3, <2>4
<1>8. CASE TestMem
  <2>1. /\ name = "test_mem" /\ AtCell /\ zf' = (mem[p] = 0)
        /\ UNCHANGED <<regs, mem, input, output>>
    BY <1>8 DEF TestMem, machine
  <2>. QED BY <2>1 DEF Kept, Done
<1>9. CASE GetChar
  <2>1. /\ name = "getchar" /\ AtCell /\ UNCHANGED <<regs, output>>
        /\ \/ input # << >> /\ mem' = [mem EXCEPT ![p] = Head(input)] /\ input' = Tail(input)
           \/ input = << >> /\ mem' = [mem EXCEPT ![p] = EOF] /\ input' = input
    BY <1>9 DEF GetChar
  <2>. QED BY <2>1 DEF Kept, Done
<1>10. CASE PutChar
  <2>1. /\ name = "putchar" /\ AtCell /\ UNCHANGED <<regs, mem, input>>
        /\ Len(output) < MaxOutput /\ output' = Append(output, mem[p])
    BY <1>10 DEF PutChar
  <2>. QED BY <2>1 DEF Kept, Done
<1>11. ~Undefined
  BY DEF Undefined
<1>. QED BY <1>1, <1>2, <1>3, <1>4, <1>5, <1>6, <1>7, <1>8, <1>9, <1>10, <1>11 DEF Run

-----------------------------------------------------------------------------
(* What steps of the emitted code are in terms of interpreter().           *)

LEMMA Stutters ==
  ASSUME code' = code, Compared => /\ UNCHANGED <<mem, pointer, input, output>>
                                   /\ PcOf' = PcOf /\ Status' = Status
  PROVE  UNCHANGED Interp!vars
<1>1. Compared' <=> Compared
  BY DEF Compared
<1>2. Compared => WithTimeLine' = WithTimeLine
  <2>1. (Status = "halted" <=> phase = "returned") /\ (Status' = "halted" <=> phase' = "returned")
    BY DEF Status
  <2>. QED BY <2>1 DEF WithTimeLine
<1>. QED BY <1>1, <1>2 DEF Interp!vars, Freed

\* The line with the time is the last of the output, and of no other.
LEMMA TimeLineLast ==
  /\ Status \in {"running", "undefined"} => WithTimeLine = output
  /\ Status = "halted" => WithTimeLine = Append(output, Interp!TimeLine)
BY DEF Status, WithTimeLine, Interp!TimeLine, TimeLine

LEMMA TimeLineLastNext ==
  /\ Status' \in {"running", "undefined"} => WithTimeLine' = output'
  /\ Status' = "halted" => WithTimeLine' = Append(output', Interp!TimeLine)
<1>1. (Status \in {"running", "undefined"} => WithTimeLine = output)'
  BY TimeLineLast, PTL
<1>2. (Status = "halted" => WithTimeLine = Append(output, Interp!TimeLine))'
  BY TimeLineLast, PTL
<1>. QED BY <1>1, <1>2 DEF Interp!TimeLine

\* The data pointer is a cell, or none.
LEMMA Actions ==
  ASSUME Compared, code \in Seq(Opcode), code' = code, NEW k \in DOMAIN code, PcOf = k - 1,
         Status = "running", Status' = "running"
  PROVE  /\ code[k].op \in {"op_add", "op_sub"} /\ OnTape(pointer) /\ PcOf' = k
              /\ mem' = [mem EXCEPT ![pointer] =
                           CellPlus(mem[pointer], IF code[k].op = "op_add" THEN code[k].num
                                                                          ELSE -code[k].num)]
              /\ UNCHANGED <<pointer, input, output>> => Interp!AddSub
         /\ code[k].op = "op_clear" /\ OnTape(pointer) /\ PcOf' = k
              /\ mem' = [mem EXCEPT ![pointer] = 0]
              /\ UNCHANGED <<pointer, input, output>> => Interp!Clear
         /\ code[k].op \in {"op_addp", "op_subp"} /\ PcOf' = k
              /\ pointer' = PtrPlus(pointer, IF code[k].op = "op_addp" THEN code[k].num
                                                                      ELSE -code[k].num)
              /\ UNCHANGED <<mem, input, output>> => Interp!MovePtr
         /\ code[k].op \in {"op_jt", "op_jf"} /\ OnTape(pointer)
              /\ PcOf' = (IF (code[k].op = "op_jt") = (mem[pointer] # 0) THEN code[k].num ELSE k)
              /\ UNCHANGED <<mem, pointer, input, output>> => Interp!Jump
         /\ code[k].op = "op_in" /\ OnTape(pointer) /\ PcOf' = k
              /\ \/ /\ input # << >> /\ mem' = [mem EXCEPT ![pointer] = Head(input)]
                    /\ input' = Tail(input)
                 \/ /\ input = << >> /\ mem' = [mem EXCEPT ![pointer] = EOF] /\ input' = input
              /\ UNCHANGED <<pointer, output>> => Interp!In
         /\ code[k].op = "op_out" /\ OnTape(pointer) /\ PcOf' = k
              /\ Len(output) < MaxOutput /\ output' = Append(output, mem[pointer])
              /\ UNCHANGED <<mem, pointer, input>> => Interp!Out
<1>1. Compared'
  BY DEF Compared
<1>2. k \in Nat /\ k - 1 < Len(code) /\ (k - 1) + 1 = k
  OBVIOUS
<1>3. \A types : code[k].op \in types => Interp!At(types)
  BY <1>2 DEF Interp!At
<1>4. OnTape(pointer) => Interp!OnTape(pointer)
  BY DEF Interp!OnTape, OnTape
<1>0. WithTimeLine = output /\ WithTimeLine' = output'
  BY TimeLineLast, TimeLineLastNext
<1>5. UNCHANGED <<input, output>> => UNCHANGED Interp!stdio
  BY <1>0, <1>1 DEF Interp!stdio
<1>6. ASSUME NEW v, mem' = [mem EXCEPT ![pointer] = v], pointer' = pointer, PcOf' = k
      PROVE  Interp!Store(v)
  BY <1>1, <1>2, <1>6 DEF Interp!Store, Freed
<1>7. Interp!num = code[k].num
  BY <1>2 DEF Interp!num
<1>8. /\ \A c, n : Interp!CellPlus(c, n) = CellPlus(c, n)
      /\ \A c, n : Interp!PtrPlus(c, n) = PtrPlus(c, n)
      /\ Interp!EOF = EOF
  BY DEF Interp!CellPlus, CellPlus, Interp!PtrPlus, PtrPlus, Interp!EOF, EOF
<1>9. ASSUME code[k].op \in {"op_add", "op_sub"}, OnTape(pointer), PcOf' = k,
             mem' = [mem EXCEPT ![pointer] =
                       CellPlus(mem[pointer], IF code[k].op = "op_add" THEN code[k].num
                                                                      ELSE -code[k].num)],
             UNCHANGED <<pointer, input, output>>
      PROVE  Interp!AddSub
  <2>. DEFINE v == CellPlus(mem[pointer], IF code[k].op = "op_add" THEN code[k].num
                                                                  ELSE -code[k].num)
  <2>1. Interp!Store(v)
    BY <1>6, <1>9
  <2>. QED BY <1>2, <1>3, <1>4, <1>5, <1>7, <1>8, <1>9, <2>1 DEF Interp!AddSub
<1>10. ASSUME code[k].op = "op_clear", OnTape(pointer), PcOf' = k,
              mem' = [mem EXCEPT ![pointer] = 0], UNCHANGED <<pointer, input, output>>
       PROVE  Interp!Clear
  <2>1. Interp!Store(0)
    BY <1>6, <1>10
  <2>. QED BY <1>3, <1>4, <1>5, <1>10, <2>1 DEF Interp!Clear
<1>11. ASSUME code[k].op \in {"op_addp", "op_subp"}, PcOf' = k,
              pointer' = PtrPlus(pointer, IF code[k].op = "op_addp" THEN code[k].num
                                                                   ELSE -code[k].num),
              UNCHANGED <<mem, input, output>>
       PROVE  Interp!MovePtr
  BY <1>1, <1>2, <1>3, <1>5, <1>7, <1>8, <1>11 DEF Interp!MovePtr, Freed
<1>12. ASSUME code[k].op \in {"op_jt", "op_jf"}, OnTape(pointer),
              PcOf' = (IF (code[k].op = "op_jt") = (mem[pointer] # 0) THEN code[k].num ELSE k),
              UNCHANGED <<mem, pointer, input, output>>
       PROVE  Interp!Jump
  BY <1>1, <1>2, <1>3, <1>4, <1>5, <1>7, <1>12 DEF Interp!Jump, Interp!tape, Freed
<1>13. ASSUME code[k].op = "op_in", OnTape(pointer), PcOf' = k,
              \/ /\ input # << >> /\ mem' = [mem EXCEPT ![pointer] = Head(input)]
                 /\ input' = Tail(input)
              \/ /\ input = << >> /\ mem' = [mem EXCEPT ![pointer] = EOF] /\ input' = input,
              UNCHANGED <<pointer, output>>
       PROVE  Interp!In
  <2>1. CASE input # << >> /\ mem' = [mem EXCEPT ![pointer] = Head(input)] /\ input' = Tail(input)
    <3>1. Interp!Store(Head(input))
      BY <1>6, <1>13, <2>1
    <3>. QED BY <1>0, <1>1, <1>3, <1>4, <1>13, <2>1, <3>1 DEF Interp!In
  <2>2. CASE input = << >> /\ mem' = [mem EXCEPT ![pointer] = EOF] /\ input' = input
    <3>1. Interp!Store(EOF)
      BY <1>6, <1>13, <2>2
    <3>. QED BY <1>0, <1>1, <1>3, <1>4, <1>8, <1>13, <2>2, <3>1 DEF Interp!In
  <2>. QED BY <1>13, <2>1, <2>2
<1>14. ASSUME code[k].op = "op_out", OnTape(pointer), PcOf' = k,
              Len(output) < MaxOutput, output' = Append(output, mem[pointer]),
              UNCHANGED <<mem, pointer, input>>
       PROVE  Interp!Out
  BY <1>0, <1>1, <1>2, <1>3, <1>4, <1>14 DEF Interp!Out, Interp!tape, Freed
<1>. QED BY <1>9, <1>10, <1>11, <1>12, <1>13, <1>14

\* An access off the tape, and the end of the program.
LEMMA LastActions ==
  ASSUME Compared, code \in Seq(Opcode), code' = code, Status = "running",
         UNCHANGED <<mem, pointer, input, output>>, PcOf' = PcOf
  PROVE  /\ \A k \in DOMAIN code :
              PcOf = k - 1 /\ code[k].op \notin {"op_addp", "op_subp"}
                /\ ~OnTape(pointer) /\ Status' = "undefined" => Interp!OffTape
         /\ PcOf = Len(code) /\ Status' = "halted" => Interp!Halt
<1>1. Compared'
  BY DEF Compared
<1>2. ASSUME NEW k \in DOMAIN code, PcOf = k - 1, code[k].op \notin {"op_addp", "op_subp"},
             ~OnTape(pointer), Status' = "undefined"
      PROVE  Interp!OffTape
  <2>1. k \in Nat /\ k - 1 < Len(code) /\ (k - 1) + 1 = k
    OBVIOUS
  <2>2. code[k].op \in OpType
    <3>1. code[k] \in Opcode
      OBVIOUS
    <3>. QED BY <3>1 DEF Opcode
  <2>3. code[k].op \in {"op_add", "op_sub", "op_clear", "op_jt", "op_jf", "op_in", "op_out"}
    BY <1>2, <2>2 DEF OpType, Compared
  <2>4. Interp!At({"op_add", "op_sub", "op_clear", "op_jt", "op_jf", "op_in", "op_out"})
    BY <1>2, <2>1, <2>3 DEF Interp!At
  <2>5. ~Interp!OnTape(pointer)
    BY <1>2 DEF Interp!OnTape, OnTape
  <2>6. WithTimeLine = output /\ WithTimeLine' = output'
    BY <1>2, TimeLineLast, TimeLineLastNext
  <2>. QED BY <1>1, <1>2, <2>4, <2>5, <2>6 DEF Interp!OffTape, Interp!tape, Interp!stdio, Freed
<1>3. ASSUME PcOf = Len(code), Status' = "halted" PROVE Interp!Halt
  <2>1. Len(code) \in Nat
    OBVIOUS
  <2>2. WithTimeLine = output /\ WithTimeLine' = Append(WithTimeLine, Interp!TimeLine)
    BY <1>3, TimeLineLast, TimeLineLastNext
  <2>. QED BY <1>1, <1>3, <2>1, <2>2 DEF Interp!Halt, Interp!Stop, Interp!Freed, Freed
<1>. QED BY <1>2, <1>3

-----------------------------------------------------------------------------
(* Where the steps from each location lead, and what of interpreter() they *)
(* are.                                                                    *)

Tracked == BeforeCode \/ AfterCode \/ \E k \in DOMAIN code : InCode(k)

Traced ==
  /\ Running /\ Compared /\ Moves(code)[Len(code)] <= PtrMod - TapeSize
  /\ pointer' = IF InBodyOf(ip') THEN PtrPlus(p', 0) ELSE pointer
  /\ CompilerInv' /\ MachineInv' /\ LayoutInv'

LEMMA PcMeaningNext ==
  (CompilerInv /\ MachineInv /\ LayoutInv /\ phase = "run" /\ Compared =>
     /\ BeforeCode => PcOf = 0
     /\ AfterCode => PcOf = Len(code)
     /\ \A k \in DOMAIN code : InCode(k) => PcOf = k - 1)'
<1>1. CompilerInv /\ MachineInv /\ LayoutInv /\ phase = "run" /\ Compared =>
        /\ BeforeCode => PcOf = 0
        /\ AfterCode => PcOf = Len(code)
        /\ \A k \in DOMAIN code : InCode(k) => PcOf = k - 1
  BY PcMeaning
<1>. QED BY <1>1, PTL

\* What a step that goes on keeps.
LEMMA TracedFacts ==
  ASSUME Traced
  PROVE  /\ UNCHANGED <<code, addrs, start>> /\ Compared'
         /\ phase = "run" /\ phase' = "run" /\ Status = "running" /\ Status' = "running"
         /\ code \in Seq(Opcode) /\ WellFormed(code)
         /\ CompilerInv /\ MachineInv /\ LayoutInv /\ Run
         /\ BeforeCode => PcOf = 0
         /\ AfterCode => PcOf = Len(code)
         /\ \A k \in DOMAIN code : InCode(k) => PcOf = k - 1
         /\ BeforeCode' => PcOf' = 0
         /\ AfterCode' => PcOf' = Len(code)
         /\ \A k \in DOMAIN code : InCode(k)' => PcOf' = k - 1
<1>1. CompilerInv /\ MachineInv /\ LayoutInv /\ Run /\ phase = "run" /\ phase' = "run" /\ Compared
  BY DEF Traced, Running
<1>2. UNCHANGED <<code, addrs, start>> /\ code \in Seq(Opcode) /\ WellFormed(code)
  BY RunningFacts DEF Traced
<1>3. Compared'
  BY <1>1, <1>2 DEF Compared
<1>4. Status = "running" /\ Status' = "running"
  BY <1>1 DEF Status
<1>5. CompilerInv' /\ MachineInv' /\ LayoutInv'
  BY DEF Traced
<1>6. /\ BeforeCode => PcOf = 0
      /\ AfterCode => PcOf = Len(code)
      /\ \A k \in DOMAIN code : InCode(k) => PcOf = k - 1
  BY <1>1, PcMeaning
<1>7. /\ BeforeCode' => PcOf' = 0
      /\ AfterCode' => PcOf' = Len(code)
      /\ \A k \in DOMAIN code : InCode(k)' => PcOf' = k - 1
  BY <1>1, <1>2, <1>3, <1>5, PcMeaningNext
<1>. QED BY <1>1, <1>2, <1>3, <1>4, <1>6, <1>7

\* The instructions of the program's own code, and the end of the last.
LEMMA InOwnCode ==
  ASSUME Traced, NEW k \in DOMAIN code, NEW at \in addrs[k] .. addrs[k + 1]
  PROVE  InBodyOf(at)
<1>. DEFINE n == Len(code)
<1>1. /\ n \in Nat /\ DOMAIN code = 1 .. n /\ DOMAIN addrs = 1 .. (n + 1)
      /\ \A j \in DOMAIN addrs : addrs[j] \in Nat
      /\ \A a, b \in DOMAIN addrs : a < b => addrs[a] < addrs[b]
      /\ addrs[1] = Length(Prologue)
  BY TracedFacts, Ordered DEF Traced
<1>2. k \in 1 .. n /\ 1 \in DOMAIN addrs /\ n + 1 \in DOMAIN addrs /\ k \in DOMAIN addrs
      /\ k + 1 \in DOMAIN addrs
  BY <1>1
<1>3. addrs[1] = addrs[k] \/ addrs[1] < addrs[k]
  <2>1. k = 1 \/ 1 < k
    BY <1>2
  <2>. QED BY <1>1, <1>2, <2>1
<1>4. addrs[k + 1] = addrs[n + 1] \/ addrs[k + 1] < addrs[n + 1]
  <2>1. k + 1 = n + 1 \/ k + 1 < n + 1
    BY <1>1, <1>2
  <2>. QED BY <1>1, <1>2, <2>1
<1>5. addrs[1] \in Nat /\ addrs[k] \in Nat /\ addrs[k + 1] \in Nat /\ addrs[n + 1] \in Nat
  BY <1>1, <1>2
<1>. QED BY <1>1, <1>3, <1>4, <1>5 DEF InBodyOf

\* A step to the code of opcode m, or to the epilogue.
LEMMA ArrivesAt ==
  ASSUME Traced, NEW m \in 1 .. (Len(code) + 1), ip' = addrs[m], Len(stack') = 5,
         regs'["rbx"].base = "tape",
         p' \in (-Moves(code)[m - 1]) .. (TapeSize - 1 + Moves(code)[m - 1])
  PROVE  Tracked' /\ PcOf' = m - 1 /\ pointer' = PtrPlus(p', 0)
<1>. DEFINE n == Len(code)
<1>1. /\ n \in Nat /\ DOMAIN code = 1 .. n /\ DOMAIN addrs = 1 .. (n + 1)
      /\ \A j \in DOMAIN addrs : addrs[j] \in Nat
      /\ \A a, b \in DOMAIN addrs : a < b => addrs[a] < addrs[b]
      /\ addrs[1] = Length(Prologue)
      /\ \A k \in DOMAIN code : code[k] \in Opcode /\ Template(code[k]) \in Seq(Legal)
                                  /\ code[k].op \notin {"op_def_lambda", "op_ret", "op_call"}
  BY TracedFacts, Ordered DEF Traced
<1>2. UNCHANGED <<code, addrs, start>>
  BY TracedFacts
<1>3. pointer' = PtrPlus(p', 0)
  <2>1. m \in DOMAIN addrs /\ 1 \in DOMAIN addrs /\ n + 1 \in DOMAIN addrs
        /\ (m = 1 \/ 1 < m) /\ (m = n + 1 \/ m < n + 1)
    BY <1>1
  <2>2. addrs[1] <= addrs[m] /\ addrs[m] <= addrs[n + 1]
    <3>1. addrs[1] = addrs[m] \/ addrs[1] < addrs[m]
      BY <1>1, <2>1
    <3>2. addrs[m] = addrs[n + 1] \/ addrs[m] < addrs[n + 1]
      BY <1>1, <2>1
    <3>3. addrs[1] \in Nat /\ addrs[m] \in Nat /\ addrs[n + 1] \in Nat
      BY <1>1, <2>1
    <3>. QED BY <3>1, <3>2, <3>3
  <2>3. InBodyOf(ip')
    BY <1>1, <2>1, <2>2 DEF InBodyOf
  <2>. QED BY <2>3 DEF Traced
<1>4. CASE m = n + 1
  <2>1. AtStep(Epilogue, addrs[n + 1], 1)'
    <3>1. n + 1 \in DOMAIN addrs
      BY <1>1
    <3>2. addrs[n + 1] \in Nat
      BY <1>1, <3>1
    <3>3. Ends(Epilogue)[0] = 0
      BY FixedTemplates, LegalEnds
    <3>. QED BY <1>2, <1>4, <3>2, <3>3 DEF AtStep
  <2>2. InMainEpilogue'
    <3>1. 1 \in 1 .. 4 /\ 5 = 6 - 1
      OBVIOUS
    <3>. QED BY <1>2, <2>1, <3>1 DEF InMainEpilogue
  <2>3. AfterCode'
    BY <2>2 DEF AfterCode
  <2>4. PcOf' = m - 1
    BY <1>1, <1>4, <2>3, TracedFacts
  <2>. QED BY <1>3, <2>3, <2>4 DEF Tracked
<1>5. CASE m # n + 1
  <2>1. m \in DOMAIN code /\ m \in DOMAIN addrs
    BY <1>1, <1>5
  <2>. DEFINE t == Template(code[m])
  <2>2. t \in Seq(Legal) /\ 1 \in 1 .. Len(t)
    <3>1. code[m] \in Opcode /\ code[m].op \notin {"op_def_lambda", "op_ret", "op_call"}
      BY <1>1, <2>1
    <3>2. Len(t) \in {1, 2}
      BY <3>1, OtherShapes
    <3>3. t \in Seq(Legal)
      BY <1>1, <2>1
    <3>. HIDE DEF t
    <3>4. 1 \in 1 .. Len(t)
      BY ONLY <3>2
    <3>. QED BY <3>3, <3>4
  <2>0. t' = t
    BY <1>2 DEF Template
  <2>3. AtStep(t, addrs[m], 1)'
    <3>1. addrs[m] \in Nat /\ Ends(t)[1 - 1] = 0
      BY <1>1, <2>1, <2>2, LegalEnds
    <3>. QED BY <1>2, <2>0, <3>1 DEF AtStep
  <2>4. Follows(m)'
    BY <1>2, <1>3 DEF Follows
  <2>5. 1 # 2 /\ Len(t') = Len(t)
    BY <2>0
  <2>6. InCode(m)'
    BY <2>2, <2>3, <2>4, <2>5 DEF InCode
  <2>7. PcOf' = m - 1 /\ (\E k \in DOMAIN code : InCode(k))'
    BY <1>2, <2>1, <2>6, TracedFacts
  <2>. QED BY <1>3, <2>7 DEF Tracked
<1>. QED BY <1>4, <1>5

\* What a step from instruction i of a template does to everything.
LEMMA StepDoes ==
  ASSUME Traced, NEW t \in Seq(Legal), NEW n \in Nat, Holds(buffer, t, n),
         NEW i \in 1 .. Len(t), AtStep(t, n, i)
  PROVE  Kept(t[i].name) /\ Done(t[i].name)
<1>1. CompilerInv /\ MachineInv /\ phase = "run" /\ phase' # "undefined" /\ Run
  BY TracedFacts
<1>2. /\ \A names : Here(names) <=> t[i].name \in names
      /\ Current.name = t[i].name
  BY <1>1, AtTemplate
<1>. QED BY <1>1, <1>2, Effect

\* A step that interpreter() does not take part in.
LEMMA NoAction ==
  ASSUME Traced, UNCHANGED <<mem, pointer, input, output>>, PcOf' = PcOf
  PROVE  UNCHANGED Interp!vars
BY TracedFacts, Stutters

LEMMA BeforeCodeSteps ==
  ASSUME Traced, BeforeCode
  PROVE  Tracked' /\ UNCHANGED Interp!vars
<1>1. /\ UNCHANGED <<code, addrs, start>> /\ PcOf = 0
      /\ BeforeCode' => PcOf' = 0
      /\ CompilerInv /\ MachineInv /\ LayoutInv /\ phase = "run" /\ Compared /\ Running
      /\ code \in Seq(Opcode)
  BY TracedFacts DEF Traced
<1>2. /\ start \in Nat /\ Holds(buffer, Thunk, start) /\ Holds(buffer, Prologue, 0)
      /\ addrs[1] = Length(Prologue) /\ Len(code) \in Nat
  BY RunningFacts, <1>1
<1>3. ASSUME regs'["rbx"] = Value("tape", 0) PROVE pointer' = pointer /\ p' = 0
  <2>1. p' = 0
    BY <1>3 DEF p, Value
  <2>2. PtrPlus(0, 0) = 0
    <3>1. PtrMod \in Nat \ {0} /\ 0 \in 0 .. (PtrMod - 1) /\ 0 + 0 = 0
      BY MachineAssumption
    <3>2. 0 % PtrMod = 0
      BY <3>1, SmallRemainder
    <3>. QED BY <3>1, <3>2 DEF PtrPlus
  <2>. QED BY <2>1, <2>2 DEF BeforeCode, Traced
<1>4. ASSUME regs'["rbx"] = Value("tape", 0), UNCHANGED <<mem, input, output>>,
             \/ AtStep(Thunk, start, 2)' /\ Len(stack') = 1
             \/ InMainPrologue'
      PROVE  Tracked' /\ UNCHANGED Interp!vars
  <2>1. pointer' = pointer /\ pointer' = 0
    BY <1>3, <1>4 DEF BeforeCode
  <2>2. BeforeCode'
    BY <1>1, <1>4, <2>1 DEF BeforeCode
  <2>. QED BY <1>1, <1>4, <2>1, <2>2, NoAction DEF Tracked
<1>5. Thunk \in Seq(Legal) /\ Prologue \in Seq(Legal) /\ 0 \in Nat
  BY FixedTemplates
<1>6. CASE AtStep(Thunk, start, 1) /\ Len(stack) = 1
  <2>1. 1 \in 1 .. Len(Thunk) /\ Thunk[1].name = "mov_rbx_tape" /\ Thunk[1].name \in Straight
    BY TemplateShapes DEF Straight
  <2>2. stack' = stack /\ ip' = start + Ends(Thunk)[1]
    BY <1>1, <1>2, <1>5, <1>6, <2>1, StepFrom
  <2>3. Kept("mov_rbx_tape") /\ Done("mov_rbx_tape")
    BY <1>2, <1>5, <1>6, <2>1, StepDoes
  <2>4. regs'["rbx"] = Value("tape", 0) /\ UNCHANGED <<mem, input, output>>
    BY <2>3 DEF Kept, Done
  <2>5. AtStep(Thunk, start, 2)'
    BY <1>1, <2>2 DEF AtStep
  <2>. QED BY <1>4, <1>6, <2>2, <2>4, <2>5
<1>7. CASE AtStep(Thunk, start, 2) /\ Len(stack) = 1 /\ regs["rbx"] = Value("tape", 0)
  <2>1. 2 \in 1 .. Len(Thunk) /\ Thunk[2].name = "call_main"
    BY TemplateShapes
  <2>2. Len(stack') = 2 /\ ip' = 0
    BY <1>1, <1>2, <1>5, <1>7, <2>1, StepFrom
  <2>3. Kept("call_main") /\ Done("call_main")
    BY <1>2, <1>5, <1>7, <2>1, StepDoes
  <2>4. regs'["rbx"] = Value("tape", 0) /\ UNCHANGED <<mem, input, output>>
    BY <1>7, <2>3 DEF Kept
  <2>5. AtStep(Prologue, 0, 1)' /\ Len(stack') = 2 + Saved[1] /\ 1 \in 1 .. 4
    BY <2>2, FixedTemplates, LegalEnds DEF AtStep, Saved
  <2>6. InMainPrologue'
    BY <2>5 DEF InMainPrologue
  <2>. QED BY <1>4, <2>4, <2>6
<1>8. CASE InMainPrologue /\ regs["rbx"] = Value("tape", 0)
  <2>1. PICK i \in 1 .. 4 : AtStep(Prologue, 0, i) /\ Len(stack) = 2 + Saved[i]
    BY <1>8 DEF InMainPrologue
  <2>2. Len(stack) >= 2 /\ Saved[i] \in Nat /\ Len(stack) \in Nat
    BY <1>1, <2>1, RunningFacts DEF Saved
  <2>3. /\ ip' = 0 + Ends(Prologue)[i]
        /\ Len(stack') = Len(stack) + (IF i = 4 THEN 1 ELSE Saved[i + 1] - Saved[i])
    BY <1>1, <1>2, <2>1, <2>2, PrologueStep
  <2>4. i \in 1 .. Len(Prologue) /\ Prologue[i].name \in {"push", "mov_rbp_rsp"}
    <3>1. i \in {1, 3, 4} \/ i = 2
      OBVIOUS
    <3>. QED BY <3>1, TemplateShapes
  <2>5. Kept(Prologue[i].name)
    BY <1>2, <1>5, <2>1, <2>4, StepDoes
  <2>6. regs'["rbx"] = Value("tape", 0) /\ UNCHANGED <<mem, input, output>>
    BY <1>8, <2>4, <2>5 DEF Kept
  <2>7. CASE i # 4
    <3>1. i + 1 \in 1 .. 4 /\ (i + 1) - 1 = i
      BY <2>7
    <3>2. Len(stack') = 2 + Saved[i + 1]
      BY <2>1, <2>2, <2>3, <2>7 DEF Saved
    <3>3. AtStep(Prologue, 0, i + 1)'
      BY <2>3, <3>1 DEF AtStep
    <3>4. InMainPrologue'
      BY <3>1, <3>2, <3>3 DEF InMainPrologue
    <3>. QED BY <1>4, <2>6, <3>4
  <2>8. CASE i = 4
    <3>1. Len(stack') = 5
      BY <2>1, <2>3, <2>8 DEF Saved
    <3>2. Ends(Prologue)[4] \in Nat /\ Length(Prologue) = Ends(Prologue)[4]
      BY FixedTemplates, LegalEnds, TemplateShapes DEF Length
    <3>3. ip' = addrs[1] /\ 1 \in 1 .. (Len(code) + 1)
      BY <1>2, <2>3, <2>8, <3>2
    <3>4. pointer' = pointer /\ p' = 0 /\ regs'["rbx"].base = "tape"
      BY <1>3, <2>6 DEF Value
    <3>5. 0 \in (-Moves(code)[1 - 1]) .. (TapeSize - 1 + Moves(code)[1 - 1])
      <4>1. Moves(code)[0] \in Nat
        <5>1. 0 \in 0 .. Len(code)
          BY <1>2
        <5>. QED BY <1>1, <5>1, MovesMeaning
      <4>2. TapeSize \in Nat \ {0}
        BY MachineAssumption
      <4>. QED BY <4>1, <4>2
    <3>6. Tracked' /\ PcOf' = 1 - 1
      BY <3>1, <3>3, <3>4, <3>5, ArrivesAt
    <3>7. PcOf' = PcOf
      BY <1>1, <3>6
    <3>. QED BY <2>6, <3>4, <3>6, <3>7, NoAction
  <2>. QED BY <2>7, <2>8
<1>. QED BY <1>6, <1>7, <1>8 DEF BeforeCode

LEMMA AfterCodeSteps ==
  ASSUME Traced, AfterCode
  PROVE  Tracked' /\ UNCHANGED Interp!vars
<1>. DEFINE n == addrs[Len(code) + 1]
<1>1. /\ UNCHANGED <<code, addrs, start>> /\ PcOf = Len(code)
      /\ AfterCode' => PcOf' = Len(code)
      /\ CompilerInv /\ MachineInv /\ LayoutInv /\ phase = "run" /\ Compared /\ Running
  BY TracedFacts DEF Traced
<1>2. /\ start \in Nat /\ Holds(buffer, Thunk, start) /\ n \in Nat
      /\ Holds(buffer, Epilogue, n) /\ n < start
  <2>1. Len(code) + 1 \in 1 .. (Len(code) + 1)
    BY <1>1, RunningFacts
  <2>. QED BY <1>1, <2>1, RunningFacts, Ordered
<1>3. ASSUME AfterCode', ip' > n, UNCHANGED <<mem, input, output>>
      PROVE  Tracked' /\ UNCHANGED Interp!vars
  <2>1. ip' \in Nat
    BY DEF Traced, MachineInv
  <2>2. ~InBodyOf(ip')
    BY <1>2, <1>3, <2>1 DEF InBodyOf
  <2>3. pointer' = pointer
    BY <2>2 DEF Traced
  <2>. QED BY <1>1, <1>3, <2>3, NoAction DEF Tracked
<1>4. CASE InMainEpilogue
  <2>1. PICK i \in 1 .. 4 : AtStep(Epilogue, n, i) /\ Len(stack) = 6 - i
    BY <1>4 DEF InMainEpilogue
  <2>2. /\ Len(stack) \in Nat /\ Len(stack') = Len(stack) - 1
        /\ IF i = 4 THEN Len(stack) = 2 /\ ip' = start + Ends(Thunk)[2]
                    ELSE ip' = n + Ends(Epilogue)[i]
    BY <1>1, <1>2, <2>1, EpilogueStep
  <2>3. /\ Epilogue \in Seq(Legal) /\ i \in 1 .. Len(Epilogue) /\ i \in 0 .. Len(Epilogue)
        /\ Epilogue[i].name = IF i = 4 THEN "ret" ELSE "pop"
    <3>1. i \in {1, 2, 3} \/ i = 4
      OBVIOUS
    <3>. QED BY <3>1, FixedTemplates, TemplateShapes
  <2>4. Kept(Epilogue[i].name)
    BY <1>2, <2>1, <2>3, StepDoes
  <2>5. UNCHANGED <<mem, input, output>>
    BY <2>3, <2>4 DEF Kept
  <2>6. CASE i = 4
    <3>1. Ends(Thunk)[2] \in Nat
      <4>1. 2 \in 0 .. Len(Thunk)
        BY TemplateShapes
      <4>. QED BY <4>1, FixedTemplates, LegalEnds
    <3>2. ip' > n
      BY <1>2, <2>2, <2>6, <3>1
    <3>3. AtStep(Thunk, start, 3)' /\ Len(stack') = 1
      BY <1>1, <2>2, <2>6 DEF AtStep
    <3>4. AfterCode'
      BY <3>3 DEF AfterCode
    <3>. QED BY <1>3, <2>5, <3>2, <3>4
  <2>7. CASE i # 4
    <3>1. /\ Ends(Epilogue)[i] = Ends(Epilogue)[i - 1] + Epilogue[i].len
          /\ Ends(Epilogue)[i - 1] \in Nat /\ Epilogue[i].len \in Nat \ {0}
      <4>1. i - 1 \in 0 .. Len(Epilogue)
        BY <2>3
      <4>. QED BY <2>3, <4>1, LegalEnds
    <3>. DEFINE e == Ends(Epilogue)[i]
    <3>2. e \in Nat \ {0} /\ ip' = n + e
      BY <2>2, <2>7, <3>1
    <3>3. ip' > n
      <4>. HIDE DEF e, n
      <4>. QED BY <1>2, <3>2
    <3>4. i + 1 \in 1 .. 4 /\ (i + 1) - 1 = i
      BY <2>7
    <3>5. Len(stack') = 6 - (i + 1)
      BY <2>1, <2>2
    <3>6. AtStep(Epilogue, n, i + 1)'
      BY <1>1, <2>2, <2>7, <3>4 DEF AtStep
    <3>7. AfterCode'
      BY <3>4, <3>5, <3>6 DEF InMainEpilogue, AfterCode
    <3>. QED BY <1>3, <2>5, <3>3, <3>7
  <2>. QED BY <2>6, <2>7
<1>5. CASE AtStep(Thunk, start, 3) /\ Len(stack) = 1
  <2>1. Thunk \in Seq(Legal) /\ 3 \in 1 .. Len(Thunk) /\ Thunk[3].name = "ret"
    BY FixedTemplates, TemplateShapes
  <2>2. Len(stack) = 2
    BY <1>1, <1>2, <1>5, <2>1, StepFrom
  <2>. QED BY <1>5, <2>2
<1>. QED BY <1>4, <1>5 DEF AfterCode

\* The pointers of both, at opcode k.
LEMMA InCodeFacts ==
  ASSUME CompilerInv, MachineInv, LayoutInv, phase = "run", Compared,
         Moves(code)[Len(code)] <= PtrMod - TapeSize, NEW k \in DOMAIN code, InCode(k)
  PROVE  /\ p \in Int /\ pointer = PtrPlus(p, 0) /\ Moves(code)[k - 1] \in Nat
         /\ p \in (-Moves(code)[k - 1]) .. (TapeSize - 1 + Moves(code)[k - 1])
         /\ regs["rbx"].base = "tape" /\ Len(stack) = 5
         /\ AtCell <=> OnTape(p)
         /\ OnTape(p) <=> OnTape(pointer)
         /\ OnTape(p) => pointer = p
         /\ PcOf = k - 1 /\ k \in Nat
<1>. DEFINE m == Moves(code)[k - 1]
<1>1. Follows(k) /\ Len(stack) = 5
  BY DEF InCode
<1>2. regs["rbx"].base = "tape" /\ pointer = PtrPlus(p, 0) /\ p \in (-m) .. (TapeSize - 1 + m)
  BY <1>1 DEF Follows
<1>3. code \in Seq(Opcode) /\ Len(code) \in Nat /\ k \in 1 .. Len(code)
  BY DEF CompilerInv, CompilerTypes
<1>4. m \in Nat /\ m <= PtrMod - TapeSize
  <2>1. k - 1 \in 0 .. Len(code) /\ Len(code) \in 0 .. Len(code)
    BY <1>3
  <2>2. m \in Nat /\ m <= Moves(code)[Len(code)] /\ Moves(code)[Len(code)] \in Nat
    BY <1>3, <2>1, MovesMeaning
  <2>. QED BY <2>2, MachineAssumption
<1>. HIDE DEF m
<1>5. p \in Int /\ p \in (TapeSize - PtrMod) .. (PtrMod - 1)
  BY <1>2, <1>4, MachineAssumption
<1>6. /\ OnTape(p) <=> OnTape(pointer)
      /\ OnTape(p) => pointer = p
  BY <1>2, <1>5, PointerOnTape
<1>7. AtCell <=> OnTape(p)
  BY <1>2 DEF AtCell
<1>8. PcOf = k - 1
  BY PcMeaning
<1>. QED BY <1>1, <1>2, <1>3, <1>4, <1>5, <1>6, <1>7, <1>8 DEF m

\* The code of an opcode that is no bracket is one instruction.
LEMMA OneInstruction ==
  ASSUME Traced, NEW k \in DOMAIN code, InCode(k), ~IsJump(code[k]),
         NEW x, Template(code[k]) = << x >>
  PROVE  /\ x.name \in Straight /\ Kept(x.name) /\ Done(x.name) /\ Current.arg = x.arg
         /\ stack' = stack /\ ip' = addrs[k + 1]
<1>. DEFINE t == Template(code[k])
<1>1. /\ CompilerInv /\ MachineInv /\ LayoutInv /\ phase = "run" /\ Compared /\ Running
      /\ code \in Seq(Opcode)
  BY TracedFacts DEF Traced
<1>2. /\ code[k] \in Opcode /\ t \in Seq(Legal) /\ Holds(buffer, t, addrs[k])
      /\ addrs[k + 1] = addrs[k] + Length(t) /\ addrs[k] \in Nat
      /\ code[k].op \notin {"op_def_lambda", "op_ret", "op_call"}
  BY <1>1, Ordered
<1>3. t[1] = x /\ Len(t) = 1 /\ t[1].name \in Straight
  BY <1>2, OtherShapes
<1>4. AtStep(t, addrs[k], 1)
  <2>1. PICK i \in 1 .. Len(t) : AtStep(t, addrs[k], i)
    BY DEF InCode
  <2>. HIDE DEF t
  <2>2. i = 1
    BY <1>3, <2>1
  <2>. QED BY <2>1, <2>2
<1>. HIDE DEF t
<1>5. 1 \in 1 .. Len(t) /\ Length(t) = Ends(t)[1]
  BY <1>3 DEF Length
<1>6. Kept(t[1].name) /\ Done(t[1].name)
  BY <1>2, <1>4, <1>5, StepDoes
<1>7. stack' = stack /\ ip' = addrs[k] + Ends(t)[1]
  BY <1>1, <1>2, <1>3, <1>4, <1>5, StepFrom
<1>8. Current.arg = t[1].arg
  <2>1. t[1].name \notin {"je", "jne"}
    BY <1>3 DEF Straight
  <2>. QED BY <1>1, <1>2, <1>4, <1>5, <2>1, AtTemplate
<1>. QED BY <1>2, <1>3, <1>5, <1>6, <1>7, <1>8

\* An opcode that does not move the pointer.
LEMMA StaysPut ==
  ASSUME Traced, NEW k \in DOMAIN code, InCode(k), regs'["rbx"] = regs["rbx"],
         stack' = stack, ip' = addrs[k + 1], code[k].op \notin {"op_addp", "op_subp"}
  PROVE  Tracked' /\ PcOf' = k /\ pointer' = pointer
<1>1. /\ CompilerInv /\ MachineInv /\ LayoutInv /\ phase = "run" /\ Compared
      /\ Moves(code)[Len(code)] <= PtrMod - TapeSize /\ code \in Seq(Opcode)
  BY TracedFacts DEF Traced
<1>2. /\ pointer = PtrPlus(p, 0) /\ Moves(code)[k - 1] \in Nat /\ k \in Nat
      /\ p \in (-Moves(code)[k - 1]) .. (TapeSize - 1 + Moves(code)[k - 1])
      /\ regs["rbx"].base = "tape" /\ Len(stack) = 5
  BY <1>1, InCodeFacts
<1>3. p' = p
  BY DEF p
<1>4. k \in 1 .. Len(code) /\ Len(code) \in Nat
  BY <1>1
<1>5. k + 1 \in 1 .. (Len(code) + 1) /\ (k + 1) - 1 = k
  BY <1>4
<1>6. Moves(code)[k] = Moves(code)[k - 1]
  <2>1. Moves(code)[k] = Moves(code)[k - 1] + 0
    BY <1>1, <1>4, MovesMeaning
  <2>. QED BY <1>2, <2>1
<1>7. p' \in (-Moves(code)[(k + 1) - 1]) .. (TapeSize - 1 + Moves(code)[(k + 1) - 1])
  BY <1>2, <1>3, <1>5, <1>6
<1>8. Tracked' /\ PcOf' = (k + 1) - 1 /\ pointer' = PtrPlus(p', 0)
  BY <1>2, <1>5, <1>7, ArrivesAt
<1>. QED BY <1>2, <1>3, <1>5, <1>8

LEMMA CellSteps ==
  ASSUME Traced, NEW k \in DOMAIN code, InCode(k),
         code[k].op \in {"op_add", "op_sub", "op_clear", "op_in", "op_out"}
  PROVE  Tracked' /\ Interp!Next
<1>1. /\ CompilerInv /\ MachineInv /\ LayoutInv /\ phase = "run" /\ Compared
      /\ Moves(code)[Len(code)] <= PtrMod - TapeSize /\ code \in Seq(Opcode) /\ code' = code
      /\ Status = "running" /\ Status' = "running"
  BY TracedFacts DEF Traced
<1>2. /\ AtCell <=> OnTape(p)
      /\ OnTape(p) <=> OnTape(pointer)
      /\ OnTape(p) => pointer = p
      /\ PcOf = k - 1
  BY <1>1, InCodeFacts
<1>3. ~IsJump(code[k]) /\ code[k].op \notin {"op_addp", "op_subp"}
  BY DEF IsJump
<1>4. code[k] \in Opcode /\ code[k].num \in Nat
  <2>1. code[k] \in Opcode
    BY <1>1
  <2>. QED BY <2>1 DEF Opcode
<1>5. ASSUME NEW x, Template(code[k]) = << x >>,
             x.name \in {"add_mem", "clear_mem", "getchar", "putchar"}
      PROVE  /\ Kept(x.name) /\ Done(x.name) /\ Current.arg = x.arg
             /\ Tracked' /\ PcOf' = k /\ pointer' = pointer
             /\ OnTape(pointer) /\ pointer = p
  <2>1. /\ Kept(x.name) /\ Done(x.name) /\ Current.arg = x.arg
        /\ stack' = stack /\ ip' = addrs[k + 1]
    BY <1>3, <1>5, OneInstruction
  <2>2. regs'["rbx"] = regs["rbx"] /\ AtCell
    BY <1>5, <2>1 DEF Kept, Done
  <2>. QED BY <1>2, <1>3, <2>1, <2>2, StaysPut
<1>6. CASE code[k].op \in {"op_add", "op_sub"}
  <2>. DEFINE arg == IF code[k].op = "op_add" THEN Imm8(code[k].num) ELSE -Imm8(code[k].num)
              num == IF code[k].op = "op_add" THEN code[k].num ELSE -code[k].num
              x   == Ins("add_mem", arg, 3)
  <2>1. Template(code[k]) = << x >> /\ x.name = "add_mem" /\ x.arg = arg
    BY <1>6 DEF Template, Ins
  <2>. HIDE DEF x
  <2>2. /\ Kept("add_mem") /\ Done("add_mem") /\ Current.arg = arg
        /\ Tracked' /\ PcOf' = k /\ pointer' = pointer /\ OnTape(pointer) /\ pointer = p
    BY <1>5, <2>1
  <2>3. mem' = [mem EXCEPT ![p] = CellPlus(mem[p], arg)] /\ input' = input /\ output' = output
    BY <2>2 DEF Kept, Done
  <2>4. CellPlus(mem[p], arg) = CellPlus(mem[p], num)
    <3>1. mem[p] \in Int
      <4>1. mem[p] \in Byte
        BY <2>2 DEF MachineInv, OnTape, Traced, Running
      <4>. QED BY <4>1, MachineAssumption DEF Byte
    <3>. QED BY <1>4, <3>1, AddsAlike
  <2>5. mem' = [mem EXCEPT ![pointer] = CellPlus(mem[pointer], num)]
    BY <2>2, <2>3, <2>4
  <2>6. Interp!AddSub
    BY <1>1, <1>2, <1>6, <2>2, <2>3, <2>5, Actions
  <2>. QED BY <2>2, <2>6 DEF Interp!Next
<1>7. CASE code[k].op = "op_clear"
  <2>. DEFINE x == Ins("clear_mem", 0, 3)
  <2>1. Template(code[k]) = << x >> /\ x.name = "clear_mem"
    BY <1>7 DEF Template, Ins
  <2>. HIDE DEF x
  <2>2. /\ Kept("clear_mem") /\ Done("clear_mem")
        /\ Tracked' /\ PcOf' = k /\ pointer' = pointer /\ OnTape(pointer) /\ pointer = p
    BY <1>5, <2>1
  <2>3. mem' = [mem EXCEPT ![pointer] = 0] /\ input' = input /\ output' = output
    BY <2>2 DEF Kept, Done
  <2>4. Interp!Clear
    BY <1>1, <1>2, <1>7, <2>2, <2>3, Actions
  <2>. QED BY <2>2, <2>4 DEF Interp!Next
<1>8. CASE code[k].op = "op_in"
  <2>. DEFINE x == Ins("getchar", 0, 14)
  <2>1. Template(code[k]) = << x >> /\ x.name = "getchar"
    BY <1>8 DEF Template, Ins
  <2>. HIDE DEF x
  <2>2. /\ Kept("getchar") /\ Done("getchar")
        /\ Tracked' /\ PcOf' = k /\ pointer' = pointer /\ OnTape(pointer) /\ pointer = p
    BY <1>5, <2>1
  <2>3. /\ output' = output
        /\ \/ /\ input # << >> /\ mem' = [mem EXCEPT ![pointer] = Head(input)]
              /\ input' = Tail(input)
           \/ /\ input = << >> /\ mem' = [mem EXCEPT ![pointer] = EOF] /\ input' = input
    BY <2>2 DEF Kept, Done
  <2>4. Interp!In
    BY <1>1, <1>2, <1>8, <2>2, <2>3, Actions
  <2>. QED BY <2>2, <2>4 DEF Interp!Next
<1>9. CASE code[k].op = "op_out"
  <2>. DEFINE x == Ins("putchar", 0, 15)
  <2>1. Template(code[k]) = << x >> /\ x.name = "putchar"
    BY <1>9 DEF Template, Ins
  <2>. HIDE DEF x
  <2>2. /\ Kept("putchar") /\ Done("putchar")
        /\ Tracked' /\ PcOf' = k /\ pointer' = pointer /\ OnTape(pointer) /\ pointer = p
    BY <1>5, <2>1
  <2>3. /\ mem' = mem /\ input' = input
        /\ Len(output) < MaxOutput /\ output' = Append(output, mem[pointer])
    BY <2>2 DEF Kept, Done
  <2>4. Interp!Out
    BY <1>1, <1>2, <1>9, <2>2, <2>3, Actions
  <2>. QED BY <2>2, <2>4 DEF Interp!Next
<1>. QED BY <1>6, <1>7, <1>8, <1>9

LEMMA MoveSteps ==
  ASSUME Traced, NEW k \in DOMAIN code, InCode(k), code[k].op \in {"op_addp", "op_subp"}
  PROVE  Tracked' /\ Interp!Next
<1>1. /\ CompilerInv /\ MachineInv /\ LayoutInv /\ phase = "run" /\ Compared
      /\ Moves(code)[Len(code)] <= PtrMod - TapeSize /\ code \in Seq(Opcode) /\ code' = code
      /\ Status = "running" /\ Status' = "running"
  BY TracedFacts DEF Traced
<1>. DEFINE arg == IF code[k].op = "op_addp" THEN Imm32(code[k].num) ELSE -Imm32(code[k].num)
            num == IF code[k].op = "op_addp" THEN code[k].num ELSE -code[k].num
            x   == Ins("add_rbx", arg, 7)
            m   == Moves(code)[k - 1]
<1>2. /\ p \in Int /\ pointer = PtrPlus(p, 0) /\ m \in Nat
      /\ p \in (-m) .. (TapeSize - 1 + m)
      /\ regs["rbx"].base = "tape" /\ Len(stack) = 5
      /\ PcOf = k - 1 /\ k \in Nat
  BY <1>1, InCodeFacts
<1>3. code[k].num \in Nat
  <2>1. code[k] \in Opcode
    BY <1>1
  <2>. QED BY <2>1 DEF Opcode
<1>4. Template(code[k]) = << x >> /\ x.name = "add_rbx" /\ x.arg = arg /\ ~IsJump(code[k])
  BY DEF Template, Ins, IsJump
<1>. HIDE DEF x
<1>5. /\ Kept("add_rbx") /\ Done("add_rbx") /\ Current.arg = arg
      /\ stack' = stack /\ ip' = addrs[k + 1]
  BY <1>4, OneInstruction
<1>6. regs'["rbx"].base = "tape" /\ p' = p + arg /\ UNCHANGED <<mem, input, output>>
  BY <1>2, <1>5 DEF Kept, Done
<1>7. k + 1 \in 1 .. (Len(code) + 1) /\ (k + 1) - 1 = k /\ k \in 1 .. Len(code)
  <2>1. Len(code) \in Nat /\ k \in 1 .. Len(code)
    BY <1>1
  <2>. QED BY <2>1
<1>8. Moves(code)[k] = m + code[k].num
  BY <1>1, <1>7, MovesMeaning
<1>9. p + arg \in (-(m + code[k].num)) .. (TapeSize - 1 + (m + code[k].num))
  <2>. DEFINE i == Imm32(code[k].num)
              l == code[k].num
  <2>1. i \in Int /\ i <= l /\ -l <= i /\ l \in Nat
    BY <1>3, Imm32Value
  <2>2. arg = i \/ arg = -i
    OBVIOUS
  <2>3. TapeSize \in Nat
    BY MachineAssumption
  <2>. HIDE DEF i, l, arg, m
  <2>4. p + arg \in (-(m + l)) .. (TapeSize - 1 + (m + l))
    BY <1>2, <2>1, <2>2, <2>3
  <2>. QED BY <2>4 DEF l
<1>10. Tracked' /\ PcOf' = (k + 1) - 1 /\ pointer' = PtrPlus(p', 0)
  <2>1. p' \in (-Moves(code)[(k + 1) - 1]) .. (TapeSize - 1 + Moves(code)[(k + 1) - 1])
    BY <1>6, <1>7, <1>8, <1>9
  <2>. QED BY <1>2, <1>5, <1>6, <1>7, <2>1, ArrivesAt
<1>11. pointer' = PtrPlus(pointer, num)
  BY <1>2, <1>3, <1>6, <1>10, MovesAlike
<1>12. Interp!MovePtr
  BY <1>1, <1>2, <1>6, <1>7, <1>10, <1>11, Actions
<1>. QED BY <1>10, <1>12 DEF Interp!Next

\* The test of a bracket sets the flag, on which its jump depends: the two
\* instructions together are what interpreter() does.
LEMMA BracketSteps ==
  ASSUME Traced, NEW k \in DOMAIN code, InCode(k), IsJump(code[k])
  PROVE  Tracked' /\ (Interp!Next \/ UNCHANGED Interp!vars)
<1>. DEFINE t == Template(code[k])
            n == addrs[k]
<1>1. /\ CompilerInv /\ MachineInv /\ LayoutInv /\ phase = "run" /\ Compared /\ Running
      /\ Moves(code)[Len(code)] <= PtrMod - TapeSize /\ code \in Seq(Opcode) /\ WellFormed(code)
      /\ UNCHANGED <<code, addrs, start>>
      /\ Status = "running" /\ Status' = "running"
  BY TracedFacts DEF Traced
<1>2. /\ code[k] \in Opcode /\ t \in Seq(Legal) /\ Holds(buffer, t, n)
      /\ addrs[k + 1] = n + Length(t) /\ n \in Nat
      /\ code[k].op \notin {"op_def_lambda", "op_ret", "op_call"}
  BY <1>1, Ordered
<1>3. /\ Len(t) = 2 /\ Ends(t)[1] = 4 /\ Length(t) = Ends(t)[2]
      /\ t[2].name = JumpName[code[k].op]
  BY <1>2, JumpTemplate DEF Length
<1>4. t[1].name = "test_mem" /\ code[k].op \in {"op_jf", "op_jt"}
  BY DEF IsJump, Template, Ins
<1>5. PICK i \in 1 .. Len(t) : AtStep(t, n, i) /\ (i = 2 => AtCell /\ (zf <=> mem[p] = 0))
  BY DEF InCode
<1>6. /\ p \in Int /\ pointer = PtrPlus(p, 0) /\ Moves(code)[k - 1] \in Nat
      /\ p \in (-Moves(code)[k - 1]) .. (TapeSize - 1 + Moves(code)[k - 1])
      /\ regs["rbx"].base = "tape" /\ Len(stack) = 5
      /\ AtCell <=> OnTape(p)
      /\ OnTape(p) <=> OnTape(pointer)
      /\ OnTape(p) => pointer = p
      /\ PcOf = k - 1 /\ k \in Nat
  BY <1>1, InCodeFacts
<1>7. t' = t
  BY <1>1 DEF Template
<1>8. Kept(t[i].name) /\ Done(t[i].name)
  BY <1>2, <1>5, StepDoes
<1>9. CASE i = 1
  <2>1. stack' = stack /\ ip' = n + Ends(t)[1]
    BY <1>1, <1>2, <1>4, <1>5, <1>9, StepFrom DEF Straight
  <2>2. /\ UNCHANGED <<mem, input, output>> /\ regs'["rbx"] = regs["rbx"] /\ AtCell
        /\ (zf' <=> mem[p] = 0)
    BY <1>4, <1>8, <1>9 DEF Kept, Done
  <2>3. p' = p
    BY <2>2 DEF p
  <2>4. pointer' = PtrPlus(p', 0)
    <3>1. ip' \in n .. addrs[k + 1]
      <4>. DEFINE l == Length(t)
      <4>1. l \in Nat /\ Ends(t)[1] \in Nat /\ Ends(t)[1] <= l
        <5>. HIDE DEF t
        <5>1. 1 \in 0 .. Len(t)
          BY <1>3
        <5>. QED BY <1>2, <5>1, LegalEnds
      <4>. HIDE DEF l
      <4>. QED BY <1>2, <2>1, <4>1 DEF l
    <3>2. InBodyOf(ip')
      BY <3>1, InOwnCode
    <3>. QED BY <3>2 DEF Traced
  <2>5. AtStep(t, n, 2)'
    BY <1>1, <1>7, <2>1 DEF AtStep
  <2>6. AtCell' /\ (zf' <=> mem'[p'] = 0)
    BY <2>2, <2>3 DEF AtCell
  <2>7. Follows(k)' /\ Len(stack') = 5
    BY <1>1, <1>6, <2>1, <2>2, <2>3, <2>4 DEF Follows
  <2>8. 2 \in 1 .. Len(t')
    <3>1. Len(t') = Len(t)
      BY <1>7
    <3>. HIDE DEF t
    <3>. QED BY <1>3, <3>1
  <2>9. InCode(k)'
    BY <1>1, <2>5, <2>6, <2>7, <2>8 DEF InCode
  <2>10. Tracked' /\ PcOf' = k - 1
    <3>1. (\E j \in DOMAIN code : InCode(j))'
      BY <1>1, <2>9
    <3>2. PcOf' = k - 1
      BY <2>9, TracedFacts
    <3>. QED BY <3>1, <3>2 DEF Tracked
  <2>11. pointer' = pointer
    BY <1>6, <2>3, <2>4
  <2>. QED BY <1>6, <2>2, <2>10, <2>11, NoAction
<1>10. CASE i = 2
  <2>. DEFINE num == code[k].num
              m == IF zf = (code[k].op = "op_jf") THEN num + 1 ELSE k + 1
  <2>1. t[2].name = (IF code[k].op = "op_jf" THEN "je" ELSE "jne") /\ t[2].name \in {"je", "jne"}
    BY <1>3, <1>4 DEF JumpName
  <2>2. /\ stack' = stack /\ UNCHANGED <<mem, input, output>>
        /\ regs'["rbx"] = regs["rbx"]
    <3>1. stack' = stack
      BY <1>1, <1>2, <1>5, <1>10, <2>1, StepFrom
    <3>. QED BY <1>8, <1>10, <2>1, <3>1 DEF Kept
  <2>3. /\ AtCell /\ (zf <=> mem[p] = 0) /\ OnTape(p) /\ p' = p
        /\ OnTape(pointer) /\ pointer = p
    BY <1>5, <1>6, <1>10, <2>2 DEF p
  <2>4. ip' = ip + Current.len + (IF zf = (t[2].name = "je") THEN Current.arg ELSE 0)
    BY <1>8, <1>10, <2>1 DEF Done
  <2>5. Current.at = ip /\ ip + Current.len = n + Ends(t)[2]
    BY <1>1, <1>2, <1>5, <1>10, AtTemplate
  <2>6. ip = n + 4
    BY <1>3, <1>5, <1>10 DEF AtStep
  <2>7. Current = buffer[JumpAt(k)]
    BY <2>6 DEF Current, JumpAt
  <2>8. Current.at + Current.len + Current.arg = addrs[num + 1]
    BY <1>1, <2>7, JumpLands
  <2>9. addrs[k + 1] = n + Ends(t)[2] /\ ip + Current.len \in Nat
    <3>1. Length(t) \in Nat
      BY <1>2, LegalEnds
    <3>. QED BY <1>2, <1>3, <2>5, <3>1
  <2>10. (t[2].name = "je") = (code[k].op = "op_jf")
    BY <2>1
  <2>11. ip' = addrs[m]
    <3>1. CASE zf = (code[k].op = "op_jf")
      BY <2>4, <2>5, <2>8, <2>10, <3>1
    <3>2. CASE zf # (code[k].op = "op_jf")
      <4>1. ip' = ip + Current.len + 0
        BY <2>4, <2>10, <3>2
      <4>. QED BY <2>5, <2>9, <3>2, <4>1
    <3>. QED BY <3>1, <3>2
  <2>12. m \in 1 .. (Len(code) + 1) /\ m - 1 \in 0 .. Len(code)
    <3>1. num \in 0 .. Len(code) /\ num + 1 \in 1 .. (Len(code) + 1)
      BY <1>1, <1>4, JumpTarget
    <3>2. k \in 1 .. Len(code) /\ Len(code) \in Nat
      BY <1>1
    <3>. HIDE DEF num
    <3>. QED BY <3>1, <3>2
  <2>13. m - 1 = IF (code[k].op = "op_jt") = (mem[pointer] # 0) THEN num ELSE k
    <3>1. num \in Nat
      BY <1>2 DEF Opcode
    <3>2. (zf = (code[k].op = "op_jf")) <=> ((code[k].op = "op_jt") = (mem[pointer] # 0))
      <4>1. zf \in BOOLEAN
        BY <1>1 DEF MachineInv
      <4>. QED BY <1>4, <2>3, <4>1
    <3>. HIDE DEF num
    <3>. QED BY <1>6, <3>1, <3>2
  <2>. HIDE DEF m
  <2>14. p' \in (-Moves(code)[m - 1]) .. (TapeSize - 1 + Moves(code)[m - 1])
    <3>1. Moves(code)[m - 1] \in Nat
      BY <1>1, <2>12, MovesMeaning
    <3>2. p \in 0 .. (TapeSize - 1) /\ TapeSize \in Nat
      BY <2>3, MachineAssumption DEF OnTape
    <3>. QED BY <2>3, <3>1, <3>2
  <2>15. Tracked' /\ PcOf' = m - 1 /\ pointer' = PtrPlus(p', 0)
    BY <1>6, <2>2, <2>11, <2>12, <2>14, ArrivesAt
  <2>16. pointer' = pointer
    BY <1>6, <2>3, <2>15
  <2>17. Interp!Jump
    BY <1>1, <1>4, <1>6, <2>2, <2>3, <2>13, <2>15, <2>16, Actions
  <2>. QED BY <2>15, <2>17 DEF Interp!Next
<1>11. i = 1 \/ i = 2
  <2>. HIDE DEF t
  <2>. QED BY <1>3, <1>5
<1>. QED BY <1>9, <1>10, <1>11

\* Every step of the code.
LEMMA TracedSteps ==
  ASSUME Traced, Tracked
  PROVE  Tracked' /\ (Interp!Next \/ UNCHANGED Interp!vars)
<1>1. ASSUME NEW k \in DOMAIN code, InCode(k)
      PROVE  Tracked' /\ (Interp!Next \/ UNCHANGED Interp!vars)
  <2>1. code[k].op \in OpType /\ code[k].op \notin {"op_def_lambda", "op_ret", "op_call"}
    <3>1. code \in Seq(Opcode) /\ Compared
      BY TracedFacts DEF Traced
    <3>2. code[k] \in Opcode
      BY <3>1
    <3>. QED BY <3>1, <3>2 DEF Opcode, Compared
  <2>2. \/ code[k].op \in {"op_add", "op_sub", "op_clear", "op_in", "op_out"}
        \/ code[k].op \in {"op_addp", "op_subp"} \/ IsJump(code[k])
    BY <2>1 DEF OpType, IsJump
  <2>. QED BY <1>1, <2>2, CellSteps, MoveSteps, BracketSteps
<1>. QED BY <1>1, BeforeCodeSteps, AfterCodeSteps DEF Tracked

\* The end of the code, and an access off the tape.
LEMMA LastStep ==
  ASSUME CompilerInv, MachineInv, LayoutInv, PathInv, TraceInv, Compared,
         Run, phase = "run", phase' # "run", pointer' = pointer
  PROVE  Interp!Next
<1>1. Tracked /\ Moves(code)[Len(code)] <= PtrMod - TapeSize
  BY DEF TraceInv, Tracked
<1>2. /\ code \in Seq(Opcode) /\ start \in Nat /\ Holds(buffer, Thunk, start)
      /\ Holds(buffer, Prologue, 0) /\ Holds(buffer, Epilogue, addrs[Len(code) + 1])
      /\ addrs[Len(code) + 1] \in Nat /\ Len(code) \in Nat
  <2>1. Len(code) + 1 \in 1 .. (Len(code) + 1)
    BY LayoutFacts
  <2>. QED BY <2>1, LayoutFacts
<1>3. Status = "running"
  BY DEF Status
<1>4. ASSUME BeforeCode, NEW names, Here(names), "push" \notin names, "mov_rbp_rsp" \notin names,
             "mov_rbx_tape" \notin names, "call_main" \notin names
      PROVE  FALSE
  <2>1. ASSUME NEW i \in {1, 2}, AtStep(Thunk, start, i) PROVE FALSE
    <3>1. Thunk \in Seq(Legal) /\ i \in 1 .. Len(Thunk)
          /\ Thunk[i].name \in {"mov_rbx_tape", "call_main"}
      BY FixedTemplates, TemplateShapes
    <3>2. Thunk[i].name \in names
      BY <1>2, <1>4, <2>1, <3>1, AtTemplate
    <3>. QED BY <1>4, <3>1, <3>2
  <2>2. ASSUME InMainPrologue PROVE FALSE
    <3>1. PICK i \in 1 .. 4 : AtStep(Prologue, 0, i)
      BY <2>2 DEF InMainPrologue
    <3>2. i \in {1, 3, 4} \/ i = 2
      OBVIOUS
    <3>3. Prologue \in Seq(Legal) /\ i \in 1 .. Len(Prologue)
          /\ Prologue[i].name \in {"push", "mov_rbp_rsp"}
      BY <3>2, FixedTemplates, TemplateShapes
    <3>4. \A ns : Here(ns) <=> Prologue[i].name \in ns
      <4>. DEFINE z == 0
      <4>1. z \in Nat /\ Holds(buffer, Prologue, z) /\ AtStep(Prologue, z, i)
        BY <1>2, <3>1
      <4>. HIDE DEF z
      <4>. QED BY <3>3, <4>1, AtTemplate
    <3>. QED BY <1>4, <3>3, <3>4
  <2>3. 1 \in {1, 2} /\ 2 \in {1, 2}
    OBVIOUS
  <2>. QED BY <1>4, <2>1, <2>2, <2>3 DEF BeforeCode
<1>5. ASSUME AfterCode, NEW names, Here(names), "pop" \notin names, "ret" \notin names
      PROVE  FALSE
  <2>1. ASSUME AtStep(Thunk, start, 3) PROVE FALSE
    <3>1. Thunk \in Seq(Legal) /\ 3 \in 1 .. Len(Thunk) /\ Thunk[3].name = "ret"
      BY FixedTemplates, TemplateShapes
    <3>2. Thunk[3].name \in names
      BY <1>2, <1>5, <2>1, <3>1, AtTemplate
    <3>. QED BY <1>5, <3>1, <3>2
  <2>2. ASSUME InMainEpilogue PROVE FALSE
    <3>1. PICK i \in 1 .. 4 : AtStep(Epilogue, addrs[Len(code) + 1], i)
      BY <2>2 DEF InMainEpilogue
    <3>2. i \in {1, 2, 3} \/ i = 4
      OBVIOUS
    <3>3. Epilogue \in Seq(Legal) /\ i \in 1 .. Len(Epilogue)
          /\ Epilogue[i].name \in {"pop", "ret"}
      BY <3>2, FixedTemplates, TemplateShapes
    <3>4. Epilogue[i].name \in names
      BY <1>2, <1>5, <3>1, <3>3, AtTemplate
    <3>. QED BY <1>5, <3>3, <3>4
  <2>. QED BY <1>5, <2>1, <2>2 DEF AfterCode
<1>6. ASSUME NEW k \in DOMAIN code, InCode(k)
      PROVE  /\ ~Here({"ret"})
             /\ Here({"add_mem", "clear_mem", "test_mem", "getchar", "putchar"}) =>
                  code[k].op \notin {"op_addp", "op_subp"}
             /\ Reached(k)
  <2>. DEFINE t == Template(code[k])
  <2>1. PICK i \in 1 .. Len(t) : AtStep(t, addrs[k], i)
    BY <1>6 DEF InCode
  <2>2. /\ code[k] \in Opcode /\ t \in Seq(Legal) /\ Holds(buffer, t, addrs[k])
        /\ addrs[k] \in Nat /\ code[k].op \notin {"op_def_lambda", "op_ret", "op_call"}
    BY Ordered
  <2>3. \A names : Here(names) <=> t[i].name \in names
    BY <2>1, <2>2, AtTemplate
  <2>4. /\ t[1].name \in Straight
        /\ ~IsJump(code[k]) => Len(t) = 1
        /\ IsJump(code[k]) => Len(t) = 2 /\ t[2].name \in {"je", "jne"}
    BY <2>2, OtherShapes
  <2>5. i = 1 \/ (IsJump(code[k]) /\ i = 2)
    <3>1. CASE ~IsJump(code[k])
      <4>1. Len(t) = 1 /\ i \in 1 .. Len(t)
        BY <2>1, <2>4, <3>1
      <4>. HIDE DEF t
      <4>. QED BY ONLY <4>1
    <3>2. CASE IsJump(code[k])
      <4>1. Len(t) = 2 /\ i \in 1 .. Len(t)
        BY <2>1, <2>4, <3>2
      <4>2. i \in 1 .. 2
        BY ONLY <4>1
      <4>. QED BY <3>2, <4>2
    <3>. QED BY <3>1, <3>2
  <2>6. code[k].op \in {"op_addp", "op_subp"} => i = 1 /\ t[1].name = "add_rbx"
    BY <2>5 DEF IsJump, Template, Ins
  <2>. HIDE DEF t
  <2>7. ~Here({"ret"})
    BY <2>3, <2>4, <2>5 DEF Straight
  <2>8. Here({"add_mem", "clear_mem", "test_mem", "getchar", "putchar"}) =>
          code[k].op \notin {"op_addp", "op_subp"}
    BY <2>3, <2>6
  <2>9. Reached(k)
    BY <2>1, ReachedCode DEF t
  <2>. QED BY <2>7, <2>8, <2>9
<1>7. CASE Undefined
  <2>1. OnTrack
    <3>1. ~InLambdaCode
      BY DEF InLambdaCode, Compared
    <3>. QED BY <3>1, OnPath
  <2>2. /\ Here({"add_mem", "clear_mem", "test_mem", "getchar", "putchar"}) /\ ~AtCell
        /\ phase' = "undefined"
        /\ UNCHANGED <<code, buffer, addrs, start, ip, mem, input, output>>
    BY <1>7, <2>1 DEF Undefined, jit, cpu, machine
  <2>3. PICK k \in DOMAIN code : InCode(k)
    BY <1>1, <1>4, <1>5, <2>2 DEF Tracked
  <2>4. Reached(k) /\ code[k].op \notin {"op_addp", "op_subp"}
    BY <1>6, <2>2, <2>3
  <2>5. PcOf = k - 1 /\ ~OnTape(pointer) /\ k \in Nat
    BY <1>1, <2>2, <2>3, InCodeFacts
  <2>6. PcOf' = PcOf
    <3>1. Reached(k)'
      BY <2>2, <2>4 DEF Reached
    <3>2. DOMAIN addrs' \in SUBSET Nat /\ 1 .. k \subseteq DOMAIN addrs' /\ 0 \notin DOMAIN addrs'
      <4>1. DOMAIN addrs = 1 .. (Len(code) + 1) /\ k \in 1 .. Len(code)
        BY <1>2, Ordered
      <4>. QED BY <1>2, <2>2, <4>1
    <3>3. PcOf' = IF k = 0 THEN 0 ELSE k - 1
      BY <2>5, <3>1, <3>2, PcIsNext
    <3>. QED BY <1>2, <2>5, <3>3
  <2>7. Status' = "undefined"
    BY <2>2 DEF Status
  <2>8. Interp!OffTape
    BY <1>2, <1>3, <2>2, <2>4, <2>5, <2>6, <2>7, LastActions
  <2>. QED BY <2>8 DEF Interp!Next
<1>8. CASE Ret
  <2>1. Here({"ret"}) /\ phase' = "returned" /\ UNCHANGED <<code, mem, input, output>>
    BY <1>8 DEF Ret, machine
  <2>2. AfterCode
    BY <1>1, <1>4, <1>6, <2>1 DEF Tracked
  <2>3. PcOf = Len(code)
    BY <2>2, PcMeaning
  <2>4. PcOf' = Len(code) /\ Status' = "halted"
    <3>1. PcOf' = Len(code')
      BY <2>1, Zenon DEF PcOf
    <3>. QED BY <2>1, <3>1 DEF Status
  <2>5. Interp!Halt
    BY <1>2, <1>3, <2>1, <2>3, <2>4, LastActions
  <2>. QED BY <2>5 DEF Interp!Next
<1>9. CASE PushReg \/ PopReg \/ SetReg \/ CallMain \/ WriteMem \/ TestMem \/ CondJump
             \/ GetChar \/ PutChar
  <2>1. phase' = phase
    BY <1>9 DEF PushReg, PopReg, SetReg, CallMain, WriteMem, TestMem, CondJump, GetChar, PutChar
  <2>. QED BY <2>1
<1>. QED BY <1>7, <1>8, <1>9 DEF Run

-----------------------------------------------------------------------------
(* The steps of the compiler, and every step.                              *)

LEMMA BeforeRunning ==
  ASSUME NotStarted
  PROVE  PcOf = 0 /\ Status = "running"
<1>1. phase # "returned" /\ phase # "undefined" /\ phase # "run"
  BY DEF NotStarted, Starting
<1>2. ~(phase \in {"run", "undefined"} /\ ip < start)
      /\ ~(phase = "run" /\ ip > start /\ Current.name = "ret")
  BY <1>1
<1>3. PcOf = 0
  BY <1>1, <1>2, Zenon DEF PcOf
<1>. QED BY <1>1, <1>3 DEF Status

LEMMA BeforeRunningNext ==
  (NotStarted => PcOf = 0 /\ Status = "running")'
<1>1. NotStarted => PcOf = 0 /\ Status = "running"
  BY BeforeRunning
<1>. QED BY <1>1, PTL

\* The thunk comes after the code of the program.
LEMMA ThunkIsAfter ==
  ASSUME CompilerInv, LayoutInv, phase = "patch"
  PROVE  start \in Nat /\ ~InBodyOf(start)
<1>1. /\ code \in Seq(Opcode) /\ addrs \in Seq(Nat) /\ Len(addrs) = Len(code) + 1
      /\ start \in Nat
  BY DEF CompilerInv, CompilerTypes
<1>2. start = addrs[Len(code) + 1] + Length(Epilogue)
  BY DEF LayoutInv
<1>3. addrs[Len(code) + 1] \in Nat
  BY <1>1
<1>4. Length(Epilogue) \in Nat \ {0}
  <2>1. Epilogue \in Seq(Legal) /\ Len(Epilogue) = 4
    BY FixedTemplates, TemplateShapes
  <2>2. 1 \in 1 .. Len(Epilogue) /\ 1 \in 0 .. Len(Epilogue) /\ 1 - 1 = 0
    BY <2>1
  <2>3. /\ Epilogue[1].len \in Nat \ {0} /\ Ends(Epilogue)[1] = Ends(Epilogue)[0] + Epilogue[1].len
        /\ Ends(Epilogue)[0] = 0 /\ Ends(Epilogue)[1] <= Length(Epilogue)
        /\ Length(Epilogue) \in Nat
    BY <2>1, <2>2, LegalEnds
  <2>. QED BY <2>3
<1>. QED BY <1>1, <1>2, <1>3, <1>4 DEF InBodyOf

LEMMA CompilerSteps ==
  ASSUME CompilerInv, LayoutInv, TraceInv, Compile \/ PatchJump \/ CallThunk,
         pointer' = IF phase' = "run" /\ InBodyOf(ip') THEN PtrPlus(p', 0) ELSE pointer
  PROVE  TraceInv' /\ UNCHANGED Interp!vars
<1>1. NotStarted /\ code' = code /\ UNCHANGED machine
  BY DEF Compile, MapBuffer, AllocAddresses, EnterMain, EmitOp, EnterLambda, LeaveLambda,
         LeaveMain, Compiling, PatchJump, PatchNext, CallThunk, NotStarted, Starting, Fail
<1>2. pointer = 0 /\ Moves(code)[Len(code)] <= PtrMod - TapeSize
  BY <1>1 DEF TraceInv
<1>3. PcOf = 0 /\ Status = "running"
  BY <1>1, BeforeRunning
<1>4. CASE phase' # "run"
  <2>1. NotStarted'
    BY <1>4 DEF Compile, MapBuffer, AllocAddresses, EnterMain, EmitOp, EnterLambda, LeaveLambda,
                LeaveMain, Compiling, PatchJump, PatchNext, CallThunk, NotStarted, Starting, Fail
  <2>2. PcOf' = 0 /\ Status' = "running"
    BY <2>1, BeforeRunningNext
  <2>3. pointer' = pointer
    BY <1>4
  <2>4. UNCHANGED Interp!vars
    BY <1>1, <1>3, <2>2, <2>3, Stutters DEF machine
  <2>5. Moves(code')[Len(code')] <= PtrMod - TapeSize
    BY <1>1, <1>2
  <2>6. TraceInv'
    BY <1>2, <1>4, <2>3, <2>5 DEF TraceInv, Moves
  <2>. QED BY <2>4, <2>6
<1>5. CASE phase' = "run"
  <2>1. /\ phase = "patch" /\ ip' = start /\ stack' = << Value("caller", 0) >>
        /\ start' = start /\ CallThunk
    BY <1>5 DEF Compile, MapBuffer, AllocAddresses, EnterMain, EmitOp, EnterLambda, LeaveLambda,
                LeaveMain, Compiling, PatchJump, PatchNext, CallThunk, Fail, jit
  <2>2. start \in Nat /\ ~InBodyOf(ip')
    BY <2>1, ThunkIsAfter
  <2>3. pointer' = pointer
    BY <2>2
  <2>4. PcOf' = 0
    <3>1. ~(ip' < start') /\ ~(ip' > start') /\ ~(phase' = "returned")
      BY <1>5, <2>1, <2>2
    <3>. QED BY <3>1, Zenon DEF PcOf
  <2>5. Status' = "running"
    BY <1>5 DEF Status
  <2>6. UNCHANGED Interp!vars
    BY <1>1, <1>3, <2>3, <2>4, <2>5, Stutters DEF machine
  <2>7. AtStep(Thunk, start, 1)'
    <3>1. Ends(Thunk)[1 - 1] = 0
      BY FixedTemplates, LegalEnds
    <3>. QED BY <2>1, <2>2, <3>1 DEF AtStep
  <2>8. Len(stack') = 1
    <3>. DEFINE v == Value("caller", 0)
    <3>. HIDE DEF v
    <3>1. stack' = << v >>
      BY <2>1 DEF v
    <3>. QED BY <3>1
  <2>9. BeforeCode'
    BY <1>2, <2>3, <2>7, <2>8 DEF BeforeCode
  <2>10. ~NotStarted'
    BY <1>5 DEF NotStarted, Starting
  <2>11. TraceInv'
    BY <1>1, <1>2, <2>9, <2>10 DEF TraceInv, Moves
  <2>. QED BY <2>6, <2>11
<1>. QED BY <1>4, <1>5

\* A step of the emitted code.
LEMMA RunSteps ==
  ASSUME CompilerInv, MachineInv, LayoutInv, PathInv, TraceInv, Run, Compared,
         CompilerInv', MachineInv', LayoutInv',
         pointer' = IF phase' = "run" /\ InBodyOf(ip') THEN PtrPlus(p', 0) ELSE pointer
  PROVE  TraceInv' /\ (Interp!Next \/ UNCHANGED Interp!vars)
<1>1. phase = "run" /\ code' = code /\ phase' \in {"run", "returned", "undefined"}
  BY DEF Run, Here, PushReg, PopReg, SetReg, CallMain, WriteMem, TestMem, CondJump,
         GetChar, PutChar, Undefined, Ret
<1>2. ~NotStarted'
  BY <1>1 DEF NotStarted, Starting
<1>3. Moves(code)[Len(code)] <= PtrMod - TapeSize
      /\ Moves(code')[Len(code')] <= PtrMod - TapeSize
  BY <1>1 DEF TraceInv
<1>4. CASE phase' = "run"
  <2>1. Traced
    BY <1>1, <1>3, <1>4 DEF Traced, Running, PathInv
  <2>2. Tracked
    BY <1>1 DEF TraceInv, Tracked
  <2>3. Tracked' /\ (Interp!Next \/ UNCHANGED Interp!vars)
    BY <2>1, <2>2, TracedSteps
  <2>. QED BY <1>2, <1>3, <2>3 DEF TraceInv, Tracked, Moves
<1>5. CASE phase' # "run"
  <2>1. pointer' = pointer
    BY <1>5
  <2>2. Interp!Next
    BY <1>1, <1>5, <2>1, LastStep
  <2>. QED BY <1>2, <1>3, <1>5, <2>2 DEF TraceInv, Moves
<1>. QED BY <1>4, <1>5

\* Code with the opcodes of the lambda syntax is not compared.
LEMMA NotComparedSteps ==
  ASSUME Run, ~Compared, TraceInv
  PROVE  TraceInv' /\ UNCHANGED Interp!vars
<1>1. code' = code /\ phase' \in {"run", "returned", "undefined"}
  BY DEF Run, Here, PushReg, PopReg, SetReg, CallMain, WriteMem, TestMem, CondJump,
         GetChar, PutChar, Undefined, Ret
<1>2. UNCHANGED Interp!vars
  BY <1>1, Stutters
<1>3. ~Compared' /\ ~NotStarted'
  BY <1>1 DEF Compared, NotStarted, Starting
<1>4. Moves(code')[Len(code')] <= PtrMod - TapeSize
  BY <1>1 DEF TraceInv
<1>. QED BY <1>2, <1>3, <1>4 DEF TraceInv, Moves

LEMMA MappedKeeps ==
  ASSUME CompilerInv, MachineInv, LayoutInv, PathInv, TraceInv, [MappedNext]_mapped
  PROVE  TraceInv' /\ [Interp!Next]_(Interp!vars)
<1>1. CASE MappedNext
  <2>1. Next /\ pointer' = IF phase' = "run" /\ InBodyOf(ip') THEN PtrPlus(p', 0) ELSE pointer
    BY <1>1 DEF MappedNext
  <2>2. CASE Compile \/ PatchJump \/ CallThunk
    BY <2>1, <2>2, CompilerSteps
  <2>3. CASE Run
    <3>1. (CompilerInv /\ MachineInv)' /\ LayoutInv'
      BY <2>1, NextKeeps, NextKeepsLayout
    <3>. QED BY <2>1, <2>3, <3>1, RunSteps, NotComparedSteps
  <2>. QED BY <2>1, <2>2, <2>3 DEF Next
<1>2. CASE UNCHANGED mapped
  <2>1. /\ UNCHANGED <<code, phase, ip, regs, stack, zf, mem, input, output, pointer>>
        /\ UNCHANGED <<buffer, size, addrs, patches, start>>
    BY <1>2 DEF mapped, vars, cpu, jit, machine
  <2>2. PcOf' = PcOf /\ Status' = Status
    BY <2>1 DEF PcOf, Current, Status
  <2>3. UNCHANGED Interp!vars
    BY <2>1, <2>2, Stutters
  <2>4. TraceInv'
    BY <2>1 DEF TraceInv, NotStarted, Compared, Moves, BeforeCode, AfterCode, InCode, Follows,
                InMainPrologue, InMainEpilogue, AtStep, AtCell, p
  <2>. QED BY <2>3, <2>4
<1>. QED BY <1>1, <1>2

LEMMA MappedStarts ==
  ASSUME MappedInit, MovesAreFew
  PROVE  TraceInv /\ Interp!Init
<1>1. /\ code \in Programs /\ phase = "create" /\ pointer = 0 /\ mem = ZeroTape
      /\ input \in Inputs /\ output = << >>
  BY DEF MappedInit, Init, CompilerInit
<1>2. code \in Seq(Opcode) /\ WellFormed(code) /\ input \in Seq(Byte)
  BY <1>1, X86JitAssumption, ProgramsAreWellFormed
<1>3. NotStarted /\ PcOf = 0 /\ Status = "running"
  <2>1. NotStarted
    BY <1>1 DEF NotStarted, Starting
  <2>. QED BY <2>1, BeforeRunning
<1>4. TraceInv
  BY <1>1 DEF TraceInv, MovesAreFew
<1>5. Interp!ZeroTape = ZeroTape
  BY DEF Interp!ZeroTape, ZeroTape
<1>6. Interp!Freed = Freed
  BY DEF Interp!Freed, Freed
<1>7. << >> \in Seq(Byte)
  OBVIOUS
<1>8. WithTimeLine = output
  BY <1>3, TimeLineLast
<1>9. Interp!Init
  BY <1>1, <1>2, <1>3, <1>5, <1>6, <1>7, <1>8 DEF Interp!Init
<1>. QED BY <1>4, <1>9

-----------------------------------------------------------------------------
(* The theorems.                                                           *)

(***************************************************************************)
(* The inductive invariant: of the compiler, that everything emitted is in *)
(* its place and every patch knows its jump; of the processor, what its    *)
(* registers and its stack can hold.                                       *)
(***************************************************************************)
THEOREM InvariantHolds == Spec => [](CompilerInv /\ MachineInv)
<1>1. Init => CompilerInv /\ MachineInv
  BY InitHolds
<1>2. (CompilerInv /\ MachineInv) /\ [Next]_vars => (CompilerInv /\ MachineInv)'
  BY NextKeeps
<1>. QED BY <1>1, <1>2, PTL DEF Spec

(***************************************************************************)
(* Whatever well-formed program is compiled, the addresses, the patches,   *)
(* the calls of jit_compile_function and what the emitted code does to its *)
(* registers and its stack are of their types, and no more than the        *)
(* buffer's capacity is emitted.                                           *)
(***************************************************************************)
THEOREM TypeCorrect == Spec => []TypeOK
<1>1. Clean => mappings \in Nat
  BY DEF Clean, Mapped
<1>2. CompilerInv /\ MachineInv /\ Clean => TypeOK
  BY <1>1 DEF CompilerInv, CompilerTypes, BufferOK, Phases, Starting, Calls, Function, PatchRecord,
         MachineInv, Registers, TypeOK, CompilerTypeOK
<1>. QED BY <1>2, InvariantHolds, CleanHolds, PTL

(***************************************************************************)
(* Whatever well-formed program is compiled, in however small a buffer,    *)
(* once it runs the conditional jump of every loop bracket goes where      *)
(* the code of its target opcode begins, or the epilogue.                  *)
(***************************************************************************)
THEOREM JumpsCorrect == Spec => []JumpsReachTargets
<1>1. CompilerInv => JumpsReachTargets
  BY JumpLands DEF JumpsReachTargets
<1>. QED BY <1>1, InvariantHolds, PTL

(***************************************************************************)
(* Whatever well-formed program is compiled, once it runs the address that *)
(* a definition hands to jit_runtime_push_lambda is where the function of  *)
(* its body begins, aligned to 16 bytes, and the code after that call is   *)
(* that of the opcode after the body, for bodies in bodies and in loops    *)
(* too.                                                                    *)
(***************************************************************************)
THEOREM LambdasCorrect == Spec => []LambdaAddresses
<1>1. Init => LambdaInv
  BY DEF Init, CompilerInit, LambdaInv, OpenLambdas, ClosedLambdas, AllLambdas
<1>2. CompilerInv /\ LambdaInv /\ [Next]_vars => LambdaInv'
  BY NextKeepsLambdas
<1>3. LambdaInv => LambdaAddresses
  BY DEF LambdaInv, AllLambdas, Handed, Defs, LambdaAddresses, LambdasAt
<1>. QED BY <1>1, <1>2, <1>3, InvariantHolds, PTL DEF Spec

\* Where everything lies in the buffer, and where the processor is in it.
LEMMA PathHolds == Spec => [](LayoutInv /\ PathInv)
<1>1. Init => LayoutInv /\ PathInv
  BY DEF Init, CompilerInit, LayoutInv, PathInv
<1>2. CompilerInv /\ MachineInv /\ LayoutInv /\ PathInv /\ [Next]_vars => (LayoutInv /\ PathInv)'
  BY NextKeepsLayout, NextKeepsPath
<1>. QED BY <1>1, <1>2, InvariantHolds, PTL DEF Spec

\* What the registers held on entry is in a register or in its place.
LEMMA EntryHolds == Spec => []EntryInv
<1>1. Init => EntryInv
  BY DEF Init, CompilerInit, EntryInv
<1>2. CompilerInv /\ MachineInv /\ LayoutInv /\ PathInv /\ EntryInv /\ [Next]_vars => EntryInv'
  BY NextKeepsEntry
<1>. QED BY <1>1, <1>2, InvariantHolds, PathHolds, PTL DEF Spec

(***************************************************************************)
(* Whatever well-formed program is compiled, however its loops and bodies  *)
(* nest, and wherever a step of its code leads: the processor is at the    *)
(* first byte of an instruction that was emitted, a pop finds what its     *)
(* register held when the main function was entered and a ret finds a      *)
(* return address, except in the code of an op_ret that was run into and   *)
(* of an op_call.                                                          *)
(***************************************************************************)
THEOREM StaysOnTrack == Spec => []NeverDerails
<1>1. CompilerInv /\ MachineInv /\ LayoutInv /\ PathInv /\ EntryInv => NeverDerails
  BY OnPath, PopsFindEntry DEF NeverDerails
<1>. QED BY <1>1, InvariantHolds, PathHolds, EntryHolds, PTL

(***************************************************************************)
(* Whatever well-formed program without the lambda syntax is compiled, in  *)
(* however small a buffer, what its code does on the processor is what     *)
(* interpreter() does with the same vector: it walks the same opcodes with *)
(* the same tape and data pointer, reads the same bytes, writes the same   *)
(* ones and ends in the same way, off the tape too, each jump being one    *)
(* step of interpreter() and its test none.  rbx has 64 bits and the       *)
(* interpreter's pointer 32: a text whose moves come near 2^32 between     *)
(* two accesses can tell them apart (jit_x86_64.c:95), so it is assumed    *)
(* that they do not.                                                       *)
(***************************************************************************)
THEOREM RunsAsInterpreter == ASSUME MovesAreFew PROVE MappedSpec => ImplementsInterpreter
<1>1. MappedInit => Init /\ TraceInv /\ Interp!Init
  BY MappedStarts DEF MappedInit
<1>2. [MappedNext]_mapped => [Next]_vars
  BY DEF MappedNext, mapped
<1>3. CompilerInv /\ MachineInv /\ LayoutInv /\ PathInv /\ TraceInv /\ [MappedNext]_mapped =>
        TraceInv' /\ [Interp!Next]_(Interp!vars)
  BY MappedKeeps
<1>. QED BY <1>1, <1>2, <1>3, InvariantHolds, PathHolds, PTL
     DEF MappedSpec, ImplementsInterpreter, Spec, Interp!Spec
=============================================================================
