-------------------------- MODULE Aarch64Jit_proofs ---------------------------
(***************************************************************************)
(* What jit_exec_aarch64() guarantees for every set of programs, every     *)
(* input and every size of its buffer, with proofs that TLAPS checks.      *)
(***************************************************************************)
EXTENDS Aarch64Jit, Data_proofs

-----------------------------------------------------------------------------
(* Failures.  FailsCleanly is not inductive: that a failure comes before   *)
(* the program has done anything needs that of every phase before running. *)

NotStarted == phase \in Starting \cup {"failed"}

Untouched == NotStarted => mem = ZeroTape /\ output = << >>

\* Before mmap and after the release there is no mapping, otherwise one.
Mapped == mappings = IF phase \in {"create", "failed", "returned"} THEN 0 ELSE 1

\* Until both allocations are made the buffer is empty.
Vacant ==
  phase \in {"create", "calloc"} => buffer = << >> /\ size = 0 /\ addrs = << >> /\ patches = Freed

Clean == Untouched /\ Mapped /\ Vacant /\ Released

\* The label "error" of jit_exec_aarch64().
LEMMA FailStep ==
  ASSUME Untouched, Mapped, phase \in Starting \ {"create"}, Fail, UNCHANGED machine
  PROVE  Clean'
<1>1. phase' = "failed" /\ mappings = 1 /\ mappings' = 0 /\ NotStarted
  BY DEF Fail, Destroyed, Mapped, Starting, NotStarted
<1>2. Released'
  BY <1>1 DEF Fail, Destroyed, Released
<1>. QED BY <1>1, <1>2 DEF Clean, Untouched, Mapped, Vacant, NotStarted, machine

\* JitBuffer_create, which may fail before and after it has mapped the buffer.
LEMMA CreateStep ==
  ASSUME Clean, MapBuffer \/ AllocAddresses, UNCHANGED machine
  PROVE  Clean'
<1>1. CASE MapBuffer
  <2>1. phase = "create" /\ mappings = 0 /\ NotStarted
    BY <1>1 DEF MapBuffer, Clean, Mapped, Starting, NotStarted
  <2>2. \/ phase' = "calloc" /\ mappings' = 1
        \/ phase' = "failed" /\ mappings' = 0
    BY <1>1, <2>1 DEF MapBuffer
  <2>3. /\ UNCHANGED <<buffer, size, addrs, patches>>
        /\ buffer = << >> /\ size = 0 /\ addrs = << >> /\ patches = Freed
    BY <1>1, <2>1 DEF MapBuffer, Clean, Vacant
  <2>4. Untouched' /\ Mapped'
    BY <2>1, <2>2 DEF Clean, Untouched, Mapped, machine
  <2>. QED BY <2>2, <2>3, <2>4 DEF Clean, Vacant, Released
<1>2. CASE AllocAddresses
  <2>1. phase = "calloc" /\ mappings = 1 /\ NotStarted
    BY <1>2 DEF AllocAddresses, Clean, Mapped, Starting, NotStarted
  <2>2. \/ phase' = "enter" /\ mappings' = 1
        \/ phase' = "failed" /\ mappings' = 0 /\ addrs' = addrs
    BY <1>2, <2>1 DEF AllocAddresses
  <2>3. /\ UNCHANGED <<buffer, size, patches>>
        /\ buffer = << >> /\ size = 0 /\ addrs = << >> /\ patches = Freed
    BY <1>2, <2>1 DEF AllocAddresses, Clean, Vacant
  <2>4. Untouched' /\ Mapped'
    BY <2>1, <2>2 DEF Clean, Untouched, Mapped, machine
  <2>. QED BY <2>2, <2>3, <2>4 DEF Clean, Vacant, Released
<1>. QED BY <1>1, <1>2

LEMMA CompileStep ==
  ASSUME Clean, Compile
  PROVE  Clean'
<1>1. UNCHANGED machine
  BY DEF Compile
<1>2. CASE MapBuffer \/ AllocAddresses
  BY <1>1, <1>2, CreateStep
<1>3. CASE ~(MapBuffer \/ AllocAddresses)
  <2>1. phase \in {"enter", "compile"}
    BY <1>3 DEF Compile, EnterMain, EmitOp, EnterLambda, LeaveLambda, LeaveMain, Compiling
  <2>2. CASE Fail
    BY <1>1, <2>1, <2>2, FailStep DEF Clean, Starting
  <2>3. CASE ~Fail
    <3>1. phase' \in {"compile", "patch"} /\ mappings' = mappings
      BY <1>3, <2>1, <2>3
         DEF Compile, EnterMain, EmitOp, EnterLambda, LeaveLambda, LeaveMain, Compiling
    <3>. QED BY <1>1, <2>1, <3>1
             DEF Clean, Untouched, Mapped, NotStarted, Starting, Vacant, Released, machine
  <2>. QED BY <2>2, <2>3
<1>. QED BY <1>2, <1>3

LEMMA PatchStep ==
  ASSUME Clean, PatchJump \/ CallThunk
  PROVE  Clean'
<1>1. CASE PatchJump
  BY <1>1 DEF PatchJump, PatchNext, Clean, Untouched, Mapped, NotStarted, Vacant, Released, machine
<1>2. CASE CallThunk /\ Fail /\ UNCHANGED machine
  BY <1>2, FailStep DEF CallThunk, Clean, Starting
<1>3. CASE CallThunk /\ ~(Fail /\ UNCHANGED machine)
  BY <1>3 DEF CallThunk, Clean, Mapped, NotStarted, Starting, Untouched, Vacant, Released, jit
<1>. QED BY <1>1, <1>2, <1>3

\* Once the code runs, the call can only end by returning or be undefined.
LEMMA RunStep ==
  ASSUME Clean,
         Store \/ Load \/ SetReg \/ CallMain \/ LoadCell \/ StoreCell
           \/ CondJump \/ GetChar \/ PutChar \/ Crash \/ Ret
  PROVE  Clean'
<1>1. phase = "run"
  BY DEF Here, Store, Load, SetReg, CallMain, LoadCell, StoreCell, CondJump, GetChar, PutChar, Crash, Ret
<1>2. CASE Ret
  <2>1. mappings = 1
    BY <1>1 DEF Clean, Mapped
  <2>. QED BY <1>1, <1>2, <2>1
           DEF Ret, Destroyed, Clean, Untouched, Mapped, NotStarted, Starting, Vacant, Released, jit
<1>3. CASE Store \/ Load \/ SetReg \/ CallMain \/ LoadCell \/ StoreCell
           \/ CondJump \/ GetChar \/ PutChar \/ Crash
  <2>1. phase' \in {"run", "undefined"} /\ mappings' = mappings
    BY <1>1, <1>3 DEF jit, Store, Load, SetReg, CallMain, LoadCell, StoreCell, CondJump, GetChar, PutChar, Crash
  <2>. QED BY <1>1, <2>1 DEF Clean, Untouched, Mapped, NotStarted, Starting, Vacant, Released
<1>. QED BY <1>2, <1>3

\* The inductive invariant of both failures and the mapping.
LEMMA CleanHolds == Spec => []Clean
<1>1. Init => Clean
  BY DEF Init, CompilerInit, Clean, Untouched, Mapped, Vacant, Released
<1>2. Clean /\ [Next]_vars => Clean'
  <2>. SUFFICES ASSUME Clean, [Next]_vars
                PROVE  Clean'
    OBVIOUS
  <2>1. CASE UNCHANGED vars
    BY <2>1 DEF vars, jit, machine, Clean, Untouched, Mapped, NotStarted, Vacant, Released
  <2>. QED BY <2>1, CompileStep, PatchStep, RunStep DEF Next
<1>. QED BY <1>1, <1>2, PTL DEF Spec

(***************************************************************************)
(* Whatever the program and whichever call fails, jit_exec_aarch64         *)
(* fails before the program has done anything, and has unmapped the        *)
(* buffer, once, and released both arrays however it returns.              *)
(***************************************************************************)
THEOREM CleanFailure == Spec => []FailsCleanly
<1>1. Clean => FailsCleanly
  BY DEF Clean, Untouched, NotStarted, FailsCleanly
<1>. QED BY <1>1, CleanHolds, PTL

-----------------------------------------------------------------------------
(* What is emitted.                                                        *)

InsNames ==
  Names \cup {"movz_w", "movk_w", "add_w", "sub_w", "add_x19", "sub_x19",
              "literal", "pre_call", "call_lambda", "post_ret", "push_lambda"}

Operand == Int \cup {"", "sp"} \cup {<<"x29", "x30">>, <<"x19", "x20">>}

\* Instructions as they are emitted: whole words, a jump still to be patched.
Legal ==
  {x \in Emission(InsNames, Operand) :
     x.len % 4 = 0 /\ (x.name \in {"cbz", "cbnz"} => x.arg = 0)}

LEMMA LegalTemplate ==
  ASSUME NEW t \in Seq(Legal)
  PROVE  /\ t \in Seq(Emission(InsNames, Operand)) /\ Len(t) \in Nat
         /\ \A k \in 1 .. Len(t) : t[k] \in Legal
         /\ Length(t) \in Nat /\ Length(t) % 4 = 0
<1>1. Legal \subseteq Emission(InsNames, Operand)
  BY DEF Legal
<1>2. \A x \in Legal : x.len \in Nat /\ x.len % 4 = 0
  BY DEF Legal, Emission
<1>. HIDE DEF Legal
<1>3. Len(t) \in Nat /\ DOMAIN t = 1 .. Len(t) /\ \A k \in 1 .. Len(t) : t[k] \in Legal
  OBVIOUS
<1>4. t \in [1 .. Len(t) -> Emission(InsNames, Operand)]
  BY <1>1, <1>3
<1>5. Length(t) \in Nat /\ Length(t) % 4 = 0
  <2>1. \A k \in 1 .. Len(t) : t[k].len \in Nat /\ t[k].len % 4 = 0
    BY <1>2, <1>3
  <2>. QED BY <1>3, <2>1, EndsMeaning, WordsLength
<1>. QED BY <1>3, <1>4, <1>5

\* An instruction that is no jump.
LEMMA PlainIns ==
  ASSUME NEW name \in InsNames \ {"cbz", "cbnz"}, NEW arg \in Operand,
         NEW len \in Nat \ {0}, len % 4 = 0
  PROVE  Ins(name, arg, len) \in Legal
BY DEF Ins, Legal, Emission

LEMMA WordIns ==
  ASSUME NEW name \in InsNames \ {"cbz", "cbnz"}, NEW arg \in Operand
  PROVE  W(name, arg) \in Legal
BY PlainIns DEF W

LEMMA JumpIns ==
  ASSUME NEW name \in {"cbz", "cbnz"}
  PROVE  W(name, 0) \in Legal
<1>1. name \in InsNames /\ 0 \in Operand /\ 4 \in Nat \ {0} /\ 4 % 4 = 0
  BY DEF Operand, InsNames, Names
<1>. QED BY <1>1 DEF W, Ins, Legal, Emission

\* The lengths that depend on the number of words of an address.
LEMMA AddressLengths ==
  /\ AddressWords \in Nat
  /\ \A a \in {4, 8} : \A b \in {0, 4, 8, 12} :
        a * AddressWords + b \in Nat \ {0} /\ (a * AddressWords + b) % 4 = 0
<1>1. AddressWords \in {1, 2, 3, 4}
  BY Aarch64JitAssumption
<1>2. /\ \A b \in {0, 4, 8, 12} :
            4 * AddressWords + b \in Nat \ {0} /\ (4 * AddressWords + b) % 4 = 0
      /\ \A b \in {0, 4, 8, 12} :
            8 * AddressWords + b \in Nat \ {0} /\ (8 * AddressWords + b) % 4 = 0
  BY <1>1
<1>. QED BY <1>1, <1>2

\* Every template of the backend is made of legal instructions.
LEMMA FixedTemplates ==
  /\ Prologue \in Seq(Legal) /\ Epilogue \in Seq(Legal)
  /\ Thunk \in Seq(Legal) /\ CallLambda \in Seq(Legal)
<1>. DEFINE names == {"stp_pre", "stp", "ldp", "ldp_post", "mov_sp", "ret", "mov_x19_tape",
                      "call_main", "mov_x20", "literal", "pre_call", "call_lambda", "post_ret"}
            lens  == {8, 4 * AddressWords, 4 * AddressWords + 4, 4 * AddressWords + 8,
                      4 * AddressWords + 12}
<1>1. names \subseteq InsNames \ {"cbz", "cbnz"}
  BY DEF InsNames, Names
<1>2. \A arg \in {"", "sp", <<"x29", "x30">>, <<"x19", "x20">>} : arg \in Operand
  BY DEF Operand
<1>3. \A name \in names : \A arg \in Operand : W(name, arg) \in Legal
  BY <1>1, WordIns
<1>4. \A len \in lens : len \in Nat \ {0} /\ len % 4 = 0
  BY AddressLengths
<1>5. \A name \in names : \A len \in lens : Ins(name, "", len) \in Legal
  <2>1. "" \in Operand
    BY <1>2
  <2>. QED BY <1>1, <1>4, <2>1, PlainIns
<1>6. Prologue \in Seq(Legal)
  <2>1. /\ W("stp_pre", <<"x29", "x30">>) \in Legal /\ W("mov_sp", "sp") \in Legal
        /\ W("stp", <<"x19", "x20">>) \in Legal
    BY <1>2, <1>3
  <2>2. << W("stp_pre", <<"x29", "x30">>) >> \in Seq(Legal) /\ MovSp \in Seq(Legal)
        /\ << W("stp", <<"x19", "x20">>) >> \in Seq(Legal)
    BY <2>1, Tuples DEF MovSp
  <2>. QED BY <2>2, Concatenated DEF Prologue
<1>7. Epilogue \in Seq(Legal)
  <2>1. /\ W("ldp", <<"x19", "x20">>) \in Legal /\ W("ldp_post", <<"x29", "x30">>) \in Legal
        /\ W("ret", "") \in Legal
    BY <1>2, <1>3
  <2>. QED BY <2>1, Tuples DEF Epilogue
<1>8. Thunk \in Seq(Legal)
  <2>1. /\ Ins("mov_x19_tape", "", 4 * AddressWords) \in Legal
        /\ Address("call_main") \in Legal /\ W("ret", "") \in Legal
    BY <1>2, <1>3, <1>5 DEF Address
  <2>. QED BY <2>1, Tuples DEF Thunk
<1>9. CallLambda \in Seq(Legal)
  <2>1. /\ Ins("mov_x20", "", 8) \in Legal /\ Ins("literal", "", 8) \in Legal
        /\ Ins("pre_call", "", 4 * AddressWords + 12) \in Legal
        /\ Ins("call_lambda", "", 8) \in Legal
        /\ Ins("post_ret", "", 4 * AddressWords + 8) \in Legal
    BY <1>5
  <2>. QED BY <2>1, Tuples DEF CallLambda
<1>. QED BY <1>6, <1>7, <1>8, <1>9

LEMMA DefineTemplate ==
  ASSUME NEW entry \in Nat
  PROVE  Define(entry) \in Seq(Legal)
<1>1. "push_lambda" \in InsNames \ {"cbz", "cbnz"} /\ entry \in Operand
  BY DEF Operand, InsNames, Names
<1>2. Ins("push_lambda", entry, 8 * AddressWords + 8) \in Legal
  BY <1>1, AddressLengths, PlainIns
<1>. QED BY <1>2, Tuples DEF Define

\* jit_mov_reg_imm32, for a narrow number and a wide one.
LEMMA ImmTemplate ==
  ASSUME NEW num
  PROVE  MovImm32(num) \in Seq(Legal)
<1>1. {"movz_w", "movk_w"} \subseteq InsNames \ {"cbz", "cbnz"} /\ Hw \in Operand /\ "" \in Operand
  BY DEF Operand, InsNames, Names, Hw
<1>2. W("movz_w", Hw) \in Legal /\ W("movk_w", "") \in Legal
  BY <1>1, WordIns
<1>3. << W("movz_w", Hw) >> \in Seq(Legal) /\ << W("movz_w", Hw), W("movk_w", "") >> \in Seq(Legal)
  BY <1>2, Tuples
<1>. QED BY <1>3, Zenon DEF MovImm32

LEMMA OpTemplate ==
  ASSUME NEW o \in Opcode, o.op # "op_def_lambda"
  PROVE  Template(o) \in Seq(Legal)
<1>1. o.op \in OpType
  BY DEF Opcode
<1>. DEFINE names == {"ldrb", "ldrsb", "strb", "add_w", "sub_w", "add_x19", "sub_x19"}
<1>2. \A name \in names : W(name, "") \in Legal
  <2>1. names \subseteq InsNames \ {"cbz", "cbnz"} /\ "" \in Operand
    BY DEF Operand, InsNames, Names
  <2>. QED BY <2>1, WordIns
<1>3. /\ W("ldrb", "") \in Legal /\ W("ldrsb", "") \in Legal /\ W("strb", "") \in Legal
      /\ W("add_w", "") \in Legal /\ W("sub_w", "") \in Legal
      /\ W("add_x19", "") \in Legal /\ W("sub_x19", "") \in Legal
  BY <1>2
<1>4. /\ << W("ldrb", "") >> \in Seq(Legal) /\ << W("strb", "") >> \in Seq(Legal)
      /\ << W("add_w", ""), W("strb", "") >> \in Seq(Legal)
      /\ << W("sub_w", ""), W("strb", "") >> \in Seq(Legal)
      /\ << W("add_x19", "") >> \in Seq(Legal) /\ << W("sub_x19", "") >> \in Seq(Legal)
  <2>1. \A x \in Legal : << x >> \in Seq(Legal) /\ \A y \in Legal : << x, y >> \in Seq(Legal)
    BY Tuples
  <2>. QED BY <1>3, <2>1, Zenon
<1>5. CASE o.op \in {"op_add", "op_sub"}
  <2>1. /\ << W("ldrb", "") >> \o MovImm32(o.num) \o << W("add_w", ""), W("strb", "") >> \in Seq(Legal)
        /\ << W("ldrb", "") >> \o MovImm32(o.num) \o << W("sub_w", ""), W("strb", "") >> \in Seq(Legal)
    BY <1>4, ImmTemplate, Concatenated
  <2>. QED BY <1>5, <2>1 DEF Template
<1>6. CASE o.op \in {"op_addp", "op_subp"}
  <2>1. /\ MovImm32(o.num) \o << W("add_x19", "") >> \in Seq(Legal)
        /\ MovImm32(o.num) \o << W("sub_x19", "") >> \in Seq(Legal)
    BY <1>4, ImmTemplate, Concatenated
  <2>. QED BY <1>6, <2>1 DEF Template
<1>7. CASE o.op \in {"op_jt", "op_jf"}
  <2>1. W("cbnz", 0) \in Legal /\ W("cbz", 0) \in Legal
    BY JumpIns
  <2>2. << W("ldrb", ""), W("cbnz", 0) >> \in Seq(Legal)
        /\ << W("ldrb", ""), W("cbz", 0) >> \in Seq(Legal)
    BY <1>3, <2>1, Tuples
  <2>. QED BY <1>7, <2>2 DEF Template
<1>8. CASE o.op \in {"op_in", "op_out"}
  <2>1. Address("getchar") \in Legal /\ Address("putchar") \in Legal
    <3>1. {"getchar", "putchar"} \subseteq InsNames \ {"cbz", "cbnz"} /\ "" \in Operand
      BY DEF Operand, InsNames, Names
    <3>. QED BY <3>1, AddressLengths, PlainIns DEF Address
  <2>2. << Address("getchar"), W("strb", "") >> \in Seq(Legal)
        /\ << W("ldrsb", ""), Address("putchar") >> \in Seq(Legal)
    BY <1>3, <2>1, Tuples
  <2>. QED BY <1>8, <2>2 DEF Template
<1>9. CASE o.op = "op_clear"
  BY <1>4, <1>9, ImmTemplate, Concatenated DEF Template
<1>10. CASE o.op \in {"op_ret", "op_call"}
  BY <1>10, FixedTemplates DEF Template
<1>. QED BY <1>1, <1>5, <1>6, <1>7, <1>8, <1>9, <1>10 DEF OpType

\* The code of a loop bracket is a load of one word and a jump of another.
JumpName == [o \in {"op_jf", "op_jt"} |-> IF o = "op_jf" THEN "cbz" ELSE "cbnz"]

LEMMA JumpTemplate ==
  ASSUME NEW o \in Opcode, IsJump(o), NEW t, t = Template(o)
  PROVE  /\ Len(t) = 2 /\ Length(Front(t)) = 4 /\ Ends(t)[1] = 4
         /\ t[2].name = JumpName[o.op] /\ t[2].len = 4
<1>. DEFINE x == W("ldrb", "")
            y == W(JumpName[o.op], 0)
<1>1. o.op \in {"op_jf", "op_jt"}
  BY DEF IsJump
<1>2. t = << x, y >>
  BY <1>1 DEF Template, JumpName
<1>3. x.len = 4 /\ y.len = 4 /\ y.name = JumpName[o.op]
  BY DEF W, Ins
<1>. HIDE DEF x, y
<1>4. Front(t) = << x >>
  <2>1. t \in Seq({x, y}) /\ Len(t) = 2 /\ t[1] = x
    BY <1>2
  <2>2. Front(t) \in Seq({x, y}) /\ Len(Front(t)) = 1 /\ Front(t)[1] = x
    BY <2>1 DEF Front
  <2>. QED BY <2>2, OneElement
<1>5. Length(<< x >>) = 4 /\ Ends(<< x, y >>)[1] = 4
  BY <1>3, ShortTemplates
<1>. QED BY <1>2, <1>3, <1>4, <1>5

-----------------------------------------------------------------------------
(* The compiler.  The invariant says of every opcode compiled so far what  *)
(* patch_jumps() relies on: where the jump of a bracket was emitted, that  *)
(* a patch asks for its target, and that nothing else is at that address.  *)

Phases == Starting \cup {"run", "returned", "failed", "undefined"}

\* An instruction in the buffer, patched or not.
Usable(ins) ==
  ins.name \in {"cbz", "cbnz"} => ins.arg \in Int /\ ins.at + ins.arg \in Nat

BufferOK ==
  /\ size \in 0 .. JitCapacity /\ size % 4 = 0
  /\ buffer \in Seq(Emitted(InsNames, Operand))
  /\ InOrder(buffer, size)
  /\ \A j \in DOMAIN buffer : Usable(buffer[j])

\* How many opcodes are compiled, as far as the jumps among them go.
Compiled == IF phase = "compile" THEN fns[Len(fns)].pc ELSE Len(code)

\* An address is that of a word in the buffer, so a branch reaches it.
AddressesOK == \A k \in DOMAIN addrs : addrs[k] <= size /\ addrs[k] % 4 = 0

CompilerTypes ==
  /\ code \in Seq(Opcode) /\ WellFormed(code)
  /\ phase \in Phases
  /\ next \in Nat /\ start \in Nat
  /\ fns \in Seq(Calls)
  /\ addrs \in Seq(Nat) /\ AddressesOK
  /\ patches \in ArrayOf(PatchRecord)
  /\ BufferOK

CompilerInv ==
  /\ CompilerTypes
  /\ phase \in {"create", "calloc", "enter"} =>
       buffer = << >> /\ size = 0 /\ patches = Freed /\ next = 0 /\ fns = << >>
  /\ phase = "enter" => Len(addrs) = Len(code) + 1
  /\ phase = "compile" => fns # << >> /\ Nested(code, fns) /\ next = 0
  /\ phase \in {"compile", "patch", "run"} =>
       /\ Len(addrs) = Len(code) + 1
       /\ Coded(code, Compiled, buffer, addrs, patches.data, JumpName, 4)
  /\ phase = "patch" =>
       next <= Len(patches.data) /\ Applied(buffer, addrs, patches.data, next, 0)
  /\ phase = "run" => Applied(buffer, addrs, patches.data, Len(patches.data), 0)

\* An instruction that is emitted can be used as it is.
LEMMA LegalIsUsable ==
  ASSUME NEW x \in Legal, NEW y, y.name = x.name, y.arg = x.arg, y.len = x.len, y.at \in Nat
  PROVE  Usable(y)
<1>1. x.name \in {"cbz", "cbnz"} => x.arg = 0
  BY DEF Legal
<1>. QED BY <1>1 DEF Usable

\* A push leaves what was in the buffer and adds the template.
LEMMA PushStep ==
  ASSUME BufferOK, NEW t \in Seq(Legal), Push(t)
  PROVE  /\ BufferOK' /\ size \in Nat /\ Length(t) \in Nat /\ size' = size + Length(t)
         /\ size <= size' /\ size' % 4 = 0 /\ Continues(buffer', buffer, t, size)
<1>1. /\ t \in Seq(Emission(InsNames, Operand)) /\ Len(t) \in Nat
      /\ \A k \in 1 .. Len(t) : t[k] \in Legal
      /\ Length(t) \in Nat /\ Length(t) % 4 = 0
  BY LegalTemplate
<1>2. /\ size \in Nat /\ size % 4 = 0 /\ buffer \in Seq(Emitted(InsNames, Operand)) /\ InOrder(buffer, size)
      /\ buffer' = buffer \o PlacedAt(t, size) /\ size' = size + Length(t)
      /\ size + Length(t) <= JitCapacity
  BY JitCapacityAssumption DEF BufferOK, Push, Fits
<1>3. /\ buffer' \in Seq(Emitted(InsNames, Operand)) /\ InOrder(buffer', size + Length(t))
      /\ size + Length(t) \in Nat /\ Length(t) \in Nat
      /\ Continues(buffer', buffer, t, size)
  BY <1>1, <1>2, PushedCode
<1>4. ASSUME NEW j \in DOMAIN buffer' PROVE Usable(buffer'[j])
  <2>1. CASE j \in DOMAIN buffer
    BY <1>3, <2>1 DEF BufferOK, Continues, Keeps
  <2>2. CASE \E k \in 1 .. Len(t) : j = Len(buffer) + k
    <3>1. PICK k \in 1 .. Len(t) : j = Len(buffer) + k
      BY <2>2
    <3>2. buffer'[j].at \in Nat
      <4>1. buffer'[j] \in Emitted(InsNames, Operand)
        BY <1>3
      <4>. QED BY <4>1 DEF Emitted
    <3>3. /\ buffer'[j].name = t[k].name /\ buffer'[j].arg = t[k].arg
          /\ buffer'[j].len = t[k].len
      BY <1>3, <3>1 DEF Continues
    <3>. QED BY <1>1, <3>2, <3>3, LegalIsUsable
  <2>. QED BY <1>3, <2>1, <2>2 DEF Continues
<1>5. size' \in 0 .. JitCapacity /\ size <= size' /\ size' % 4 = 0
  <2>1. size % 4 = 0 /\ Length(t) % 4 = 0 /\ size \in Nat /\ Length(t) \in Nat
        /\ size' = size + Length(t) /\ size + Length(t) <= JitCapacity
    BY <1>1, <1>2
  <2>. QED BY ONLY <2>1, JitCapacityAssumption
<1>6. BufferOK'
  <2>1. buffer' \in Seq(Emitted(InsNames, Operand)) /\ InOrder(buffer', size')
    BY <1>2, <1>3
  <2>. QED BY <1>4, <1>5, <2>1 DEF BufferOK
<1>. QED BY <1>2, <1>3, <1>5, <1>6

LEMMA EmptyBuffer == ASSUME buffer = << >>, size = 0 PROVE BufferOK
<1>1. << >> \in Seq(Emitted(InsNames, Operand)) /\ DOMAIN << >> = {}
  OBVIOUS
<1>2. InOrder(<< >>, 0)
  BY <1>1 DEF InOrder
<1>3. 0 \in 0 .. JitCapacity /\ 0 % 4 = 0
  BY JitCapacityAssumption
<1>. QED BY <1>1, <1>2, <1>3 DEF BufferOK

\* A failure leaves nothing behind.
LEMMA FailKeeps ==
  ASSUME CompilerInv, Fail
  PROVE  CompilerInv'
<1>1. buffer' = << >> /\ size' = 0 /\ addrs' = << >> /\ patches' = Freed /\ phase' = "failed"
      /\ fns' = << >> /\ UNCHANGED <<code, next, start>>
  BY DEF Fail, Destroyed
<1>2. (buffer = << >> /\ size = 0 => BufferOK)'
  BY EmptyBuffer, PTL
<1>3. patches' \in ArrayOf(PatchRecord) /\ addrs' \in Seq(Nat) /\ fns' \in Seq(Calls)
      /\ AddressesOK'
  BY <1>1, FreedType DEF AddressesOK
<1>4. CompilerTypes'
  BY <1>1, <1>2, <1>3 DEF CompilerInv, CompilerTypes, Phases, Starting
<1>. QED BY <1>1, <1>4 DEF CompilerInv

\* JitBuffer_create.
LEMMA CreateKeeps ==
  ASSUME CompilerInv, MapBuffer \/ AllocAddresses
  PROVE  CompilerInv'
<1>1. /\ phase \in {"create", "calloc"} /\ phase' \in {"calloc", "enter", "failed"}
      /\ UNCHANGED <<code, fns, next, buffer, size, patches, start>>
  BY DEF MapBuffer, AllocAddresses
<1>2. CompilerTypes /\ buffer = << >> /\ size = 0 /\ patches = Freed /\ next = 0 /\ fns = << >>
  BY <1>1 DEF CompilerInv
<1>3. CASE addrs' = addrs /\ phase' # "enter"
  <2>1. CompilerTypes'
    BY <1>1, <1>2, <1>3 DEF CompilerTypes, AddressesOK, BufferOK, Phases, Starting
  <2>. QED BY <1>1, <1>2, <1>3, <2>1 DEF CompilerInv
<1>4. CASE addrs' = [k \in 1 .. (Len(code) + 1) |-> 0] /\ phase' = "enter"
  <2>1. Len(code) \in Nat
    BY <1>2 DEF CompilerTypes
  <2>2. addrs' \in Seq(Nat) /\ Len(addrs') = Len(code) + 1 /\ \A k \in DOMAIN addrs' : addrs'[k] = 0
    BY <1>4, <2>1
  <2>3. CompilerTypes'
    BY <1>1, <1>2, <1>4, <2>2 DEF CompilerTypes, AddressesOK, BufferOK, Phases, Starting
  <2>. QED BY <1>1, <1>2, <1>4, <2>2, <2>3 DEF CompilerInv
<1>. QED BY <1>3, <1>4 DEF MapBuffer, AllocAddresses

\* The start of the main function.
LEMMA EnterMainKeeps ==
  ASSUME CompilerInv, EnterMain(Prologue)
  PROVE  CompilerInv'
<1>1. CASE Fail
  BY <1>1, FailKeeps
<1>2. CASE ~Fail
  <2>1. /\ phase = "enter" /\ Push(Prologue)
        /\ addrs' = addrs
        /\ fns' = << [pc |-> 0, end |-> Len(code), entry |-> 0] >>
        /\ phase' = "compile"
        /\ UNCHANGED <<code, next, patches, start>>
    BY <1>2 DEF EnterMain
  <2>2. CompilerTypes /\ next = 0 /\ patches = Freed
    BY <2>1 DEF CompilerInv
  <2>3. BufferOK' /\ size' \in Nat /\ size \in Nat /\ size <= size'
    BY <2>1, <2>2, FixedTemplates, PushStep, JitCapacityAssumption DEF CompilerTypes, BufferOK
  <2>4. Len(code) \in Nat
    BY <2>2 DEF CompilerTypes
  <2>5. addrs' \in Seq(Nat) /\ Len(addrs') = Len(code) + 1 /\ AddressesOK'
    <3>1. addrs \in Seq(Nat) /\ Len(addrs) = Len(code) + 1
          /\ \A k \in DOMAIN addrs : addrs[k] \in Nat /\ addrs[k] <= size /\ addrs[k] % 4 = 0
      BY <2>1, <2>2 DEF CompilerInv, CompilerTypes, AddressesOK
    <3>. QED BY <2>1, <2>3, <3>1 DEF AddressesOK
  <2>. DEFINE f == [pc |-> 0, end |-> Len(code), entry |-> 0]
  <2>6. f \in Calls /\ f.pc = 0 /\ f.end = Len(code)
    BY <2>4 DEF Calls
  <2>7. fns' = << f >>
    BY <2>1
  <2>. HIDE DEF f
  <2>8. fns' \in Seq(Calls) /\ Len(fns') = 1 /\ DOMAIN fns' = {1} /\ fns'[1] = f
    BY <2>6, <2>7
  <2>9. Nested(code, fns')
    BY <2>4, <2>6, <2>8 DEF Nested
  <2>10. Coded(code, 0, buffer', addrs', Freed.data, JumpName, 4)
    <3>1. Freed.data = << >> /\ DOMAIN << >> = {}
      BY FreedType
    <3>2. Jumps(code, 0) = {}
      BY DEF Jumps
    <3>. QED BY <3>1, <3>2 DEF Coded
  <2>11. CompilerTypes'
    BY <2>1, <2>2, <2>3, <2>5, <2>8 DEF CompilerTypes, Phases, Starting
  <2>12. Compiled' = 0
    BY <2>1, <2>6, <2>8 DEF Compiled
  <2>. QED BY <2>1, <2>2, <2>5, <2>8, <2>9, <2>10, <2>11, <2>12 DEF CompilerInv
<1>. QED BY <1>1, <1>2

\* What holds while jit_compile_function is at an opcode.
LEMMA AtOpcode ==
  ASSUME CompilerInv, Compiling
  PROVE  /\ phase = "compile" /\ CompilerTypes
         /\ fns \in Seq(Calls) /\ fns # << >> /\ Len(fns) \in DOMAIN fns /\ Nested(code, fns)
         /\ fn = fns[Len(fns)] /\ fn.pc < fn.end /\ fn.pc \in Nat /\ fn.pc + 1 \in DOMAIN code
         /\ opc = code[fn.pc + 1] /\ opc \in Opcode
         /\ Compiled = fn.pc /\ fn.pc + 1 \in 1 .. Len(addrs)
         /\ Len(addrs) = Len(code) + 1
         /\ Coded(code, fn.pc, buffer, addrs, patches.data, JumpName, 4)
         /\ next = 0
<1>1. phase = "compile" /\ CompilerTypes /\ fn.pc < fn.end
  BY DEF Compiling, CompilerInv
<1>2. /\ fns \in Seq(Calls) /\ fns # << >> /\ Nested(code, fns) /\ next = 0
      /\ Len(addrs) = Len(code) + 1
      /\ Coded(code, Compiled, buffer, addrs, patches.data, JumpName, 4)
      /\ code \in Seq(Opcode) /\ addrs \in Seq(Nat)
  BY <1>1 DEF CompilerInv, CompilerTypes
<1>3. Len(fns) \in DOMAIN fns /\ Len(code) \in Nat /\ DOMAIN code = 1 .. Len(code)
  BY <1>2
<1>4. fn = fns[Len(fns)] /\ opc = code[fn.pc + 1]
  BY DEF fn, opc, Last
<1>5. fn.pc \in Nat /\ fn.end \in Nat /\ fn.end <= Len(code)
  <2>1. fns[Len(fns)] \in Calls
    BY <1>2, <1>3
  <2>. QED BY <1>2, <1>3, <1>4, <2>1 DEF Calls, Nested
<1>6. fn.pc + 1 \in DOMAIN code /\ fn.pc + 1 \in 1 .. Len(addrs)
  BY <1>1, <1>2, <1>3, <1>5
<1>7. Compiled = fn.pc
  BY <1>1, <1>4 DEF Compiled
<1>. QED BY <1>1, <1>2, <1>3, <1>4, <1>5, <1>6, <1>7
\* Recording an address changes no other.
LEMMA RecordedAt ==
  ASSUME addrs \in Seq(Nat), size \in Nat, NEW k \in Nat, k + 1 \in 1 .. Len(addrs), Record(k),
         AddressesOK, size % 4 = 0, size' \in Nat, size <= size'
  PROVE  /\ addrs' \in Seq(Nat) /\ Len(addrs') = Len(addrs) /\ addrs'[k + 1] = size
         /\ \A i \in 1 .. Len(addrs) : i # k + 1 => addrs'[i] = addrs[i]
         /\ Agree(addrs, addrs', k) /\ AddressesOK'
<1>1. addrs' = [addrs EXCEPT ![k + 1] = size]
  BY DEF Record
<1>2. /\ addrs' \in Seq(Nat) /\ Len(addrs') = Len(addrs)
      /\ \A i \in 1 .. Len(addrs) : addrs'[i] = IF i = k + 1 THEN size ELSE addrs[i]
  BY <1>1, Replaced
<1>3. \A i \in 1 .. k : i \in 1 .. Len(addrs) /\ i # k + 1 /\ addrs[i] \in Nat
  OBVIOUS
<1>4. ASSUME NEW i \in DOMAIN addrs' PROVE addrs'[i] <= size' /\ addrs'[i] % 4 = 0
  <2>1. i \in 1 .. Len(addrs) /\ i \in DOMAIN addrs /\ addrs[i] \in Nat
    <3>1. Len(addrs') = Len(addrs) /\ addrs' \in Seq(Nat)
      BY <1>2
    <3>. QED BY ONLY <3>1, addrs \in Seq(Nat), <1>4
  <2>2. addrs[i] <= size /\ addrs[i] % 4 = 0
    BY <2>1 DEF AddressesOK
  <2>3. addrs'[i] = size \/ addrs'[i] = addrs[i]
    BY <1>2, <2>1
  <2>. QED BY <2>1, <2>2, <2>3
<1>5. AddressesOK'
  BY <1>4 DEF AddressesOK
<1>. QED BY <1>2, <1>3, <1>5 DEF Agree

\* An opcode that is no definition is compiled.
LEMMA EmitOpKeeps ==
  ASSUME CompilerInv, EmitOp(Template(opc))
  PROVE  CompilerInv'
<1>1. CASE Fail
  BY <1>1, FailKeeps
<1>2. CASE ~Fail
  <2>. DEFINE t == Template(opc)
              n == fn.pc
  <2>1. /\ Compiling /\ opc.op # "op_def_lambda" /\ Push(t) /\ Record(n)
        /\ IF IsJump(opc) THEN AddPatch(Length(Front(t)), opc.num) ELSE patches' = patches
        /\ fns' = [fns EXCEPT ![Len(fns)].pc = @ + 1]
        /\ UNCHANGED <<code, phase, next, start>>
    BY <1>2 DEF EmitOp
  <2>2. /\ phase = "compile" /\ CompilerTypes
        /\ fns \in Seq(Calls) /\ fns # << >> /\ Len(fns) \in DOMAIN fns /\ Nested(code, fns)
        /\ fn = fns[Len(fns)] /\ n < fn.end /\ n \in Nat /\ n + 1 \in DOMAIN code
        /\ opc = code[n + 1] /\ opc \in Opcode
        /\ n + 1 \in 1 .. Len(addrs) /\ Len(addrs) = Len(code) + 1
        /\ Coded(code, n, buffer, addrs, patches.data, JumpName, 4)
        /\ next = 0
    BY <2>1, AtOpcode
  <2>3. t \in Seq(Legal)
    BY <2>1, <2>2, OpTemplate
  <2>. HIDE DEF t, n
  <2>4. /\ BufferOK' /\ size \in Nat /\ size' = size + Length(t)
        /\ size % 4 = 0 /\ size' \in Nat /\ size <= size'
        /\ Continues(buffer', buffer, t, size)
    <3>1. BufferOK
      BY <2>2 DEF CompilerTypes
    <3>2. size % 4 = 0
      BY <3>1 DEF BufferOK
    <3>. QED BY <2>1, <2>3, <3>1, <3>2, PushStep, SMTT(20)
  <2>5. /\ addrs' \in Seq(Nat) /\ Len(addrs') = Len(addrs) /\ addrs'[n + 1] = size
        /\ Agree(addrs, addrs', n) /\ AddressesOK'
    BY <2>1, <2>2, <2>4, RecordedAt DEF CompilerTypes
  <2>6. /\ fns' \in Seq(Calls) /\ Len(fns') = Len(fns) /\ Nested(code, fns')
        /\ fns'[Len(fns)].pc = n + 1
    <3>1. fns[Len(fns)].pc < fns[Len(fns)].end /\ code \in Seq(Opcode)
      BY <2>2 DEF n, CompilerTypes
    <3>2. /\ fns \in Seq(Calls) /\ fns # << >> /\ Nested(code, fns)
          /\ Len(fns) \in DOMAIN fns /\ fns' = Advanced(fns)
      BY <2>1, <2>2 DEF Advanced
    <3>3. /\ fns' \in Seq(Calls) /\ Len(fns') = Len(fns) /\ Nested(code, fns')
          /\ fns'[Len(fns)].pc = fns[Len(fns)].pc + 1
      BY ONLY <3>1, <3>2, CallAdvances
    <3>. QED BY <2>2, <3>3 DEF n
  <2>7. /\ patches' \in ArrayOf(PatchRecord)
        /\ Coded(code, n + 1, buffer', addrs', patches'.data, JumpName, 4)
    <3>1. CASE ~IsJump(opc)
      <4>1. Jumps(code, n + 1) = Jumps(code, n)
        BY <2>2, <3>1, NoJump DEF IsJump
      <4>2. patches' = patches
        BY <2>1, <3>1
      <4>3. Keeps(buffer, buffer')
        BY <2>4 DEF Continues
      <4>4. Coded(code, n + 1, buffer', addrs', patches.data, JumpName, 4)
        BY <2>2, <2>5, <4>1, <4>3, CodedStays
      <4>. QED BY <2>2, <4>2, <4>4 DEF CompilerTypes
    <3>2. CASE IsJump(opc)
      <4>1. /\ Len(t) = 2 /\ Length(Front(t)) = 4 /\ Ends(t)[1] = 4
            /\ t[2].name = JumpName[opc.op] /\ t[2].len = 4
        BY <2>2, <3>2, JumpTemplate DEF t
      <4>. DEFINE q == PatchOf(code, addrs', n + 1)
      <4>2. q = [instruction_offset |-> size + 4, target_opcode_index |-> opc.num]
        BY <2>2, <2>5 DEF PatchOf
      <4>3. q \in PatchRecord
        BY <2>2, <2>4, <4>2 DEF PatchRecord, Opcode
      <4>4. patches' = Pushed(patches, q)
        BY <2>1, <3>2, <4>1, <4>2 DEF AddPatch
      <4>. HIDE DEF q
      <4>5. patches \in ArrayOf(PatchRecord)
        BY <2>2 DEF CompilerTypes
      <4>6. patches' \in ArrayOf(PatchRecord) /\ patches'.data = Append(patches.data, q)
        BY <4>3, <4>4, <4>5, PushedType
      <4>7. Keeps(buffer, buffer')
        BY <2>4 DEF Continues
      <4>8. JumpIn(buffer', size + 4, JumpName[code[n + 1].op], 4)
        <5>1. 2 \in 1 .. Len(t) /\ 2 - 1 = 1
          BY <4>1
        <5>2. /\ Len(buffer) + 2 \in DOMAIN buffer'
              /\ buffer'[Len(buffer) + 2].at = size + Ends(t)[1]
              /\ buffer'[Len(buffer) + 2].name = t[2].name
              /\ buffer'[Len(buffer) + 2].len = t[2].len
          BY <2>4, <5>1 DEF Continues
        <5>. QED BY <2>2, <4>1, <5>2 DEF JumpIn
      <4>9. patches.data \in Seq(PatchRecord)
        BY <4>5 DEF ArrayOf
      <4>10. code[n + 1].op \in {"op_jf", "op_jt"}
        BY <2>2, <3>2 DEF IsJump
      <4>11. buffer \in Seq(Emitted(InsNames, Operand)) /\ InOrder(buffer, size)
        BY <2>2 DEF CompilerTypes, BufferOK
      <4>12. Coded(code, n + 1, buffer', addrs', Append(patches.data, q), JumpName, 4)
        <5>1. /\ Coded(code, n, buffer, addrs, patches.data, JumpName, 4)
              /\ Agree(addrs, addrs', n)
              /\ size \in Nat /\ n \in Nat /\ addrs'[n + 1] = size /\ 4 \in Nat
          BY <2>2, <2>4, <2>5
        <5>2. q = PatchOf(code, addrs', n + 1)
          BY DEF q
        <5>3. Coded(code, n + 1, buffer', addrs',
                    Append(patches.data, PatchOf(code, addrs', n + 1)), JumpName, 4)
          BY ONLY <4>3, <4>7, <4>8, <4>9, <4>10, <4>11, <5>1, <5>2, CodedJump
        <5>. QED BY ONLY <5>2, <5>3
      <4>. QED BY <4>6, <4>12
    <3>. QED BY <3>1, <3>2
  <2>8. CompilerTypes'
    BY <2>1, <2>2, <2>4, <2>5, <2>6, <2>7 DEF CompilerTypes
  <2>9. Compiled' = n + 1
    BY <2>1, <2>2, <2>6 DEF Compiled
  <2>10. fns' # << >>
    BY <2>2, <2>6
  <2>. QED BY <2>1, <2>2, <2>5, <2>6, <2>7, <2>8, <2>9, <2>10 DEF CompilerInv
<1>. QED BY <1>1, <1>2
LEMMA AlignedTemplate ==
  ASSUME size \in Nat, size % 4 = 0
  PROVE  Aligned(Prologue) \in Seq(Legal) /\ Entry \in Nat
<1>1. PICK r \in 0 .. 15 : r = size % 16
  OBVIOUS
<1>2. Padding = IF r = 0 THEN 0 ELSE 16 - r
  <2>1. CASE r = 0
    BY <1>1, <2>1 DEF Padding
  <2>2. CASE r # 0
    <3>1. 16 - r \in 1 .. 15
      BY <2>2
    <3>2. (16 - r) % 16 = 16 - r
      BY <3>1
    <3>. QED BY <1>1, <2>2, <3>2 DEF Padding
  <2>. QED BY <2>1, <2>2
<1>3. Padding \in 0 .. 15
  BY <1>2
<1>4. Padding % 4 = 0 /\ size + Padding \in Nat
  <2>1. r % 4 = 0
    BY <1>1
  <2>. QED BY <1>2, <1>3, <2>1
<1>5. CASE Padding = 0
  BY <1>3, <1>4, <1>5, FixedTemplates DEF Aligned, Entry
<1>6. CASE Padding # 0
  <2>1. "" \in Operand /\ "nop" \in InsNames /\ Padding \in Nat \ {0}
    BY <1>3, <1>6 DEF Operand, InsNames, Names
  <2>. DEFINE x == Ins("nop", "", Padding)
  <2>2. x \in Legal
    BY <1>4, <2>1, PlainIns
  <2>. HIDE DEF x
  <2>3. << x >> \in Seq(Legal)
    BY <2>2
  <2>4. << x >> \o Prologue \in Seq(Legal)
    BY ONLY <2>3, FixedTemplates, Concatenated
  <2>5. Aligned(Prologue) = << x >> \o Prologue
    BY <1>6 DEF Aligned, x
  <2>. QED BY <1>3, <1>4, <2>4, <2>5 DEF Entry
<1>. QED BY <1>5, <1>6

\* What holds of a step that compiles no jump.
LEMMA NoJumpKeeps ==
  ASSUME CompilerTypes, NEW n \in Nat, NEW m \in Nat, NEW t \in Seq(Legal),
         Len(addrs) = Len(code) + 1, n + 1 \in 1 .. Len(addrs),
         Coded(code, n, buffer, addrs, patches.data, JumpName, 4),
         Jumps(code, m) = Jumps(code, n),
         Push(t), Record(n), UNCHANGED <<code, patches>>
  PROVE  /\ BufferOK' /\ addrs' \in Seq(Nat) /\ AddressesOK' /\ Len(addrs') = Len(code) + 1
         /\ Coded(code, m, buffer', addrs', patches'.data, JumpName, 4)
<1>1. /\ BufferOK' /\ size \in Nat /\ Continues(buffer', buffer, t, size)
      /\ size % 4 = 0 /\ size' \in Nat /\ size <= size'
  <2>1. BufferOK /\ size % 4 = 0
    BY DEF CompilerTypes, BufferOK
  <2>. QED BY <2>1, PushStep
<1>2. addrs' \in Seq(Nat) /\ Len(addrs') = Len(addrs) /\ Agree(addrs, addrs', n) /\ AddressesOK'
  BY <1>1, RecordedAt DEF CompilerTypes
<1>3. Keeps(buffer, buffer')
  BY <1>1 DEF Continues
<1>4. Coded(code, m, buffer', addrs', patches.data, JumpName, 4)
  BY <1>2, <1>3, CodedStays
<1>. QED BY <1>1, <1>2, <1>4

\* jit_compile_function calls itself for a body.
LEMMA EnterLambdaKeeps ==
  ASSUME CompilerInv, EnterLambda(Prologue)
  PROVE  CompilerInv'
<1>1. CASE Fail
  BY <1>1, FailKeeps
<1>2. CASE ~Fail
  <2>. DEFINE t == Aligned(Prologue)
              n == fn.pc
  <2>1. /\ Compiling /\ opc.op = "op_def_lambda" /\ Push(t) /\ Record(n)
        /\ fns' = Append(fns, [pc |-> n + 1, end |-> opc.num, entry |-> Entry])
        /\ UNCHANGED <<code, phase, next, patches, start>>
    BY <1>2 DEF EnterLambda
  <2>2. /\ phase = "compile" /\ CompilerTypes
        /\ fns \in Seq(Calls) /\ fns # << >> /\ Len(fns) \in DOMAIN fns /\ Nested(code, fns)
        /\ fn = fns[Len(fns)] /\ n < fn.end /\ n \in Nat /\ n + 1 \in DOMAIN code
        /\ opc = code[n + 1] /\ opc \in Opcode
        /\ n + 1 \in 1 .. Len(addrs) /\ Len(addrs) = Len(code) + 1
        /\ Coded(code, n, buffer, addrs, patches.data, JumpName, 4)
        /\ next = 0
    BY <2>1, AtOpcode
  <2>3. t \in Seq(Legal) /\ Entry \in Nat
    <3>1. size \in Nat /\ size % 4 = 0
      BY <2>2, JitCapacityAssumption DEF CompilerTypes, BufferOK
    <3>. QED BY <3>1, AlignedTemplate
  <2>4. fns' = Entered(fns, code[fns[Len(fns)].pc + 1].num, Entry)
    BY <2>1, <2>2 DEF Entered
  <2>5. /\ fns[Len(fns)].pc < fns[Len(fns)].end
        /\ code[fns[Len(fns)].pc + 1].op = "op_def_lambda"
        /\ code \in Seq(Opcode) /\ WellFormed(code)
    BY <2>1, <2>2 DEF CompilerTypes
  <2>6. /\ fns' \in Seq(Calls) /\ Len(fns') = Len(fns) + 1 /\ Nested(code, fns')
        /\ fns'[Len(fns')].pc = n + 1
    <3>1. /\ fns' \in Seq(Calls) /\ Len(fns') = Len(fns) + 1 /\ Nested(code, fns')
          /\ fns'[Len(fns')].pc = fns[Len(fns)].pc + 1
      <4>1. fns \in Seq(Calls) /\ fns # << >> /\ Nested(code, fns) /\ Entry \in Nat
        BY <2>2, <2>3
      <4>. QED BY ONLY <2>4, <2>5, <4>1, CallEnters
    <3>. QED BY <2>2, <3>1
  <2>. HIDE DEF t, n
  <2>7. Jumps(code, n + 1) = Jumps(code, n)
    BY <2>1, <2>2, NoJump
  <2>8. /\ BufferOK' /\ addrs' \in Seq(Nat) /\ AddressesOK' /\ Len(addrs') = Len(code) + 1
        /\ Coded(code, n + 1, buffer', addrs', patches'.data, JumpName, 4)
    <3>1. n + 1 \in Nat /\ UNCHANGED <<code, patches>>
      BY <2>1, <2>2
    <3>. QED BY <2>1, <2>2, <2>3, <2>7, <3>1, NoJumpKeeps
  <2>9. CompilerTypes'
    BY <2>1, <2>2, <2>6, <2>8 DEF CompilerTypes
  <2>10. Compiled' = n + 1
    BY <2>1, <2>2, <2>6 DEF Compiled
  <2>11. fns' # << >>
    BY <2>2, <2>6
  <2>. QED BY <2>1, <2>2, <2>6, <2>8, <2>9, <2>10, <2>11 DEF CompilerInv
<1>. QED BY <1>1, <1>2

\* What holds when jit_compile_function has come to end_pc.
LEMMA AtEnd ==
  ASSUME CompilerInv, phase = "compile", fn.pc >= fn.end
  PROVE  /\ CompilerTypes
         /\ fns \in Seq(Calls) /\ fns # << >> /\ Len(fns) \in DOMAIN fns /\ Nested(code, fns)
         /\ fn = fns[Len(fns)] /\ fn.pc = fn.end /\ fn.pc \in Nat /\ fn.end <= Len(code)
         /\ fn.entry \in Nat
         /\ Compiled = fn.pc /\ fn.pc + 1 \in 1 .. Len(addrs)
         /\ Len(addrs) = Len(code) + 1
         /\ Coded(code, fn.pc, buffer, addrs, patches.data, JumpName, 4)
         /\ next = 0
<1>1. /\ CompilerTypes
      /\ fns \in Seq(Calls) /\ fns # << >> /\ Nested(code, fns) /\ next = 0
      /\ Len(addrs) = Len(code) + 1
      /\ Coded(code, Compiled, buffer, addrs, patches.data, JumpName, 4)
      /\ code \in Seq(Opcode) /\ addrs \in Seq(Nat)
  BY DEF CompilerInv, CompilerTypes
<1>2. Len(fns) \in DOMAIN fns /\ Len(code) \in Nat
  BY <1>1
<1>3. fn = fns[Len(fns)]
  BY DEF fn, Last
<1>4. fn.pc \in Nat /\ fn.end \in Nat /\ fn.entry \in Nat /\ fn.pc <= fn.end /\ fn.end <= Len(code)
  <2>1. fns[Len(fns)] \in Calls
    BY <1>1, <1>2
  <2>. QED BY <1>1, <1>2, <1>3, <2>1 DEF Calls, Nested
<1>5. fn.pc = fn.end
  BY <1>4
<1>6. fn.pc + 1 \in 1 .. Len(addrs)
  BY <1>1, <1>2, <1>4, <1>5
<1>7. Compiled = fn.pc
  BY <1>3 DEF Compiled
<1>. QED BY <1>1, <1>2, <1>3, <1>4, <1>5, <1>6, <1>7

\* The call for a body returns.
LEMMA LeaveLambdaKeeps ==
  ASSUME CompilerInv, LeaveLambda(Epilogue, Define(fn.entry))
  PROVE  CompilerInv'
<1>1. CASE Fail
  BY <1>1, FailKeeps
<1>2. CASE ~Fail
  <2>. DEFINE t == Epilogue \o Define(fn.entry)
              n == fn.pc
  <2>1. /\ phase = "compile" /\ fn.pc >= fn.end /\ Len(fns) > 1 /\ Push(t) /\ Record(n)
        /\ fns' = [Front(fns) EXCEPT ![Len(fns) - 1].pc = fn.end]
        /\ UNCHANGED <<code, phase, next, patches, start>>
    BY <1>2 DEF LeaveLambda
  <2>2. /\ CompilerTypes
        /\ fns \in Seq(Calls) /\ fns # << >> /\ Len(fns) \in DOMAIN fns /\ Nested(code, fns)
        /\ fn = fns[Len(fns)] /\ n = fn.end /\ n \in Nat /\ fn.entry \in Nat
        /\ n + 1 \in 1 .. Len(addrs) /\ Len(addrs) = Len(code) + 1
        /\ Coded(code, n, buffer, addrs, patches.data, JumpName, 4)
        /\ next = 0
    BY <2>1, AtEnd
  <2>3. t \in Seq(Legal)
    BY <2>2, FixedTemplates, DefineTemplate, Concatenated
  <2>4. fns' = Left(fns)
    BY <2>1, <2>2 DEF Left, Front
  <2>5. /\ fns' \in Seq(Calls) /\ Len(fns') = Len(fns) - 1 /\ Nested(code, fns')
        /\ fns'[Len(fns) - 1].pc = n
    <3>1. /\ fns \in Seq(Calls) /\ Len(fns) > 1 /\ Nested(code, fns) /\ code \in Seq(Opcode)
          /\ fns[Len(fns)].pc >= fns[Len(fns)].end
      BY <2>1, <2>2 DEF CompilerTypes
    <3>2. /\ fns' \in Seq(Calls) /\ Len(fns') = Len(fns) - 1 /\ Nested(code, fns')
          /\ \A i \in 1 .. (Len(fns) - 1) :
                fns'[i].pc = IF i = Len(fns) - 1 THEN fns[Len(fns)].pc ELSE fns[i].pc
      BY ONLY <2>4, <3>1, CallLeaves
    <3>3. Len(fns) - 1 \in 1 .. (Len(fns) - 1)
      BY <2>1, <2>2
    <3>. QED BY <2>2, <3>2, <3>3
  <2>. HIDE DEF t, n
  <2>6. /\ BufferOK' /\ addrs' \in Seq(Nat) /\ AddressesOK' /\ Len(addrs') = Len(code) + 1
        /\ Coded(code, n, buffer', addrs', patches'.data, JumpName, 4)
    <3>1. Jumps(code, n) = Jumps(code, n) /\ UNCHANGED <<code, patches>>
      BY <2>1
    <3>. QED BY <2>1, <2>2, <2>3, <3>1, NoJumpKeeps
  <2>7. CompilerTypes'
    BY <2>1, <2>2, <2>5, <2>6 DEF CompilerTypes
  <2>8. Compiled' = n
    BY <2>1, <2>2, <2>5 DEF Compiled
  <2>9. fns' # << >>
    BY <2>1, <2>2, <2>5
  <2>. QED BY <2>1, <2>2, <2>5, <2>6, <2>7, <2>8, <2>9 DEF CompilerInv
<1>. QED BY <1>1, <1>2

\* The main function is compiled, and the thunk.
LEMMA LeaveMainKeeps ==
  ASSUME CompilerInv, LeaveMain(Epilogue, Thunk)
  PROVE  CompilerInv'
<1>1. CASE Fail
  BY <1>1, FailKeeps
<1>2. CASE ~Fail
  <2>. DEFINE t == Epilogue \o Thunk
              n == fn.pc
  <2>1. /\ phase = "compile" /\ fn.pc >= fn.end /\ Len(fns) = 1 /\ Push(t) /\ Record(n)
        /\ start' = size + Length(Epilogue) /\ fns' = << >> /\ phase' = "patch"
        /\ UNCHANGED <<code, next, patches>>
    BY <1>2 DEF LeaveMain
  <2>2. /\ CompilerTypes
        /\ fns \in Seq(Calls) /\ Nested(code, fns)
        /\ fn = fns[Len(fns)] /\ n = fn.end /\ n \in Nat
        /\ n + 1 \in 1 .. Len(addrs) /\ Len(addrs) = Len(code) + 1
        /\ Coded(code, n, buffer, addrs, patches.data, JumpName, 4)
        /\ next = 0
    BY <2>1, AtEnd
  <2>3. n = Len(code)
    BY <2>1, <2>2 DEF Nested
  <2>4. t \in Seq(Legal) /\ start' \in Nat
    <3>1. Length(Epilogue) \in Nat
      <4>1. Epilogue \in Seq(Emission(InsNames, Operand))
        BY FixedTemplates, LegalTemplate
      <4>. QED BY <4>1, PlacedShape
    <3>2. size \in Nat
      BY <2>2, JitCapacityAssumption DEF CompilerTypes, BufferOK
    <3>. QED BY <2>1, <3>1, <3>2, FixedTemplates, Concatenated
  <2>. HIDE DEF t, n
  <2>5. /\ BufferOK' /\ addrs' \in Seq(Nat) /\ AddressesOK' /\ Len(addrs') = Len(code) + 1
        /\ Coded(code, n, buffer', addrs', patches'.data, JumpName, 4)
    <3>1. Jumps(code, n) = Jumps(code, n) /\ UNCHANGED <<code, patches>>
      BY <2>1
    <3>. QED BY <2>1, <2>2, <2>4, <3>1, NoJumpKeeps
  <2>6. fns' \in Seq(Calls)
    BY <2>1
  <2>7. CompilerTypes'
    BY <2>1, <2>2, <2>4, <2>5, <2>6 DEF CompilerTypes, Phases, Starting
  <2>8. Compiled' = n
    BY <2>1, <2>3 DEF Compiled
  <2>9. next' <= Len(patches'.data) /\ Applied(buffer', addrs', patches'.data, 0, 0)
    <3>1. Len(patches.data) \in Nat
      BY <2>2 DEF CompilerTypes, ArrayOf
    <3>. QED BY <2>1, <2>2, <3>1 DEF Applied
  <2>. QED BY <2>1, <2>2, <2>5, <2>7, <2>8, <2>9 DEF CompilerInv
<1>. QED BY <1>1, <1>2
\* What patch_jumps() finds: the patch is for a bracket of the code, and the
\* four bytes it writes are those of that bracket's jump.
LEMMA AtPatch ==
  ASSUME CompilerInv, phase = "patch", next < Len(patches.data)
  PROVE  /\ CompilerTypes /\ patch = patches.data[next + 1]
         /\ next + 1 \in DOMAIN patches.data /\ 1 .. next \subseteq DOMAIN patches.data
         /\ Len(addrs) = Len(code) + 1
         /\ Coded(code, Len(code), buffer, addrs, patches.data, JumpName, 4)
         /\ Applied(buffer, addrs, patches.data, next, 0)
         /\ Target \in Nat /\ patch.instruction_offset \in Nat
         /\ Target <= size /\ Target % 4 = 0 /\ patch.instruction_offset % 4 = 0
         /\ patch.target_opcode_index < Len(code) + 1
         /\ 4 <= patch.instruction_offset /\ patch.instruction_offset + 4 <= size
         /\ \E j \in DOMAIN buffer :
               /\ buffer[j].at = patch.instruction_offset
               /\ buffer[j].name \in {"cbz", "cbnz"} /\ buffer[j].len = 4
<1>1. /\ CompilerTypes /\ Len(addrs) = Len(code) + 1
      /\ Coded(code, Len(code), buffer, addrs, patches.data, JumpName, 4)
      /\ Applied(buffer, addrs, patches.data, next, 0)
  BY DEF CompilerInv, Compiled
<1>2. /\ code \in Seq(Opcode) /\ WellFormed(code) /\ addrs \in Seq(Nat) /\ next \in Nat
      /\ patches.data \in Seq(PatchRecord)
      /\ buffer \in Seq(Emitted(InsNames, Operand)) /\ InOrder(buffer, size) /\ size \in Nat
  BY <1>1, JitCapacityAssumption DEF CompilerTypes, BufferOK, ArrayOf
<1>3. patch = patches.data[next + 1]
  BY DEF patch
<1>4. next + 1 \in DOMAIN patches.data /\ 1 .. next \subseteq DOMAIN patches.data
  BY <1>2
<1>5. PICK k \in Jumps(code, Len(code)) : patch = PatchOf(code, addrs, k)
  BY <1>1, <1>3, <1>4 DEF Coded
<1>6. k \in DOMAIN code /\ code[k].op \in {"op_jf", "op_jt"} /\ k \in 1 .. Len(addrs)
  BY <1>1, <1>2, <1>5 DEF Jumps
<1>7. addrs[k] \in Nat /\ addrs[k] % 4 = 0 /\ Len(code) \in Nat
  BY <1>1, <1>2, <1>6 DEF CompilerTypes, AddressesOK
<1>8. patch.instruction_offset = addrs[k] + 4 /\ patch.target_opcode_index = code[k].num
  BY <1>5 DEF PatchOf
<1>9. code[k].num \in 0 .. Len(code)
  BY <1>2, <1>6, JumpTarget
<1>10. Target \in Nat /\ Target <= size /\ Target % 4 = 0
  <2>1. code[k].num + 1 \in 1 .. Len(addrs)
    BY <1>1, <1>7, <1>9
  <2>2. /\ addrs[code[k].num + 1] \in Nat /\ addrs[code[k].num + 1] <= size
        /\ addrs[code[k].num + 1] % 4 = 0
    <3>1. code[k].num + 1 \in DOMAIN addrs
      BY <1>2, <2>1
    <3>. QED BY <1>1, <1>2, <3>1, SMTT(20) DEF CompilerTypes, AddressesOK
  <2>3. Target = addrs[code[k].num + 1]
    BY <1>8 DEF Target
  <2>. QED BY <2>2, <2>3
<1>11. JumpIn(buffer, addrs[k] + 4, JumpName[code[k].op], 4)
  BY <1>1, <1>5 DEF Coded
<1>12. PICK j \in DOMAIN buffer : /\ buffer[j].at = addrs[k] + 4
                                  /\ buffer[j].name = JumpName[code[k].op] /\ buffer[j].len = 4
  BY <1>11 DEF JumpIn
<1>13. buffer[j].name \in {"cbz", "cbnz"}
  BY <1>6, <1>12 DEF JumpName
<1>14. addrs[k] + 4 + 4 <= size
  BY <1>2, <1>12 DEF InOrder
<1>15. (addrs[k] + 4) % 4 = 0 /\ 4 <= addrs[k] + 4 /\ addrs[k] + 4 \in Nat
  BY <1>7
<1>. QED BY <1>1, <1>3, <1>4, <1>8, <1>9, <1>10, <1>12, <1>13, <1>14, <1>15, SMTT(20)

\* One iteration of JitBuffer_patch_jumps, which skips no patch.
LEMMA PatchKeeps ==
  ASSUME CompilerInv, PatchJump
  PROVE  CompilerInv'
<1>. DEFINE off == patch.instruction_offset
            rel == RelativeOffset(Target, off)
<1>1. phase = "patch" /\ next < Len(patches.data) /\ next' = next + 1
      /\ UNCHANGED <<code, phase, fns, size, addrs, patches, start>>
  BY DEF PatchJump, PatchNext
<1>2. /\ CompilerTypes /\ patch = patches.data[next + 1]
      /\ next + 1 \in DOMAIN patches.data /\ 1 .. next \subseteq DOMAIN patches.data
      /\ Len(addrs) = Len(code) + 1
      /\ Coded(code, Len(code), buffer, addrs, patches.data, JumpName, 4)
      /\ Applied(buffer, addrs, patches.data, next, 0)
      /\ Target \in Nat /\ off \in Nat /\ Target <= size /\ Target % 4 = 0 /\ off % 4 = 0
      /\ patch.target_opcode_index < Len(code) + 1 /\ 4 <= off /\ off + 4 <= size
  BY <1>1, AtPatch
<1>3. PICK j \in DOMAIN buffer :
         /\ buffer[j].at = off /\ buffer[j].name \in {"cbz", "cbnz"} /\ buffer[j].len = 4
  BY <1>1, AtPatch
<1>5. /\ buffer \in Seq(Emitted(InsNames, Operand)) /\ InOrder(buffer, size) /\ size \in Nat
      /\ size <= JitCapacity
      /\ next \in Nat /\ patches.data \in Seq(PatchRecord)
  BY <1>2, JitCapacityAssumption DEF CompilerTypes, BufferOK, ArrayOf
<1>6. rel \in Int /\ rel = Target - off
  BY <1>2 DEF RelativeOffset
<1>16. rel % 4 = 0 /\ rel \div 4 \in -(2 ^ 18) .. (2 ^ 18 - 1)
  <2>1. rel % 4 = 0 /\ rel <= 2 ^ 20 - 4 /\ -(2 ^ 20 - 4) <= rel
    <3>. HIDE DEF off, rel
    <3>1. rel % 4 = 0
      BY ONLY <1>2, <1>6
    <3>2. 2 ^ 20 \in Nat /\ size <= 2 ^ 20
      BY <1>5, JitCapacityAssumption, BranchesReach
    <3>. QED BY ONLY <1>2, <1>5, <1>6, <3>1, <3>2
  <2>. HIDE DEF rel
  <2>. QED BY ONLY <1>6, <2>1
<1>4. buffer' = [i \in DOMAIN buffer |->
                   IF buffer[i].at = off THEN [buffer[i] EXCEPT !.arg = rel] ELSE buffer[i]]
  BY <1>2, <1>16 DEF PatchJump, PatchNext
<1>. HIDE DEF off, rel
<1>7. ASSUME NEW i \in DOMAIN buffer
      PROVE  buffer'[i] = IF buffer[i].at = off THEN [buffer[i] EXCEPT !.arg = rel] ELSE buffer[i]
  BY <1>4
<1>8. DOMAIN buffer' = DOMAIN buffer /\ buffer' = [i \in DOMAIN buffer |-> buffer'[i]]
  BY <1>4
<1>9. ASSUME NEW i \in DOMAIN buffer
      PROVE  /\ buffer'[i] \in Emitted(InsNames, Operand) /\ Usable(buffer'[i])
             /\ buffer'[i].at = buffer[i].at /\ buffer'[i].name = buffer[i].name
             /\ buffer'[i].len = buffer[i].len
             /\ buffer'[i].arg = IF buffer[i].at = off THEN rel ELSE buffer[i].arg
  <2>1. buffer[i] \in Emitted(InsNames, Operand) /\ Usable(buffer[i])
    BY <1>2, <1>5 DEF CompilerTypes, BufferOK
  <2>2. CASE buffer[i].at # off
    BY <1>7, <2>1, <2>2
  <2>3. CASE buffer[i].at = off
    <3>1. i = j
      BY <1>3, <1>5, <2>3, Disjoint
    <3>2. buffer'[i] = [buffer[i] EXCEPT !.arg = rel] /\ rel \in Operand
      BY <1>6, <1>7, <2>3 DEF Operand
    <3>3. /\ buffer'[i] \in Emitted(InsNames, Operand)
          /\ buffer'[i].at = off /\ buffer'[i].name = buffer[i].name
          /\ buffer'[i].len = 4 /\ buffer'[i].arg = rel
      BY <1>3, <2>1, <2>3, <3>1, <3>2 DEF Emitted
    <3>4. off + rel \in Nat
      BY <1>2, <1>6
    <3>5. buffer'[i].name \in {"cbz", "cbnz"}
      BY <1>3, <3>1, <3>3
    <3>6. Usable(buffer'[i])
      BY <1>6, <3>3, <3>4, <3>5 DEF Usable
    <3>. QED BY <1>3, <2>3, <3>1, <3>3, <3>6
  <2>. QED BY <2>2, <2>3
<1>10. Repaired(buffer, buffer', off, rel)
  BY <1>8, <1>9 DEF Repaired
<1>11. /\ Coded(code, Len(code), buffer', addrs, patches.data, JumpName, 4)
       /\ InOrder(buffer', size) /\ Applied(buffer', addrs, patches.data, next + 1, 0)
  <2>1. Repaired(buffer, buffer', patches.data[next + 1].instruction_offset,
                 addrs[patches.data[next + 1].target_opcode_index + 1]
                   - (patches.data[next + 1].instruction_offset + 0))
    <3>1. off = patches.data[next + 1].instruction_offset
      BY <1>2 DEF off
    <3>2. Target = addrs[patches.data[next + 1].target_opcode_index + 1]
      BY <1>2 DEF Target
    <3>3. Repaired(buffer, buffer', off, Target - (off + 0))
      <4>1. Target - (off + 0) = rel
        BY <1>2, <1>6
      <4>. QED BY <1>10, <4>1
    <3>. QED BY <3>1, <3>2, <3>3
  <2>2. \A k \in 1 .. Len(code) : addrs[k] \in Nat
    <3>1. addrs \in Seq(Nat) /\ Len(code) \in Nat
      BY <1>2 DEF CompilerTypes
    <3>. QED BY <1>2, <3>1
  <2>3. /\ next \in Nat /\ next + 1 \in DOMAIN patches.data
        /\ 1 .. next \subseteq DOMAIN patches.data
        /\ Coded(code, Len(code), buffer, addrs, patches.data, JumpName, 4)
        /\ InOrder(buffer, size) /\ Applied(buffer, addrs, patches.data, next, 0)
    BY <1>2, <1>5
  <2>. QED BY ONLY <2>1, <2>2, <2>3, PatchApplied
<1>12. BufferOK'
  <2>1. buffer' \in Seq(Emitted(InsNames, Operand))
    BY <1>5, <1>8, <1>9
  <2>2. \A i \in DOMAIN buffer' : Usable(buffer'[i])
    BY <1>8, <1>9
  <2>. QED BY <1>1, <1>2, <1>11, <2>1, <2>2 DEF BufferOK, CompilerTypes
<1>13. CompilerTypes'
  BY <1>1, <1>2, <1>5, <1>12 DEF CompilerTypes, AddressesOK
<1>14. next' <= Len(patches.data)
  BY <1>1, <1>5
<1>15. Compiled' = Len(code)
  BY <1>1 DEF Compiled
<1>. QED BY <1>1, <1>2, <1>11, <1>13, <1>14, <1>15 DEF CompilerInv
LEMMA CallThunkKeeps ==
  ASSUME CompilerInv, CallThunk
  PROVE  CompilerInv'
<1>1. CASE Fail
  BY <1>1, FailKeeps
<1>2. CASE ~Fail
  <2>1. /\ phase = "patch" /\ next >= Len(patches.data) /\ phase' = "run"
        /\ UNCHANGED <<code, fns, next, buffer, size, addrs, patches, start>>
    BY <1>2 DEF CallThunk, jit
  <2>2. /\ CompilerTypes /\ Len(addrs) = Len(code) + 1
        /\ Coded(code, Len(code), buffer, addrs, patches.data, JumpName, 4)
        /\ next <= Len(patches.data) /\ Applied(buffer, addrs, patches.data, next, 0)
    BY <2>1 DEF CompilerInv, Compiled
  <2>3. next = Len(patches.data)
    <3>1. next \in Nat /\ Len(patches.data) \in Nat
      BY <2>2 DEF CompilerTypes, ArrayOf
    <3>. QED BY <2>1, <2>2, <3>1
  <2>4. CompilerTypes'
    BY <2>1, <2>2 DEF CompilerTypes, AddressesOK, BufferOK, Phases, Starting
  <2>5. Compiled' = Len(code)
    BY <2>1 DEF Compiled
  <2>. QED BY <2>1, <2>2, <2>3, <2>4, <2>5 DEF CompilerInv
<1>. QED BY <1>1, <1>2

LEMMA CompileKeeps ==
  ASSUME CompilerInv, Compile \/ PatchJump \/ CallThunk
  PROVE  CompilerInv'
BY CreateKeeps, EnterMainKeeps, EmitOpKeeps, EnterLambdaKeeps, LeaveLambdaKeeps, LeaveMainKeeps,
   PatchKeeps, CallThunkKeeps DEF Compile

LEMMA CompilerStays ==
  ASSUME CompilerInv, UNCHANGED <<code, phase, fns, next, jit>>
  PROVE  CompilerInv'
<1>1. UNCHANGED <<code, phase, fns, next, buffer, size, addrs, patches, start>>
  BY DEF jit
<1>2. CompilerTypes' <=> CompilerTypes
  BY <1>1 DEF CompilerTypes, AddressesOK, BufferOK
<1>3. Compiled' = Compiled
  BY <1>1 DEF Compiled
<1>. QED BY <1>1, <1>2, <1>3 DEF CompilerInv

-----------------------------------------------------------------------------
(* The processor.  Whatever a register holds that the emitted code saves   *)
(* or restores, x19 is at the first cell: the processor stops at the movz  *)
(* that comes before any instruction that adds to it.                      *)

Saved == {"x19", "x20", "x29", "x30"}

Frame == {f \in [Saved -> AnyValue] : f["x19"].off = 0}

MachineInv ==
  /\ ip \in Nat
  /\ regs \in Frame
  /\ stack \in Seq(Frame)
  /\ w0 \in Byte
  /\ mem \in [0 .. (TapeSize - 1) -> Byte]
  /\ input \in Seq(Byte) /\ output \in Seq(Byte)

LEMMA CallersFrame == Callers \in Frame /\ DOMAIN Callers = Saved
<1>. DEFINE v(k) == Value("caller", k)
<1>1. \A k \in Nat : v(k) \in AnyValue /\ v(k).off = k
  BY DEF Value, AnyValue
<1>2. Callers = [x19 |-> v(0), x20 |-> v(1), x29 |-> v(2), x30 |-> v(3)]
  BY DEF Callers
<1>. HIDE DEF v
<1>3. v(0) \in AnyValue /\ v(1) \in AnyValue /\ v(2) \in AnyValue /\ v(3) \in AnyValue
      /\ v(0).off = 0
  BY <1>1
<1>. QED BY <1>2, <1>3 DEF Frame, Saved

LEMMA UnwrittenFrame == Unwritten \in Frame
<1>. DEFINE v == Value("bytes", 0)
<1>1. v \in AnyValue /\ v.off = 0
  BY DEF Value, AnyValue
<1>2. Unwritten = [r \in Saved |-> v]
  BY CallersFrame DEF Unwritten
<1>. HIDE DEF v
<1>3. "x19" \in Saved
  BY DEF Saved
<1>. QED BY <1>1, <1>2, <1>3 DEF Frame

\* Values of which some come from one frame and some from another.
LEMMA FrameMixed ==
  ASSUME NEW f \in Frame, NEW g \in Frame, NEW S
  PROVE  [r \in Saved |-> IF r \in S THEN f[r] ELSE g[r]] \in Frame
<1>1. "x19" \in Saved
  BY DEF Saved
<1>. QED BY <1>1 DEF Frame

\* Writing a register.
LEMMA RegisterWritten ==
  ASSUME NEW f \in Frame, NEW r \in Saved, NEW v \in AnyValue, r = "x19" => v.off = 0,
         NEW g, g = [f EXCEPT ![r] = v]
  PROVE  g \in Frame
<1>1. "x19" \in Saved
  BY DEF Saved
<1>. QED BY <1>1 DEF Frame

\* The instruction at ip is one of the buffer.
LEMMA AtIns ==
  ASSUME CompilerInv, NEW names, Here(names)
  PROVE  /\ phase = "run" /\ Current.name \in names /\ Current.at = ip
         /\ Current.len \in Nat /\ Usable(Current)
<1>1. /\ buffer \in Seq(Emitted(InsNames, Operand)) /\ InOrder(buffer, size) /\ size \in Nat
      /\ \A j \in DOMAIN buffer : Usable(buffer[j])
  BY JitCapacityAssumption DEF CompilerInv, CompilerTypes, BufferOK
<1>2. PICK k \in DOMAIN buffer : buffer[k].at = ip /\ buffer[k].name \in names
  BY DEF Here
<1>. DEFINE m == CHOOSE i \in DOMAIN buffer : buffer[i].at = ip
<1>3. m \in DOMAIN buffer /\ buffer[m].at = ip
  BY <1>2
<1>4. Current = buffer[m]
  BY DEF Current
<1>. HIDE DEF m
<1>5. m = k
  BY <1>1, <1>2, <1>3, Disjoint
<1>6. buffer[k].len \in Nat
  BY <1>1, Disjoint
<1>. QED BY <1>1, <1>2, <1>4, <1>5, <1>6 DEF Here

\* An instruction that ends where the next one begins.
LEMMA GoesForward ==
  ASSUME CompilerInv, MachineInv, NEW names, Here(names), Forward
  PROVE  ip' \in Nat
BY AtIns DEF Forward, MachineInv

\* The innermost frame.
LEMMA LastFrame ==
  ASSUME MachineInv, stack # << >>
  PROVE  Last(stack) \in Frame /\ Front(stack) \in Seq(Frame)
<1>1. stack \in Seq(Frame) /\ Len(stack) \in 1 .. Len(stack)
  BY DEF MachineInv
<1>2. stack[Len(stack)] \in Frame /\ SubSeq(stack, 1, Len(stack) - 1) \in Seq(Frame)
  BY <1>1
<1>. QED BY <1>2 DEF Last, Front

LEMMA StoreKeeps ==
  ASSUME CompilerInv, MachineInv, Store
  PROVE  (CompilerInv /\ MachineInv)'
<1>. DEFINE frame == IF Current.name = "stp_pre" THEN Unwritten ELSE Last(stack)
            kept  == IF Current.name = "stp_pre" THEN stack ELSE Front(stack)
            pair  == {Current.arg[1], Current.arg[2]}
            f     == [r \in Saved |-> IF r \in pair THEN regs[r] ELSE frame[r]]
<1>1. /\ Here({"stp_pre", "stp"}) /\ (Here({"stp"}) => stack # << >>) /\ Forward
      /\ UNCHANGED <<code, phase, fns, next, jit, regs, w0, machine>>
  BY DEF Store
<1>2. stack' = Append(kept, f)
  BY CallersFrame DEF Store
<1>3. Current.name # "stp_pre" => stack # << >>
  <2>1. Current.name \in {"stp_pre", "stp"} /\ phase = "run" /\ Current.at = ip
    BY <1>1, AtIns
  <2>2. Current.name = "stp" => Here({"stp"})
    <3>1. \E k \in DOMAIN buffer : buffer[k].at = ip
      BY <1>1 DEF Here
    <3>2. \E k \in DOMAIN buffer : buffer[k] = Current /\ buffer[k].at = ip
      BY <3>1 DEF Current
    <3>. QED BY <2>1, <3>2 DEF Here
  <2>. QED BY <1>1, <2>1, <2>2
<1>4. frame \in Frame /\ kept \in Seq(Frame)
  BY <1>3, UnwrittenFrame, LastFrame DEF MachineInv
<1>. HIDE DEF frame, kept, pair
<1>5. f \in Frame
  BY <1>4, FrameMixed DEF MachineInv
<1>. HIDE DEF f
<1>6. stack' \in Seq(Frame)
  BY <1>2, <1>4, <1>5
<1>7. ip' \in Nat
  BY <1>1, GoesForward
<1>. QED BY <1>1, <1>6, <1>7, CompilerStays DEF MachineInv, machine

LEMMA LoadKeeps ==
  ASSUME CompilerInv, MachineInv, Load
  PROVE  (CompilerInv /\ MachineInv)'
<1>. DEFINE pair == {Current.arg[1], Current.arg[2]}
<1>1. /\ Here({"ldp", "ldp_post"}) /\ stack # << >> /\ Forward
      /\ regs' = [r \in DOMAIN regs |-> IF r \in pair THEN Last(stack)[r] ELSE regs[r]]
      /\ stack' = IF Current.name = "ldp_post" THEN Front(stack) ELSE stack
      /\ UNCHANGED <<code, phase, fns, next, jit, w0, machine>>
  BY DEF Load
<1>. HIDE DEF pair
<1>2. regs' \in Frame
  <2>1. DOMAIN regs = Saved /\ regs \in Frame /\ Last(stack) \in Frame
    BY <1>1, LastFrame DEF MachineInv, Frame
  <2>2. [r \in Saved |-> IF r \in pair THEN Last(stack)[r] ELSE regs[r]] \in Frame
    BY <2>1, FrameMixed
  <2>. QED BY <1>1, <2>1, <2>2
<1>3. stack' \in Seq(Frame)
  BY <1>1, LastFrame DEF MachineInv
<1>4. ip' \in Nat
  BY <1>1, GoesForward
<1>. QED BY <1>1, <1>2, <1>3, <1>4, CompilerStays DEF MachineInv, machine

LEMMA SetRegKeeps ==
  ASSUME CompilerInv, MachineInv, SetReg
  PROVE  (CompilerInv /\ MachineInv)'
<1>1. /\ Here({"nop", "mov_sp", "mov_x19_tape", "mov_x20"}) /\ Forward
      /\ UNCHANGED <<code, phase, fns, next, jit, stack, w0, machine>>
  BY DEF SetReg
<1>2. regs' \in Frame
  <2>1. /\ Value("tape", 0) \in AnyValue /\ Value("tape", 0).off = 0
        /\ Value("bytes", 0) \in AnyValue
    BY DEF Value, AnyValue
  <2>2. "x19" \in Saved /\ "x20" \in Saved /\ "x20" # "x19" /\ regs \in Frame
    BY DEF Saved, MachineInv
  <2>3. [regs EXCEPT !["x19"] = Value("tape", 0)] \in Frame
    BY <2>1, <2>2, RegisterWritten
  <2>4. [regs EXCEPT !["x20"] = Value("bytes", 0)] \in Frame
    BY <2>1, <2>2, RegisterWritten
  <2>. QED BY <2>2, <2>3, <2>4, Zenon DEF SetReg
<1>3. ip' \in Nat
  BY <1>1, GoesForward
<1>. QED BY <1>1, <1>2, <1>3, CompilerStays DEF MachineInv, machine

\* blr leaves an address in the buffer in x30.
LEMMA LinkKeeps ==
  ASSUME CompilerInv, MachineInv, NEW names, Here(names), Link
  PROVE  regs' \in Frame
<1>. DEFINE v == Value("buffer", ip + Current.len)
<1>1. ip + Current.len \in Nat
  BY AtIns DEF MachineInv
<1>2. v \in AnyValue
  BY <1>1 DEF Value, AnyValue
<1>3. regs' = [regs EXCEPT !["x30"] = v]
  BY DEF Link
<1>. HIDE DEF v
<1>4. "x30" \in Saved /\ "x30" # "x19" /\ regs \in Frame
  BY DEF Saved, MachineInv
<1>. QED BY <1>2, <1>3, <1>4, RegisterWritten

LEMMA CallMainKeeps ==
  ASSUME CompilerInv, MachineInv, CallMain
  PROVE  (CompilerInv /\ MachineInv)'
<1>1. /\ Here({"call_main"}) /\ Link /\ ip' = 0
      /\ UNCHANGED <<code, phase, fns, next, jit, stack, w0, machine>>
  BY DEF CallMain
<1>2. regs' \in Frame
  BY <1>1, LinkKeeps
<1>. QED BY <1>1, <1>2, CompilerStays DEF MachineInv, machine

\* The call to func() may be over.
LEMMA RetKeeps ==
  ASSUME CompilerInv, MachineInv, Ret
  PROVE  (CompilerInv /\ MachineInv)'
<1>1. Here({"ret"}) /\ UNCHANGED <<code, fns, next, regs, stack, w0, machine>>
  BY DEF Ret
<1>2. CASE ip' = regs["x30"].off /\ UNCHANGED <<phase, jit>>
  <2>1. regs["x30"] \in AnyValue
    BY DEF MachineInv, Frame, Saved
  <2>2. ip' \in Nat
    BY <1>2, <2>1 DEF AnyValue
  <2>. QED BY <1>1, <1>2, <2>2, CompilerStays DEF MachineInv, machine
<1>3. CASE phase' = "returned" /\ Destroyed /\ UNCHANGED <<ip, start>>
  <2>1. buffer' = << >> /\ size' = 0 /\ addrs' = << >> /\ patches' = Freed
    BY <1>3 DEF Destroyed
  <2>2. (buffer = << >> /\ size = 0 => BufferOK)'
    BY EmptyBuffer, PTL
  <2>3. patches' \in ArrayOf(PatchRecord) /\ addrs' \in Seq(Nat) /\ AddressesOK'
    BY <2>1, FreedType DEF AddressesOK
  <2>4. CompilerTypes'
    BY <1>1, <1>3, <2>1, <2>2, <2>3 DEF CompilerInv, CompilerTypes, Phases, Starting
  <2>5. CompilerInv'
    BY <1>3, <2>4 DEF CompilerInv
  <2>. QED BY <1>1, <1>3, <2>5 DEF MachineInv, machine
<1>. QED BY <1>2, <1>3 DEF Ret

\* The cell that x19 is at.
LEMMA AtFirstCell ==
  ASSUME MachineInv
  PROVE  p \in 0 .. (TapeSize - 1) /\ mem[p] \in Byte
<1>1. p = 0
  BY DEF MachineInv, Frame, p
<1>2. 0 \in 0 .. (TapeSize - 1)
  BY MachineAssumption
<1>. QED BY <1>1, <1>2 DEF MachineInv

LEMMA CellKeeps ==
  ASSUME CompilerInv, MachineInv, LoadCell \/ StoreCell
  PROVE  (CompilerInv /\ MachineInv)'
<1>1. CASE LoadCell
  <2>1. /\ Here({"ldrb", "ldrsb"}) /\ w0' = mem[p] /\ Forward
        /\ UNCHANGED <<code, phase, fns, next, jit, regs, stack, machine>>
    BY <1>1 DEF LoadCell
  <2>2. ip' \in Nat /\ w0' \in Byte
    BY <2>1, GoesForward, AtFirstCell
  <2>. QED BY <2>1, <2>2, CompilerStays DEF MachineInv, machine
<1>2. CASE StoreCell
  <2>1. /\ Here({"strb"}) /\ mem' = [mem EXCEPT ![p] = w0] /\ Forward
        /\ UNCHANGED <<code, phase, fns, next, jit, regs, stack, w0, input, output>>
    BY <1>2 DEF StoreCell
  <2>2. ip' \in Nat
    BY <2>1, GoesForward
  <2>3. mem' \in [0 .. (TapeSize - 1) -> Byte]
    BY <2>1, AtFirstCell DEF MachineInv
  <2>. QED BY <2>1, <2>2, <2>3, CompilerStays DEF MachineInv
<1>. QED BY <1>1, <1>2

LEMMA CondJumpKeeps ==
  ASSUME CompilerInv, MachineInv, CondJump
  PROVE  (CompilerInv /\ MachineInv)'
<1>1. /\ Here({"cbz", "cbnz"})
      /\ ip' = ip + (IF (w0 = 0) = (Current.name = "cbz") THEN Current.arg ELSE Current.len)
      /\ UNCHANGED <<code, phase, fns, next, jit, regs, stack, w0, machine>>
  BY DEF CondJump
<1>2. /\ Current.at = ip /\ Current.len \in Nat /\ Current.arg \in Int
      /\ Current.at + Current.arg \in Nat
  BY <1>1, AtIns DEF Usable
<1>3. ip' \in Nat
  BY <1>1, <1>2 DEF MachineInv
<1>. QED BY <1>1, <1>3, CompilerStays DEF MachineInv, machine

LEMMA CharKeeps ==
  ASSUME CompilerInv, MachineInv, GetChar \/ PutChar
  PROVE  (CompilerInv /\ MachineInv)'
<1>1. CASE GetChar
  <2>1. /\ Here({"getchar"}) /\ Link /\ Forward
        /\ UNCHANGED <<code, phase, fns, next, jit, stack, mem, output>>
    BY <1>1 DEF GetChar
  <2>2. input \in Seq(Byte) /\ EOF \in Byte
    BY MachineAssumption DEF MachineInv, EOF, Byte
  <2>3. w0' \in Byte /\ input' \in Seq(Byte)
    BY <1>1, <2>2 DEF GetChar
  <2>4. ip' \in Nat /\ regs' \in Frame
    BY <2>1, GoesForward, LinkKeeps
  <2>. QED BY <2>1, <2>3, <2>4, CompilerStays DEF MachineInv
<1>2. CASE PutChar
  <2>1. /\ Here({"putchar"}) /\ Link /\ Forward /\ output' = Append(output, w0)
        /\ UNCHANGED <<code, phase, fns, next, jit, stack, w0, mem, input>>
    BY <1>2 DEF PutChar
  <2>2. output' \in Seq(Byte)
    BY <2>1 DEF MachineInv
  <2>3. ip' \in Nat /\ regs' \in Frame
    BY <2>1, GoesForward, LinkKeeps
  <2>. QED BY <2>1, <2>2, <2>3, CompilerStays DEF MachineInv
<1>. QED BY <1>1, <1>2

\* An exception, or bytes that are not the code meant to run.
LEMMA CrashKeeps ==
  ASSUME CompilerInv, MachineInv, Crash
  PROVE  (CompilerInv /\ MachineInv)'
<1>1. phase = "run" /\ phase' = "undefined" /\ UNCHANGED <<code, fns, next, jit, cpu, machine>>
  BY DEF Crash
<1>2. UNCHANGED <<code, fns, next, buffer, size, addrs, patches, start>>
  BY <1>1 DEF jit
<1>3. CompilerTypes'
  BY <1>1, <1>2 DEF CompilerInv, CompilerTypes, AddressesOK, BufferOK, Phases, Starting
<1>4. CompilerInv'
  BY <1>1, <1>3 DEF CompilerInv
<1>. QED BY <1>1, <1>4 DEF MachineInv, cpu, machine

LEMMA NextKeeps ==
  ASSUME CompilerInv, MachineInv, [Next]_vars
  PROVE  (CompilerInv /\ MachineInv)'
<1>1. CASE Compile \/ PatchJump \/ CallThunk
  <2>1. CompilerInv'
    BY <1>1, CompileKeeps
  <2>2. ip' \in Nat
    <3>1. start \in Nat
      BY DEF CompilerInv, CompilerTypes
    <3>2. ip' = ip \/ ip' = start
      BY <1>1 DEF Compile, PatchJump, CallThunk, cpu
    <3>. QED BY <3>1, <3>2 DEF MachineInv
  <2>3. UNCHANGED <<regs, stack, w0, machine>>
    BY <1>1 DEF Compile, PatchJump, CallThunk, cpu
  <2>. QED BY <2>1, <2>2, <2>3 DEF MachineInv, machine
<1>2. CASE UNCHANGED vars
  <2>1. UNCHANGED <<code, phase, fns, next, jit, cpu, machine>>
    BY <1>2 DEF vars
  <2>. QED BY <2>1, CompilerStays DEF MachineInv, cpu, machine
<1>. QED BY <1>1, <1>2, StoreKeeps, LoadKeeps, SetRegKeeps, CallMainKeeps, RetKeeps, CellKeeps,
            CondJumpKeeps, CharKeeps, CrashKeeps DEF Next

LEMMA InitHolds ==
  ASSUME Init
  PROVE  CompilerInv /\ MachineInv
<1>1. code \in Seq(Opcode) /\ WellFormed(code) /\ input \in Seq(Byte)
  BY Aarch64JitAssumption, ProgramsAreWellFormed DEF Init, CompilerInit
<1>2. /\ phase = "create" /\ fns = << >> /\ next = 0 /\ buffer = << >> /\ size = 0
      /\ addrs = << >> /\ patches = Freed /\ start = 0
  BY DEF Init, CompilerInit
<1>3. CompilerInv
  BY <1>1, <1>2, EmptyBuffer, FreedType DEF CompilerInv, CompilerTypes, AddressesOK, Phases, Starting
<1>4. regs \in Frame
  BY CallersFrame DEF Init
<1>5. 0 \in Byte /\ mem \in [0 .. (TapeSize - 1) -> Byte]
  <2>1. 0 \in Byte
    BY MachineAssumption DEF Byte
  <2>. QED BY <2>1 DEF Init, ZeroTape
<1>6. ip = 0 /\ stack = << >> /\ w0 = 0 /\ output = << >>
  BY DEF Init
<1>7. << >> \in Seq(Frame) /\ << >> \in Seq(Byte)
  OBVIOUS
<1>. QED BY <1>1, <1>3, <1>4, <1>5, <1>6, <1>7 DEF MachineInv

-----------------------------------------------------------------------------
(* The theorems.                                                           *)

(***************************************************************************)
(* The inductive invariant: of the compiler, that everything emitted is in *)
(* its place and every patch knows its jump; of the processor, what its    *)
(* registers and its stack can hold.                                       *)
(***************************************************************************)
THEOREM InvariantHolds == Spec => [](CompilerInv /\ MachineInv)
<1>1. Init => CompilerInv /\ MachineInv
  BY InitHolds
<1>2. (CompilerInv /\ MachineInv) /\ [Next]_vars => (CompilerInv /\ MachineInv)'
  BY NextKeeps
<1>. QED BY <1>1, <1>2, PTL DEF Spec

(***************************************************************************)
(* Whatever well-formed program is compiled, the addresses, the patches,   *)
(* the calls of jit_compile_function, the registers and the frames of the  *)
(* stack are of their types, every cell that is read or written is on the  *)
(* tape, and no more than the buffer's capacity is emitted.                *)
(***************************************************************************)
THEOREM TypeCorrect == Spec => []TypeOK
<1>1. CompilerInv /\ MachineInv /\ Clean => TypeOK
  <2>. SUFFICES ASSUME CompilerInv, MachineInv, Clean PROVE TypeOK
    OBVIOUS
  <2>1. regs \in [DOMAIN Callers -> AnyValue] /\ stack \in Seq([DOMAIN Callers -> AnyValue])
    <3>1. DOMAIN Callers = Saved /\ Frame \subseteq [Saved -> AnyValue]
      BY CallersFrame DEF Frame
    <3>. QED BY <3>1 DEF MachineInv
  <2>2. mappings \in Nat
    BY DEF Clean, Mapped
  <2>3. CompilerTypeOK
    BY <2>2 DEF CompilerInv, CompilerTypes, BufferOK, Phases, Starting, Calls, Function, PatchRecord, CompilerTypeOK
  <2>. QED BY <2>1, <2>3 DEF MachineInv, TypeOK
<1>. QED BY <1>1, InvariantHolds, CleanHolds, PTL

(***************************************************************************)
(* Whatever well-formed program is compiled, in however small a buffer,    *)
(* patch_jumps() skips no jump: once the code runs the branch of every     *)
(* loop bracket goes where the code of its target opcode begins, or the    *)
(* epilogue.                                                               *)
(***************************************************************************)
THEOREM JumpsCorrect == Spec => []JumpsReachTargets
<1>1. ASSUME CompilerInv, phase = "run", NEW k \in DOMAIN code, IsJump(code[k])
      PROVE  /\ buffer[JumpAt(k)].name = IF code[k].op = "op_jf" THEN "cbz" ELSE "cbnz"
             /\ buffer[JumpAt(k)].at + buffer[JumpAt(k)].arg = addrs[code[k].num + 1]
  <2>1. /\ code \in Seq(Opcode) /\ WellFormed(code) /\ addrs \in Seq(Nat)
        /\ patches.data \in Seq(PatchRecord)
        /\ buffer \in Seq(Emitted(InsNames, Operand)) /\ InOrder(buffer, size) /\ size \in Nat
        /\ Len(addrs) = Len(code) + 1
        /\ Coded(code, Len(code), buffer, addrs, patches.data, JumpName, 4)
        /\ Applied(buffer, addrs, patches.data, Len(patches.data), 0)
    BY <1>1, JitCapacityAssumption DEF CompilerInv, CompilerTypes, BufferOK, ArrayOf, Compiled
  <2>2. k \in 1 .. Len(code) /\ Len(code) \in Nat /\ code[k] \in Opcode
    BY <1>1, <2>1
  <2>3. code[k].op \in {"op_jf", "op_jt"} /\ k \in Jumps(code, Len(code))
    BY <1>1, <2>2 DEF IsJump, Jumps
  <2>4. PICK x \in DOMAIN buffer : JumpAt(k) = x /\ buffer[x].at = addrs[k] + 4
    <3>1. JumpIn(buffer, addrs[k] + 4, JumpName[code[k].op], 4)
      BY <2>1, <2>3 DEF Coded
    <3>. QED BY <3>1 DEF JumpIn, JumpAt
  <2>5. Goes(buffer[x], code[k], addrs, addrs[k] + 4, JumpName, 4, 0)
    <3>1. DOMAIN patches.data = 1 .. Len(patches.data)
      BY <2>1
    <3>. QED BY ONLY <2>1, <2>3, <2>4, <3>1, JumpsGo
  <2>6. addrs[k] \in Nat /\ addrs[code[k].num + 1] \in Nat
    <3>1. code[k].num + 1 \in 1 .. Len(addrs)
      BY <2>1, <2>2, <2>3, JumpTarget
    <3>2. k \in 1 .. Len(addrs)
      BY <2>1, <2>2
    <3>. QED BY <2>1, <3>1, <3>2, SMTT(20)
  <2>. QED BY <2>3, <2>4, <2>5, <2>6 DEF JumpName, Goes
<1>2. CompilerInv => JumpsReachTargets
  BY <1>1 DEF JumpsReachTargets
<1>. QED BY <1>2, InvariantHolds, PTL
=============================================================================
