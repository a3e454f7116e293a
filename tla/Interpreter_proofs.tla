-------------------------- MODULE Interpreter_proofs --------------------------
(***************************************************************************)
(* What interpreter() guarantees for every set of well-formed programs,    *)
(* every input, every width of cells and pointers and every initial        *)
(* capacity of its stacks, with proofs that TLAPS checks.                  *)
(***************************************************************************)
EXTENDS Interpreter, Data_proofs

-----------------------------------------------------------------------------
(* Blocks of well-formed code.  Positions count from 1.                    *)

\* What follows a body is in the same bodies as its definition.
LEMMA AfterBodyStaysInBody ==
  ASSUME NEW c \in Seq(Opcode), WellFormed(c), NEW d \in DOMAIN c,
         c[d].op = "op_def_lambda"
  PROVE  InBody(c, d) <=> InBody(c, c[d].num + 1)
<1>1. c[d].num \in (d + 1) .. Len(c) /\ c[c[d].num].op = "op_ret" /\ d \in Nat /\ c[d].num \in Nat
  BY BodyShape, OpcodeOf
<1>2. ASSUME NEW a \in Defs(c)
      PROVE  d \in Body(c, a) <=> c[d].num + 1 \in Body(c, a)
  <2>1. a \in DOMAIN c /\ c[a].op = "op_def_lambda" /\ a \in Nat
    BY OpcodeOf DEF Defs
  <2>2. c[a].num \in (a + 1) .. Len(c) /\ c[c[a].num].op = "op_ret" /\ c[a].num \in Nat
    BY <2>1, BodyShape, OpcodeOf
  <2>3. a # d => c[a].num # c[d].num
    BY <2>1 DEF WellFormed, Defs
  <2>4. a # c[d].num /\ d # c[a].num
    BY <1>1, <2>1, <2>2
  <2>5. ASSUME a < d, d <= c[a].num
        PROVE  c[d].num <= c[a].num
    <3>1. d <= c[d].num
      BY <1>1
    <3>. QED BY <2>1, <2>5, <3>1, BlocksNest
  <2>6. ASSUME d < a, a <= c[d].num
        PROVE  c[a].num <= c[d].num
    <3>1. a <= c[a].num
      BY <2>1, <2>2
    <3>. QED BY <2>1, <2>6, <3>1, BlocksNest
  <2>. QED BY <1>1, <2>1, <2>2, <2>3, <2>4, <2>5, <2>6 DEF Body
<1>. QED BY <1>2 DEF InBody

\* Matched code without the lambda opcodes, as scanner() and optimize() return
\* it, is well formed.
LEMMA PlainIsWellFormed ==
  ASSUME NEW c \in Seq(Opcode), Matched(c), Plain(c)
  PROVE  WellFormed(c)
<1>. USE DEF Plain
<1>1. Defs(c) = {}
  BY DEF Defs
<1>2. ASSUME NEW B \in Blocks(c), NEW C \in Blocks(c)
      PROVE  B \cap C = {} \/ B \subseteq C \/ C \subseteq B
  <2>1. PICK a \in DOMAIN c : c[a].op = "op_jf" /\ B = a .. c[a].num
    BY <1>2 DEF Blocks
  <2>2. PICK e \in DOMAIN c : c[e].op = "op_jf" /\ C = e .. c[e].num
    BY <1>2 DEF Blocks
  <2>3. a \in Nat /\ e \in Nat /\ c[a].num \in Nat /\ c[e].num \in Nat
    BY OpcodeOf
  <2>4. c[c[a].num].op = "op_jt" /\ c[c[e].num].op = "op_jt"
    BY <2>1, <2>2 DEF Matched, OpensPaired, Paired
  <2>5. e < a /\ a < c[e].num => c[a].num < c[e].num
    BY <2>1, <2>2 DEF Matched, LoopsNest
  <2>6. a < e /\ e < c[a].num => c[e].num < c[a].num
    BY <2>1, <2>2 DEF Matched, LoopsNest
  <2>7. a # c[e].num /\ e # c[a].num
    BY <2>1, <2>2, <2>4
  <2>. QED BY <2>1, <2>2, <2>3, <2>5, <2>6, <2>7
<1>. QED BY <1>1, <1>2 DEF WellFormed

-----------------------------------------------------------------------------
(* The inductive invariant: besides TypeOK, the data pointer comes back    *)
(* from the stacks, so what they keep has to be a pointer; a lambda starts *)
(* after a definition, and a frame returns to what follows a call.         *)

Pointer == 0 .. (PtrMod - 1)

KnownLambda == [start_pc : Nat, captured_p : Pointer]
KnownFrame  == [return_pc : Nat, saved_p : Pointer]

StacksTyped == lambdas \in ArrayOf(KnownLambda) /\ calls \in ArrayOf(KnownFrame)

\* C index start_pc is position start_pc + 1, after the definition.
LambdasAreDefined ==
  \A k \in DOMAIN lambdas.data : lambdas.data[k].start_pc \in Defs(code)

FramesReturnToCalls ==
  \A k \in DOMAIN calls.data :
     /\ calls.data[k].return_pc \in DOMAIN code
     /\ code[calls.data[k].return_pc].op = "op_call"

IInv ==
  /\ TypeOK /\ FramesMatchCode /\ ReturnsAreMatched
  /\ code \in Programs
  /\ StacksTyped /\ LambdasAreDefined /\ FramesReturnToCalls

-----------------------------------------------------------------------------
(* The machine.                                                            *)

\* Arithmetic on cells and pointers wraps within their widths.
LEMMA Wraps ==
  ASSUME NEW n \in Int
  PROVE  /\ \A c \in Int : CellPlus(c, n) \in Byte
         /\ \A a \in Int : PtrPlus(a, n) \in Pointer
         /\ EOF \in Byte /\ 0 \in Byte /\ 0 \in Pointer
<1>1. CellMod \in Nat /\ CellMod > 0 /\ PtrMod \in Nat /\ PtrMod > 0
  BY MachineAssumption
<1>2. \A m \in Int : m % CellMod \in 0 .. (CellMod - 1) /\ m % PtrMod \in 0 .. (PtrMod - 1)
  BY <1>1
<1>. QED BY <1>1, <1>2 DEF CellPlus, PtrPlus, EOF, Byte, Pointer

\* Where the program counter and the opcode at it are.
LEMMA Here ==
  ASSUME IInv, NEW types, At(types)
  PROVE  /\ status = "running" /\ pc \in Nat /\ pc < Len(code)
         /\ code \in Seq(Opcode) /\ WellFormed(code)
         /\ pc + 1 \in DOMAIN code /\ code[pc + 1].op \in types /\ num \in Nat
         /\ Len(code) \in Nat
<1>1. code \in Seq(Opcode) /\ pc \in 0 .. Len(code) /\ WellFormed(code)
  BY ProgramsAreWellFormed DEF IInv, TypeOK
<1>2. status = "running" /\ pc < Len(code) /\ code[pc + 1].op \in types
  BY DEF At
<1>3. pc + 1 \in DOMAIN code /\ Len(code) \in Nat /\ pc \in Nat
  BY <1>1, <1>2
<1>. QED BY <1>1, <1>2, <1>3, OpcodeOf DEF num

-----------------------------------------------------------------------------
(* The steps.                                                              *)

\* A return from the call of interpreter() is clean unless it is the one that
\* ReturnsAreMatched excludes.
LEMMA StopStep ==
  ASSUME IInv, NEW reason \in {"halted", "stack_oom", "call_without_lambda"}, Stop(reason)
  PROVE  IInv'
<1>1. /\ Freed \in ArrayOf(Lambda) /\ Freed \in ArrayOf(CallFrame)
      /\ Freed \in ArrayOf(KnownLambda) /\ Freed \in ArrayOf(KnownFrame)
      /\ DOMAIN Freed.data = {}
  BY FreedType
<1>2. output' \in Seq(Byte \cup {TimeLine})
  BY DEF Stop, IInv, TypeOK
<1>. QED BY <1>1, <1>2
         DEF Stop, IInv, TypeOK, Errors, FramesMatchCode, ReturnsAreMatched, StacksTyped,
             LambdasAreDefined, FramesReturnToCalls

\* A step that touches neither stack keeps the frames in step if it stays in
\* the same bodies.
LEMMA PlainStep ==
  ASSUME IInv, status = "running", TypeOK', UNCHANGED <<code, lambdas, calls, status>>,
         InBody(code, pc + 1) <=> InBody(code, pc' + 1)
  PROVE  IInv'
BY DEF IInv, FramesMatchCode, ReturnsAreMatched, StacksTyped, LambdasAreDefined,
       FramesReturnToCalls

\* So does going on after an opcode that is not of the lambda syntax.
LEMMA GoOnStep ==
  ASSUME IInv, NEW types, At(types), types \cap {"op_def_lambda", "op_ret"} = {},
         UNCHANGED <<code, lambdas, calls, status>>, pc' = pc + 1,
         mem' \in [0 .. (TapeSize - 1) -> Byte], p' \in Pointer,
         input' \in Seq(Byte), output' \in Seq(Byte \cup {TimeLine})
  PROVE  IInv'
<1>1. /\ status = "running" /\ pc \in Nat /\ pc < Len(code) /\ Len(code) \in Nat
      /\ code \in Seq(Opcode) /\ WellFormed(code)
      /\ pc + 1 \in DOMAIN code /\ code[pc + 1].op \in types
  BY Here
<1>2. TypeOK'
  <2>1. pc' \in 0 .. Len(code)
    BY <1>1
  <2>. QED BY <2>1 DEF IInv, TypeOK, Pointer
<1>3. InBody(code, pc + 1) <=> InBody(code, pc' + 1)
  BY <1>1, NextStaysInBody
<1>. QED BY <1>1, <1>2, <1>3, PlainStep

\* Writing the current cell.
LEMMA StoreStep ==
  ASSUME IInv, NEW types, At(types), types \cap {"op_def_lambda", "op_ret"} = {},
         NEW value \in Byte, Store(value),
         input' \in Seq(Byte), output' \in Seq(Byte \cup {TimeLine})
  PROVE  IInv'
<1>1. mem' \in [0 .. (TapeSize - 1) -> Byte] /\ p' \in Pointer
  BY DEF IInv, TypeOK, Store, Pointer
<1>. QED BY <1>1, GoOnStep DEF Store

LEMMA TypedState ==
  ASSUME IInv
  PROVE  /\ mem \in [0 .. (TapeSize - 1) -> Byte] /\ p \in Pointer /\ p \in Int
         /\ input \in Seq(Byte) /\ output \in Seq(Byte \cup {TimeLine})
         /\ OnTape(p) => mem[p] \in Byte /\ mem[p] \in Int
<1>1. PtrMod \in Nat
  BY MachineAssumption
<1>2. mem \in [0 .. (TapeSize - 1) -> Byte] /\ p \in Pointer
      /\ input \in Seq(Byte) /\ output \in Seq(Byte \cup {TimeLine})
  BY DEF IInv, TypeOK, Pointer
<1>3. \A b \in Byte : b \in Int
  BY MachineAssumption DEF Byte
<1>4. OnTape(p) => mem[p] \in Byte
  BY <1>2 DEF OnTape
<1>5. p \in Int
  BY <1>1, <1>2 DEF Pointer
<1>. QED BY <1>2, <1>3, <1>4, <1>5

LEMMA DataStep ==
  ASSUME IInv, AddSub \/ Clear \/ MovePtr \/ In \/ Out
  PROVE  IInv'
<1>0. /\ mem \in [0 .. (TapeSize - 1) -> Byte] /\ p \in Pointer /\ p \in Int
      /\ input \in Seq(Byte) /\ output \in Seq(Byte \cup {TimeLine})
      /\ OnTape(p) => mem[p] \in Byte /\ mem[p] \in Int
  BY TypedState
<1>1. CASE AddSub
  <2>1. num \in Nat
    BY <1>1, Here DEF AddSub
  <2>2. CellPlus(mem[p], num) \in Byte /\ CellPlus(mem[p], -num) \in Byte
    BY <1>0, <1>1, <2>1, Wraps DEF AddSub
  <2>. QED BY <1>0, <1>1, <2>2, StoreStep DEF AddSub, stdio
<1>2. CASE Clear
  BY <1>0, <1>2, StoreStep, Wraps DEF Clear, stdio
<1>3. CASE MovePtr
  <2>1. num \in Nat
    BY <1>3, Here DEF MovePtr
  <2>2. PtrPlus(p, num) \in Pointer /\ PtrPlus(p, -num) \in Pointer
    BY <1>0, <2>1, Wraps
  <2>. QED BY <1>0, <1>3, <2>2, GoOnStep DEF MovePtr, stdio
<1>4. CASE In
  <2>1. CASE input # << >> /\ Store(Head(input)) /\ input' = Tail(input)
    <3>1. Head(input) \in Byte /\ Tail(input) \in Seq(Byte)
      BY <1>0, <2>1
    <3>. QED BY <1>0, <1>4, <2>1, <3>1, StoreStep DEF In
  <2>2. CASE Store(EOF) /\ input' = input
    BY <1>0, <1>4, <2>2, StoreStep, Wraps DEF In
  <2>. QED BY <1>4, <2>1, <2>2 DEF In
<1>5. CASE Out
  <2>1. output' \in Seq(Byte \cup {TimeLine})
    BY <1>0, <1>5 DEF Out
  <2>. QED BY <1>0, <1>5, <2>1, GoOnStep DEF Out, tape
<1>. QED BY <1>1, <1>2, <1>3, <1>4, <1>5

\* A jump goes to the other bracket of its loop, or on.
LEMMA JumpStep ==
  ASSUME IInv, Jump
  PROVE  IInv'
<1>. DEFINE q == pc + 1
<1>1. /\ status = "running" /\ pc \in Nat /\ pc < Len(code) /\ Len(code) \in Nat
      /\ code \in Seq(Opcode) /\ WellFormed(code)
      /\ q \in DOMAIN code /\ code[q].op \in {"op_jt", "op_jf"} /\ num \in Nat
  BY Here DEF Jump
<1>2. UNCHANGED <<code, mem, p, lambdas, calls, input, output, status>>
  BY DEF Jump, tape, stdio
<1>3. CASE pc' = pc + 1
  <2>1. At({"op_jt", "op_jf"})
    BY DEF Jump
  <2>. QED BY <1>2, <1>3, <2>1, TypedState, GoOnStep
<1>4. CASE pc' = num /\ code[q].op = "op_jf"
  <2>1. num \in (q + 1) .. Len(code) /\ Paired(code, q, num) /\ num \in DOMAIN code
    BY <1>1, <1>4, LoopShape DEF num
  <2>2. InBody(code, q) <=> InBody(code, num)
    BY <1>1, <2>1, LoopStaysInBody
  <2>3. code[num].op = "op_jt"
    BY <2>1 DEF Paired
  <2>4. InBody(code, num) <=> InBody(code, num + 1)
    BY <1>1, <2>1, <2>3, NextStaysInBody
  <2>5. TypeOK'
    BY <1>1, <1>2, <1>4, <2>1 DEF IInv, TypeOK
  <2>. QED BY <1>1, <1>2, <1>4, <2>2, <2>4, <2>5, PlainStep
<1>5. CASE pc' = num /\ code[q].op = "op_jt"
  <2>1. num + 1 \in 1 .. (q - 1) /\ Paired(code, num + 1, q) /\ num + 1 \in DOMAIN code
    BY <1>1, <1>5, LoopShape DEF num
  <2>2. InBody(code, num + 1) <=> InBody(code, q)
    BY <1>1, <2>1, LoopStaysInBody
  <2>3. TypeOK'
    BY <1>1, <1>2, <1>5, <2>1 DEF IInv, TypeOK
  <2>. QED BY <1>1, <1>2, <1>5, <2>2, <2>3, PlainStep
<1>. QED BY <1>1, <1>3, <1>4, <1>5 DEF Jump

LEMMA OffTapeStep ==
  ASSUME IInv, OffTape
  PROVE  IInv'
BY DEF OffTape, tape, stdio, IInv, TypeOK, FramesMatchCode, ReturnsAreMatched, StacksTyped,
       LambdasAreDefined, FramesReturnToCalls

LEMMA DefLambdaStep ==
  ASSUME IInv, DefLambda
  PROVE  IInv'
<1>. DEFINE q == pc + 1
<1>1. /\ status = "running" /\ pc \in Nat /\ Len(code) \in Nat
      /\ code \in Seq(Opcode) /\ WellFormed(code)
      /\ q \in DOMAIN code /\ code[q].op = "op_def_lambda"
  BY Here DEF DefLambda
<1>2. CASE Stop("stack_oom")
  BY <1>2, StopStep
<1>3. CASE /\ lambdas' = Pushed(lambdas, [start_pc |-> q, captured_p |-> p])
           /\ pc' = AfterBody
           /\ UNCHANGED <<code, tape, calls, stdio, status>>
  <2>. DEFINE new == [start_pc |-> q, captured_p |-> p]
  <2>1. new \in KnownLambda /\ new \in Lambda
    <3>1. \A a \in Pointer : a \in Nat
      BY MachineAssumption DEF Pointer
    <3>. QED BY <1>1, <3>1, TypedState DEF KnownLambda, Lambda
  <2>2. /\ lambdas \in ArrayOf(KnownLambda) /\ lambdas \in ArrayOf(Lambda)
        /\ lambdas.data \in Seq(KnownLambda)
    BY DEF IInv, StacksTyped, TypeOK, ArrayOf
  <2>3. /\ lambdas' \in ArrayOf(KnownLambda) /\ lambdas' \in ArrayOf(Lambda)
        /\ lambdas'.data = Append(lambdas.data, new)
    BY <1>3, <2>1, <2>2, PushedType
  <2>4. LambdasAreDefined'
    <3>1. \A k \in DOMAIN lambdas'.data :
            \/ lambdas'.data[k] = new
            \/ k \in DOMAIN lambdas.data /\ lambdas'.data[k] = lambdas.data[k]
      BY <2>1, <2>2, <2>3
    <3>2. new.start_pc \in Defs(code)
      BY <1>1 DEF Defs
    <3>. QED BY <1>3, <3>1, <3>2 DEF IInv, LambdasAreDefined
  <2>5. code[q].num \in (q + 1) .. Len(code) /\ pc' = code[q].num
    BY <1>1, <1>3, BodyShape DEF AfterBody, num
  <2>6. TypeOK'
    BY <1>1, <1>3, <2>3, <2>5 DEF IInv, TypeOK, tape, stdio
  <2>7. InBody(code, q) <=> InBody(code, pc' + 1)
    BY <1>1, <2>5, AfterBodyStaysInBody
  <2>. QED BY <1>1, <1>3, <2>3, <2>4, <2>6, <2>7
           DEF IInv, FramesMatchCode, ReturnsAreMatched, StacksTyped, FramesReturnToCalls
<1>. QED BY <1>2, <1>3 DEF DefLambda

\* A call enters a body, and its frame returns to what follows the call.
LEMMA CallStep ==
  ASSUME IInv, Call
  PROVE  IInv'
<1>. DEFINE q == pc + 1
<1>1. /\ status = "running" /\ pc \in Nat /\ Len(code) \in Nat
      /\ code \in Seq(Opcode) /\ WellFormed(code)
      /\ q \in DOMAIN code /\ code[q].op = "op_call"
  BY Here DEF Call
<1>2. ASSUME NEW reason \in {"stack_oom", "call_without_lambda"}, Stop(reason)
      PROVE  IInv'
  BY <1>2, StopStep
<1>3. CASE /\ ~IsEmpty(lambdas)
           /\ calls' = Pushed(calls, Frame)
           /\ pc' = Top(lambdas).start_pc
           /\ p' = Top(lambdas).captured_p
           /\ UNCHANGED <<code, mem, lambdas, stdio, status>>
  <2>1. Frame \in KnownFrame /\ Frame \in CallFrame /\ Frame.return_pc = q
    <3>1. \A a \in Pointer : a \in Nat
      BY MachineAssumption DEF Pointer
    <3>. QED BY <1>1, <3>1, TypedState DEF KnownFrame, CallFrame, Frame
  <2>2. /\ calls \in ArrayOf(KnownFrame) /\ calls \in ArrayOf(CallFrame)
        /\ lambdas \in ArrayOf(KnownLambda)
        /\ calls.data \in Seq(KnownFrame) /\ lambdas.data \in Seq(KnownLambda)
    BY DEF IInv, StacksTyped, TypeOK, ArrayOf
  <2>3. /\ calls' \in ArrayOf(KnownFrame) /\ calls' \in ArrayOf(CallFrame)
        /\ calls'.data = Append(calls.data, Frame)
    BY <1>3, <2>1, <2>2, PushedType
  <2>4. Top(lambdas) \in KnownLambda /\ Len(lambdas.data) \in DOMAIN lambdas.data
    <3>1. Top(lambdas) \in KnownLambda /\ Len(lambdas.data) \in Nat \ {0}
      BY <1>3, <2>2, PoppedType
    <3>. QED BY <2>2, <3>1
  <2>5. pc' \in Defs(code) /\ p' \in Pointer
    BY <1>3, <2>4 DEF IInv, LambdasAreDefined, Top, KnownLambda
  <2>6. pc' \in DOMAIN code /\ code[pc'].op = "op_def_lambda"
    BY <2>5 DEF Defs
  <2>7. InBody(code, pc' + 1)
    BY <1>1, <2>5, BodyStarts
  <2>8. TypeOK'
    <3>1. pc' \in 0 .. Len(code)
      BY <1>1, <2>6
    <3>. QED BY <1>3, <2>3, <2>5, <3>1 DEF IInv, TypeOK, stdio, Pointer
  <2>9. /\ Len(calls'.data) = Len(calls.data) + 1 /\ Len(calls.data) \in Nat
        /\ \A k \in DOMAIN calls'.data :
              \/ k \in DOMAIN calls.data /\ calls'.data[k] = calls.data[k]
              \/ k = Len(calls.data) + 1 /\ calls'.data[k] = Frame
    BY <2>1, <2>2, <2>3
  <2>10. FramesReturnToCalls'
    BY <1>1, <1>3, <2>1, <2>9 DEF IInv, FramesReturnToCalls
  <2>11. FramesMatchCode'
    <3>1. ~IsEmpty(calls')
      BY <2>9 DEF IsEmpty
    <3>2. ASSUME NEW k \in DOMAIN calls'.data
          PROVE  InBody(code, calls'.data[k].return_pc) <=> k > 1
      <4>1. CASE k \in DOMAIN calls.data /\ calls'.data[k] = calls.data[k]
        BY <1>1, <4>1 DEF IInv, FramesMatchCode
      <4>2. CASE k = Len(calls.data) + 1 /\ calls'.data[k] = Frame
        <5>1. ~IsEmpty(calls) <=> InBody(code, q)
          BY <1>1 DEF IInv, FramesMatchCode
        <5>2. ~IsEmpty(calls) <=> k > 1
          BY <2>9, <4>2 DEF IsEmpty
        <5>. QED BY <2>1, <4>2, <5>1, <5>2
      <4>. QED BY <2>9, <4>1, <4>2
    <3>. QED BY <1>3, <2>7, <3>1, <3>2 DEF FramesMatchCode
  <2>. QED BY <1>1, <1>3, <2>3, <2>8, <2>10, <2>11
           DEF IInv, ReturnsAreMatched, StacksTyped, LambdasAreDefined
<1>. QED BY <1>2, <1>3 DEF Call

\* A return is made only from inside a body, so there is a frame, and it goes
\* back to where the call was made.
LEMMA RetStep ==
  ASSUME IInv, Ret
  PROVE  IInv'
<1>. DEFINE q == pc + 1
<1>1. /\ status = "running" /\ pc \in Nat /\ Len(code) \in Nat
      /\ code \in Seq(Opcode) /\ WellFormed(code)
      /\ q \in DOMAIN code /\ code[q].op = "op_ret"
  BY Here DEF Ret
<1>2. InBody(code, q)
  <2>1. PICK a \in Defs(code) : code[a].num = q
    BY <1>1 DEF WellFormed
  <2>2. a \in DOMAIN code /\ code[a].op = "op_def_lambda"
    BY DEF Defs
  <2>3. q \in Body(code, a)
    BY <1>1, <2>1, <2>2, BodyShape DEF Body
  <2>. QED BY <2>3 DEF InBody
<1>3. ~IsEmpty(calls)
  BY <1>1, <1>2 DEF IInv, FramesMatchCode
<1>4. /\ calls' = Popped(calls)
      /\ pc' = Top(calls).return_pc /\ p' = Top(calls).saved_p
      /\ UNCHANGED <<code, mem, lambdas, stdio, status>>
  BY <1>3 DEF Ret
<1>5. /\ calls \in ArrayOf(KnownFrame) /\ calls \in ArrayOf(CallFrame)
      /\ calls.data \in Seq(KnownFrame)
  BY DEF IInv, StacksTyped, TypeOK, ArrayOf
<1>6. /\ calls' \in ArrayOf(KnownFrame) /\ calls' \in ArrayOf(CallFrame)
      /\ calls'.data = SubSeq(calls.data, 1, Len(calls.data) - 1)
      /\ Len(calls.data) \in Nat \ {0} /\ Top(calls) \in KnownFrame
  BY <1>3, <1>4, <1>5, PoppedType
<1>. DEFINE n == Len(calls.data)
<1>7. /\ n \in DOMAIN calls.data /\ Top(calls) = calls.data[n]
      /\ Len(calls'.data) = n - 1 /\ DOMAIN calls'.data = 1 .. (n - 1)
      /\ \A k \in 1 .. (n - 1) : k \in DOMAIN calls.data /\ calls'.data[k] = calls.data[k]
  BY <1>5, <1>6 DEF Top
<1>8. pc' \in DOMAIN code /\ code[pc'].op = "op_call" /\ p' \in Pointer
  BY <1>4, <1>6, <1>7 DEF IInv, FramesReturnToCalls, KnownFrame
<1>9. InBody(code, pc') <=> n > 1
  BY <1>1, <1>4, <1>7 DEF IInv, FramesMatchCode
<1>10. InBody(code, pc') <=> InBody(code, pc' + 1)
  BY <1>1, <1>8, NextStaysInBody
<1>11. TypeOK'
  <2>1. pc' \in 0 .. Len(code)
    BY <1>1, <1>8
  <2>. QED BY <1>4, <1>6, <1>8, <2>1 DEF IInv, TypeOK, stdio, Pointer
<1>12. FramesReturnToCalls'
  BY <1>4, <1>7 DEF IInv, FramesReturnToCalls
<1>13. FramesMatchCode'
  <2>1. ~IsEmpty(calls') <=> n > 1
    BY <1>6, <1>7 DEF IsEmpty
  <2>2. \A k \in DOMAIN calls'.data : InBody(code, calls'.data[k].return_pc) <=> k > 1
    BY <1>1, <1>7 DEF IInv, FramesMatchCode
  <2>. QED BY <1>4, <1>9, <1>10, <2>1, <2>2 DEF FramesMatchCode
<1>. QED BY <1>1, <1>4, <1>6, <1>11, <1>12, <1>13
         DEF IInv, ReturnsAreMatched, StacksTyped, LambdasAreDefined

-----------------------------------------------------------------------------
(* The theorems.                                                           *)

LEMMA InitIInv == Init => IInv
<1>. SUFFICES ASSUME Init PROVE IInv
  OBVIOUS
<1>1. code \in Programs /\ code \in Seq(Opcode) /\ input \in Seq(Byte)
      /\ Len(code) \in Nat
  BY InterpreterAssumption DEF Init
<1>2. mem \in [0 .. (TapeSize - 1) -> Byte]
  BY Wraps DEF Init, ZeroTape
<1>3. /\ Freed \in ArrayOf(Lambda) /\ Freed \in ArrayOf(CallFrame)
      /\ Freed \in ArrayOf(KnownLambda) /\ Freed \in ArrayOf(KnownFrame)
      /\ Freed.data = << >>
  BY FreedType
<1>4. TypeOK
  BY <1>1, <1>2, <1>3, Wraps DEF Init, TypeOK, Pointer
<1>5. ~InBody(code, pc + 1)
  <2>1. ASSUME NEW a \in Defs(code) PROVE 1 \notin Body(code, a)
    BY <1>1 DEF Defs, Body
  <2>. QED BY <2>1 DEF Init, InBody
<1>. QED BY <1>1, <1>3, <1>4, <1>5
         DEF Init, IInv, FramesMatchCode, IsEmpty, ReturnsAreMatched, StacksTyped,
             LambdasAreDefined, FramesReturnToCalls

LEMMA NextIInv == IInv /\ [Next]_vars => IInv'
<1>. SUFFICES ASSUME IInv, [Next]_vars PROVE IInv'
  OBVIOUS
<1>1. CASE Halt
  BY <1>1, StopStep DEF Halt
<1>2. CASE UNCHANGED vars
  BY <1>2 DEF vars, IInv, TypeOK, FramesMatchCode, ReturnsAreMatched, StacksTyped,
              LambdasAreDefined, FramesReturnToCalls
<1>. QED BY <1>1, <1>2, DataStep, JumpStep, OffTapeStep, DefLambdaStep, CallStep, RetStep
         DEF Next

LEMMA Invariance == Spec => []IInv
BY InitIInv, NextIInv, PTL DEF Spec

(***************************************************************************)
(* On well-formed code the program counter never leaves it, cells and      *)
(* pointer stay within their widths, and the stacks keep their types.      *)
(***************************************************************************)
THEOREM TypeCorrect == Spec => []TypeOK
<1>1. IInv => TypeOK
  BY DEF IInv
<1>. QED BY <1>1, Invariance, PTL

(***************************************************************************)
(* The call stack mirrors the code: there is a frame exactly while a body  *)
(* is being run, however lambdas, calls and loops are nested.              *)
(***************************************************************************)
THEOREM FramesCorrect == Spec => []FramesMatchCode
<1>1. IInv => FramesMatchCode
  BY DEF IInv
<1>. QED BY <1>1, Invariance, PTL

\* So the error of vm.c:82-86, a return without a call, cannot happen.
THEOREM NoReturnWithoutCall == Spec => []ReturnsAreMatched
<1>1. IInv => ReturnsAreMatched
  BY DEF IInv
<1>. QED BY <1>1, Invariance, PTL

\* One step leaves a loop: it is the jump of its ']', on zero.
LEMMA ExitStep ==
  ASSUME IInv, [Next]_vars, NEW a \in DOMAIN code, code[a].op = "op_jf",
         pc \in a .. (code[a].num - 1), pc' \notin (a - 1) .. (code[a].num - 1),
         code[pc + 1].op \notin {"op_call", "op_ret"}
  PROVE  pc = code[a].num - 1 /\ pc' = code[a].num /\ mem[p] = 0
<1>. DEFINE q == pc + 1
            b == code[a].num
<1>1. code \in Seq(Opcode) /\ WellFormed(code) /\ Len(code) \in Nat /\ a \in Nat /\ pc \in Nat
  BY ProgramsAreWellFormed, OpcodeOf DEF IInv, TypeOK
<1>2. b \in (a + 1) .. Len(code) /\ b \in DOMAIN code /\ code[b].op = "op_jt"
      /\ code[b].num = a - 1
  <2>1. b \in (a + 1) .. Len(code) /\ Paired(code, a, b)
    BY <1>1, LoopShape
  <2>. QED BY <1>1, <2>1 DEF Paired
<1>3. pc' # pc
  BY <1>1
<1>4. q \in DOMAIN code /\ a < q /\ q <= b
  BY <1>1, <1>2
<1>5. ASSUME pc' = pc + 1
      PROVE  q = b
  BY <1>1, <1>2, <1>4, <1>5
<1>6. CASE AddSub \/ Clear \/ MovePtr \/ In \/ Out
  <2>1. pc' = pc + 1 /\ code[q].op # "op_jt"
    BY <1>6 DEF AddSub, Clear, MovePtr, In, Out, Store, At
  <2>. QED BY <1>2, <1>5, <2>1
<1>7. CASE DefLambda
  <2>1. code[q].op = "op_def_lambda" /\ pc' = code[q].num
    BY <1>3, <1>7 DEF DefLambda, At, Stop, AfterBody, num
  <2>2. code[q].num \in (q + 1) .. Len(code) /\ code[code[q].num].op = "op_ret"
    BY <1>1, <1>4, <2>1, BodyShape
  <2>3. code[q].num <= b
    BY <1>1, <1>4, <2>1, <2>2, BlocksNest
  <2>4. code[q].num # b
    BY <1>2, <2>2
  <2>5. q \in Nat /\ code[q].num \in Nat /\ a < q /\ q < code[q].num /\ b \in Nat
    BY <1>1, <1>2, <1>4, <2>2
  <2>6. pc' \in (a - 1) .. (b - 1)
    BY ONLY <1>1, <2>1, <2>3, <2>4, <2>5
  <2>. QED BY <2>6
<1>8. CASE Jump
  <2>1. CASE pc' = pc + 1
    <3>1. q = b /\ code[q].op = "op_jt" /\ code[q].num = a - 1
      BY <1>2, <1>5, <2>1
    <3>2. pc' # a - 1
      BY <1>1, <1>4, <2>1
    <3>3. mem[p] = 0
      BY <1>8, <3>1, <3>2 DEF Jump, num
    <3>4. b \in Nat /\ pc = b - 1 /\ pc' = b
      BY <1>1, <1>2, <2>1, <3>1
    <3>. QED BY <3>3, <3>4
  <2>2. CASE pc' = num /\ code[q].op = "op_jf"
    <3>1. code[q].num \in (q + 1) .. Len(code) /\ Paired(code, q, code[q].num)
      BY <1>1, <1>4, <2>2, LoopShape
    <3>2. q < b
      BY <1>2, <1>4, <2>2
    <3>3. code[q].num < b
      BY <1>1, <1>4, <2>2, <3>2 DEF WellFormed, Matched, LoopsNest
    <3>. QED BY <1>1, <1>2, <1>4, <2>2, <3>1, <3>3 DEF num
  <2>3. CASE pc' = num /\ code[q].op = "op_jt"
    <3>. DEFINE e == code[q].num + 1
    <3>1. e \in 1 .. (q - 1) /\ Paired(code, e, q) /\ e \in DOMAIN code /\ code[q].num \in Nat
      BY <1>1, <1>4, <2>3, LoopShape, OpcodeOf
    <3>2. code[e].op = "op_jf" /\ code[e].num = q
      BY <3>1 DEF Paired
    <3>3. e >= a
      <4>. SUFFICES ASSUME e < a PROVE FALSE
        BY <1>1, <3>1
      <4>1. b < q
        <5>. HIDE DEF e
        <5>. QED BY <1>1, <1>4, <3>1, <3>2 DEF WellFormed, Matched, LoopsNest
      <4>2. q \in Nat /\ b \in Nat /\ q <= b
        BY <1>1, <1>2, <1>4
      <4>. QED BY ONLY <4>1, <4>2
    <3>. QED BY <1>1, <1>2, <1>4, <2>3, <3>1, <3>3 DEF num
  <2>. QED BY <1>8, <2>1, <2>2, <2>3 DEF Jump, At
<1>9. CASE OffTape \/ Halt \/ UNCHANGED vars
  BY <1>3, <1>9 DEF OffTape, Halt, Stop, vars
<1>10. CASE Call \/ Ret
  BY <1>10 DEF Call, Ret, At
<1>. QED BY <1>6, <1>7, <1>8, <1>9, <1>10 DEF Next

(***************************************************************************)
(* A step out of a loop body that is neither a call nor a return is the    *)
(* jump of the loop's own ']' to the opcode after it, on a cell at zero,   *)
(* however loops and bodies are nested in it (vm.c:39-50).                 *)
(***************************************************************************)
THEOREM LoopsExit == Spec => LoopsExitOnZero
<1>1. IInv /\ [Next]_vars
        => [\A a \in DOMAIN code :
              /\ code[a].op = "op_jf"
              /\ pc \in a .. (code[a].num - 1) /\ pc' \notin (a - 1) .. (code[a].num - 1)
              /\ code[pc + 1].op \notin {"op_call", "op_ret"}
              => pc = code[a].num - 1 /\ pc' = code[a].num /\ mem[p] = 0]_vars
  BY ExitStep
<1>. QED BY <1>1, Invariance, PTL DEF Spec, LoopsExitOnZero
=============================================================================
