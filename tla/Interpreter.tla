----------------------------- MODULE Interpreter -----------------------------
(***************************************************************************)
(* interpreter() of src/vm.c.  One action is one case of the switch, that  *)
(* is one iteration of the loop at line 20.                                *)
(*                                                                         *)
(* scanner() never emits op_def_lambda, op_ret or op_call; interpreter()   *)
(* handles them, so the model does too, for the vectors the opcodes'       *)
(* comments in include/brainfork.h describe.                               *)
(***************************************************************************)
EXTENDS Opcodes, GrowableArray, Machine

CONSTANTS
  Programs,    \* the opcode vectors the interpreter may be given
  Inputs,      \* the byte sequences stdin may hold
  MaxOutput,   \* bound of the model: bytes written
  MaxFrames    \* bound of the model: elements on either runtime stack

ASSUME InterpreterAssumption ==
  /\ Programs \subseteq Seq(Opcode)
  /\ Inputs \subseteq Seq(Byte)
  /\ MaxOutput \in Nat /\ MaxFrames \in Nat

\* What optimize() returns is matched and has none of the lambda opcodes, and
\* so is well formed; with them, the vectors are those the comments describe.
ASSUME ProgramsAreWellFormed == \A c \in Programs : WellFormed(c)

-----------------------------------------------------------------------------
VARIABLES
  code,      \* code->data
  mem,       \* g_bf_mem
  p,         \* the data pointer
  pc,        \* C index of the next opcode
  lambdas,   \* g_lambda_stack
  calls,     \* g_call_stack
  input,     \* what stdin still holds
  output,    \* what stdout has received: bytes, and at the end TimeLine
  status     \* "running", or how the call ended

tape  == <<mem, p>>
stdio == <<input, output>>
vars  == <<code, mem, p, pc, lambdas, calls, input, output, status>>

Lambda    == [start_pc : Nat, captured_p : Nat]
CallFrame == [return_pc : Nat, saved_p : Nat]

Errors == {"stack_oom", "ret_without_call", "call_without_lambda"}

-----------------------------------------------------------------------------
Init ==
  /\ code \in Programs
  /\ mem = ZeroTape
  /\ p = 0
  /\ pc = 0
  /\ lambdas = Freed
  /\ calls = Freed
  /\ input \in Inputs
  /\ output = << >>
  /\ status = "running"

\* The opcode at pc is one of types.
At(types) ==
  /\ status = "running" /\ pc < Len(code)
  /\ code[pc + 1].op \in types

num == code[pc + 1].num

\* The label "cleanup": both runtime stacks are freed, the time is printed.
Stop(reason) ==
  /\ lambdas' = Freed
  /\ calls' = Freed
  /\ output' = Append(output, TimeLine)
  /\ status' = reason
  /\ UNCHANGED <<code, mem, p, pc, input>>

\* Store value in the current cell and go on.
Store(value) ==
  /\ mem' = [mem EXCEPT ![p] = value]
  /\ pc' = pc + 1
  /\ UNCHANGED <<code, p, lambdas, calls, status>>

AddSub ==
  /\ At({"op_add", "op_sub"})
  /\ OnTape(p)
  /\ Store(CellPlus(mem[p], IF code[pc + 1].op = "op_add" THEN num ELSE -num))
  /\ UNCHANGED stdio

Clear ==
  /\ At({"op_clear"})
  /\ OnTape(p)
  /\ Store(0)
  /\ UNCHANGED stdio

\* The pointer may leave the tape: only an access there is undefined.
MovePtr ==
  /\ At({"op_addp", "op_subp"})
  /\ p' = PtrPlus(p, IF code[pc + 1].op = "op_addp" THEN num ELSE -num)
  /\ pc' = pc + 1
  /\ UNCHANGED <<code, mem, lambdas, calls, stdio, status>>

Jump_Once ==    \* Bug: op_jt never jumps.
  /\ At({"op_jt", "op_jf"})
  /\ OnTape(p)
  /\ pc' = IF code[pc + 1].op = "op_jf" /\ mem[p] = 0 THEN num ELSE pc + 1
  /\ UNCHANGED <<code, tape, lambdas, calls, stdio, status>>

Jump ==
  /\ At({"op_jt", "op_jf"})
  /\ OnTape(p)
  /\ pc' = IF (code[pc + 1].op = "op_jt") = (mem[p] # 0) THEN num ELSE pc + 1
  /\ UNCHANGED <<code, tape, lambdas, calls, stdio, status>>

In ==
  /\ At({"op_in"})
  /\ OnTape(p)
  /\ \/ /\ input # << >>
        /\ Store(Head(input))
        /\ input' = Tail(input)
     \/ /\ input = << >>
        /\ Store(EOF)
        /\ input' = input
  /\ output' = output

Out ==
  /\ At({"op_out"})
  /\ OnTape(p)
  /\ Len(output) < MaxOutput
  /\ output' = Append(output, mem[p])
  /\ pc' = pc + 1
  /\ UNCHANGED <<code, tape, lambdas, calls, input, status>>

\* An access off the tape: what follows is anyone's guess.
OffTape ==
  /\ At({"op_add", "op_sub", "op_clear", "op_jt", "op_jf", "op_in", "op_out"})
  /\ ~OnTape(p)
  /\ status' = "undefined"
  /\ UNCHANGED <<code, tape, pc, lambdas, calls, stdio>>

AfterBody_Falls == pc + 1     \* Bug: the body runs when it is defined.

AfterBody_Short == num - 1    \* Bug: the jump lands on the op_ret.

\* C index of the opcode after the body defined at pc.
AfterBody == num

DefLambda ==
  /\ At({"op_def_lambda"})
  /\ Len(lambdas.data) < MaxFrames
  /\ \/ /\ lambdas' = Pushed(lambdas, [start_pc |-> pc + 1, captured_p |-> p])
        /\ pc' = AfterBody
        /\ UNCHANGED <<code, tape, calls, stdio, status>>
     \/ PushCanFail(lambdas) /\ Stop("stack_oom")

Frame_SamePc == [return_pc |-> pc, saved_p |-> p]    \* Bug: + 1 is missing.

Frame == [return_pc |-> pc + 1, saved_p |-> p]

Call ==
  /\ At({"op_call"})
  /\ Len(calls.data) < MaxFrames
  /\ \/ /\ ~IsEmpty(lambdas)
        /\ calls' = Pushed(calls, Frame)
        /\ pc' = Top(lambdas).start_pc
        /\ p' = Top(lambdas).captured_p
        /\ UNCHANGED <<code, mem, lambdas, stdio, status>>
     \/ ~IsEmpty(lambdas) /\ PushCanFail(calls) /\ Stop("stack_oom")
     \/ IsEmpty(lambdas) /\ Stop("call_without_lambda")

Ret ==
  /\ At({"op_ret"})
  /\ IF IsEmpty(calls)
     THEN Stop("ret_without_call")
     ELSE /\ calls' = Popped(calls)
          /\ pc' = Top(calls).return_pc
          /\ p' = Top(calls).saved_p
          /\ UNCHANGED <<code, mem, lambdas, stdio, status>>

Halt ==
  /\ status = "running" /\ pc >= Len(code)
  /\ Stop("halted")

Next ==
  \/ AddSub \/ Clear \/ MovePtr \/ Jump \/ In \/ Out \/ OffTape
  \/ DefLambda \/ Call \/ Ret \/ Halt

Spec == Init /\ [][Next]_vars

\* Nothing but stdin can block the loop, and stdin is assumed to answer.
FairSpec == Spec /\ WF_vars(Next)
-----------------------------------------------------------------------------
TypeOK ==
  /\ code \in Seq(Opcode)
  /\ mem \in [0 .. (TapeSize - 1) -> Byte]
  /\ p \in 0 .. (PtrMod - 1)
  /\ pc \in 0 .. Len(code)
  /\ lambdas \in ArrayOf(Lambda)
  /\ calls \in ArrayOf(CallFrame)
  /\ input \in Seq(Byte) /\ output \in Seq(Byte \cup {TimeLine})
  /\ status \in {"running", "halted", "undefined"} \cup Errors

(***************************************************************************)
(* The call stack mirrors the code being run: there is a frame exactly     *)
(* while pc is inside a lambda body, the outermost frame returns to code   *)
(* outside every body, and every other frame to code inside one.  So no    *)
(* op_ret finds the stack empty and no body runs off the end of the code.  *)
(***************************************************************************)
FramesMatchCode ==
  status = "running" =>
    /\ ~IsEmpty(calls) <=> InBody(code, pc + 1)
    /\ \A k \in DOMAIN calls.data :
         InBody(code, calls.data[k].return_pc) <=> k > 1

ReturnsAreMatched == status # "ret_without_call"

(***************************************************************************)
(* A call and a return may lead out of a loop body.  Any other step that   *)
(* does is that of the loop's own ']': it finds the current cell at zero   *)
(* and goes to the opcode after it, whatever loops and bodies are inside.  *)
(***************************************************************************)
LoopsExitOnZero ==
  [][\A a \in DOMAIN code :
       /\ code[a].op = "op_jf"
       /\ pc \in a .. (code[a].num - 1) /\ pc' \notin (a - 1) .. (code[a].num - 1)
       /\ code[pc + 1].op \notin {"op_call", "op_ret"}
       => pc = code[a].num - 1 /\ pc' = code[a].num /\ mem[p] = 0]_vars

\* Code with no backward jump, in which no body calls, comes to an end: every
\* call returns to what follows it.
CallsReturn ==
  (\A k \in DOMAIN code :
      code[k].op # "op_jt" /\ (code[k].op = "op_call" => ~InBody(code, k)))
    => <>(status # "running")
=============================================================================
