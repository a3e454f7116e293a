------------------------------- MODULE Scanner -------------------------------
(***************************************************************************)
(* scanner() of src/compiler.c: one left-to-right pass over the source     *)
(* text that run-length encodes + - < >, and resolves brackets with a      *)
(* stack of the '[' still open, patching each '[' when its ']' arrives.    *)
(*                                                                         *)
(* A source text is a sequence of one-character strings.  One action is    *)
(* one iteration of the loop at line 15.  Every realloc may fail.          *)
(***************************************************************************)
EXTENDS Opcodes, GrowableArray

CONSTANT Sources     \* the texts scanner() may be called with

ASSUME SourcesAssumption == Sources \subseteq Seq(STRING)

VARIABLES
  src,      \* the argument s
  i,        \* C index of the next character
  code,     \* the local OpcodeVector being built
  stk,      \* the local SizeTStack: C indexes in code of the '[' still open
  out,      \* *out_code, the caller's vector
  status    \* "scanning", or how the call returned

vars == <<src, i, code, stk, out, status>>

RunCommands    == {"+", "-", ">", "<"}
SingleCommands == {"[", "]", ",", "."}
Commands       == RunCommands \cup SingleCommands

\* The case labels of the switch for the commands that carry no jump.
OpOf(ch) ==
  CASE ch = "+" -> "op_add"
    [] ch = "-" -> "op_sub"
    [] ch = ">" -> "op_addp"
    [] ch = "<" -> "op_subp"
    [] ch = "," -> "op_in"
    [] ch = "." -> "op_out"

Failures == {"unmatched_close", "unmatched_open", "oom"}

-----------------------------------------------------------------------------
Init ==
  /\ src \in Sources
  /\ i = 0
  /\ code = Freed
  /\ stk = Freed
  /\ out = Freed
  /\ status = "scanning"

\* There is a next character, "cmd" in the loop body.
Reading == status = "scanning" /\ i < Len(src)

Cmd == src[i + 1]

\* The label "error": both locals are freed and the caller's vector is untouched.
Fail(reason) ==
  /\ code' = Freed
  /\ stk' = Freed
  /\ status' = reason
  /\ UNCHANGED <<src, out>>

\* Append op to the (possibly just patched) vector and leave the stack as s.
Emit(vector, s, op) ==
  \/ /\ code' = Pushed(vector, op)
     /\ stk' = s
     /\ UNCHANGED <<src, out, status>>
  \/ /\ PushCanFail(vector)
     /\ Fail("oom")

\* Bug: the index also advances in a loop header.
SkipComment_Twice ==
  /\ Reading /\ Cmd \notin Commands
  /\ i' = i + 2 /\ UNCHANGED <<src, code, stk, out, status>>

\* Bug: continue before ++i.
SkipComment_Never ==
  /\ Reading /\ Cmd \notin Commands
  /\ UNCHANGED vars

\* Anything but the eight commands is a comment, the letters ( ) ! included.
SkipComment ==
  /\ Reading
  /\ Cmd \notin Commands
  /\ i' = i + 1
  /\ UNCHANGED <<src, code, stk, out, status>>

\* cnt is the length of the run of equal characters that starts at i.
IsRun(cnt) ==
  /\ \A k \in 1 .. cnt : src[i + k] = Cmd
  /\ i + cnt < Len(src) => src[i + cnt + 1] # Cmd

\* Bug: the run is not counted.
ScanRun_One ==
  /\ Reading /\ Cmd \in RunCommands
  /\ i' = i + 1 /\ Emit(code, stk, Op(OpOf(Cmd), 1))

ScanRun ==
  /\ Reading
  /\ Cmd \in RunCommands
  /\ \E cnt \in 1 .. (Len(src) - i) :
       /\ IsRun(cnt)
       /\ i' = i + cnt
       /\ Emit(code, stk, Op(OpOf(Cmd), cnt))

\* ',' and '.' are never merged: cnt is 1, so the loops at lines 74 and 80 are empty.
ScanIO ==
  /\ Reading
  /\ Cmd \in {",", "."}
  /\ i' = i + 1
  /\ Emit(code, stk, Op(OpOf(Cmd), 0))

\* '[' is pushed with a placeholder target; its own index goes on the stack first.
ScanOpen ==
  /\ Reading
  /\ Cmd = "["
  /\ i' = i + 1
  /\ \/ Emit(code, Pushed(stk, Len(code.data)), Op("op_jf", 0))
     \/ PushCanFail(stk) /\ Fail("oom")

\* Emit the ']' that closes the '[' at C index jf_idx, patching that '[' to
\* jump to target, and leave the stack as rest.
Close_NoPop(jf_idx, target, rest) ==    \* Bug: SizeTStack_pop is missing.
  Emit([code EXCEPT !.data[jf_idx + 1].num = target], stk, Op("op_jt", jf_idx))

Close_OffByOne(jf_idx, target, rest) == \* Bug: '[' jumps to ']', not after it.
  Emit([code EXCEPT !.data[jf_idx + 1].num = target - 1], rest, Op("op_jt", jf_idx))

Close_Outermost(jf_idx, target, rest) == \* Bug: the wrong end of the stack is patched.
  Emit([code EXCEPT !.data[stk.data[1] + 1].num = target], rest, Op("op_jt", jf_idx))

Close(jf_idx, target, rest) ==
  Emit([code EXCEPT !.data[jf_idx + 1].num = target], rest, Op("op_jt", jf_idx))

\* ']' pops the '[' it closes, jumps back to it, and patches the placeholder
\* of that '[' to the index after this ']'.
ScanClose ==
  /\ Reading
  /\ Cmd = "]"
  /\ i' = i + 1
  /\ \/ /\ IsEmpty(stk)
        /\ Fail("unmatched_close")
     \/ /\ ~IsEmpty(stk)
        /\ Close(Top(stk), Len(code.data) + 1, Popped(stk))

HandOver == out' = code /\ code' = Freed /\ status' = "ok" /\ UNCHANGED src

Finish_Unchecked ==    \* Bug: a '[' left open is not an error.
  /\ status = "scanning" /\ i >= Len(src)
  /\ i' = i /\ HandOver /\ stk' = Freed

Finish_Leaks ==        \* Bug: SizeTStack_free is missing on success.
  /\ status = "scanning" /\ i >= Len(src)
  /\ i' = i
  /\ \/ ~IsEmpty(stk) /\ Fail("unmatched_open")
     \/ IsEmpty(stk) /\ HandOver /\ stk' = stk

\* After the last character: a '[' still open is an error, otherwise the
\* vector moves to the caller and the stack is freed.
Finish ==
  /\ status = "scanning"
  /\ i >= Len(src)
  /\ i' = i
  /\ \/ /\ ~IsEmpty(stk)
        /\ Fail("unmatched_open")
     \/ /\ IsEmpty(stk)
        /\ HandOver
        /\ stk' = Freed

Next == SkipComment \/ ScanRun \/ ScanIO \/ ScanOpen \/ ScanClose \/ Finish

Spec == Init /\ [][Next]_vars

\* The loop is sequential code that nothing blocks: it keeps running.
FairSpec == Spec /\ WF_vars(Next)

-----------------------------------------------------------------------------
TypeOK ==
  /\ src \in Seq(STRING)
  /\ i \in 0 .. Len(src)
  /\ code \in ArrayOf(Opcode)
  /\ stk \in ArrayOf(Nat)
  /\ out \in ArrayOf(Opcode)
  /\ status \in {"scanning", "ok"} \cup Failures

\* Positions in code.data of the '[' the stack says are open.
Pending == {stk.data[d] + 1 : d \in DOMAIN stk.data}

(***************************************************************************)
(* The stack lists, innermost last, exactly the '[' already emitted whose  *)
(* target is still the placeholder 0; every other bracket emitted so far   *)
(* is paired, and no open '[' lies inside a loop that is already closed.   *)
(***************************************************************************)
StackIsTheOpenLoops ==
  /\ \A d, e \in DOMAIN stk.data : d < e => stk.data[d] < stk.data[e]
  /\ Pending = {a \in DOMAIN code.data : code.data[a] = Op("op_jf", 0)}

PrefixIsMatched ==
  /\ OpensPaired(code.data, Pending)
  /\ ClosesPaired(code.data)
  /\ \A a, c \in DOMAIN code.data :
        /\ code.data[a].op = "op_jf" /\ code.data[c].op = "op_jf"
        /\ a < c /\ c < code.data[a].num
        => c \notin Pending /\ code.data[c].num < code.data[a].num

\* What scanner() returns with true is a vector whose every bracket is paired
\* with exactly one other and whose loops nest; on failure it returns nothing.
ResultIsMatched ==
  /\ status = "ok" => Matched(out.data)
  /\ status # "ok" => out = Freed

\* Every return path has freed the stack and has freed or handed over the
\* vector: nothing scanner() allocated is left without an owner.
NothingLeaks == status # "scanning" => code = Freed /\ stk = Freed

(***************************************************************************)
(* An opcode already emitted is final, except that the placeholder of a    *)
(* '[' is replaced, once, by the index just after the ']' emitted in the   *)
(* same step.                                                              *)
(***************************************************************************)
EmittedIsFinal ==
  [][status' = "scanning" =>
       \A k \in DOMAIN code.data :
          \/ code'.data[k] = code.data[k]
          \/ /\ code.data[k] = Op("op_jf", 0)
             /\ code'.data[k] = Op("op_jf", Len(code'.data))
             /\ code'.data[Len(code'.data)] = Op("op_jt", k - 1)]_vars

\* scanner() returns, whatever the text and whichever allocation fails.
Terminates == <>(status # "scanning")

Reference == INSTANCE Translation WITH out <- out.data

\* Scanning in one pass with a stack returns exactly the reference result:
\* each call of scanner() looks like one step of Translation.
ImplementsTranslation == Reference!Spec
=============================================================================
