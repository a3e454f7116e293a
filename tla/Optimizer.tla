------------------------------ MODULE Optimizer ------------------------------
(***************************************************************************)
(* optimize() of src/compiler.c: a first pass copies the opcodes, turning  *)
(* every [-] and [+] into one op_clear and recording where each old index  *)
(* went; a second pass sends every jump through that record.               *)
(*                                                                         *)
(* One action is one iteration of a pass (lines 123 and 157).  Every       *)
(* allocation may fail.                                                    *)
(***************************************************************************)
EXTENDS Collapsing, GrowableArray

CONSTANT Inputs     \* the vectors optimize() may be called with

\* main() calls it with what scanner() returned, nothing else.
ASSUME InputsAssumption == Inputs \subseteq MatchedCode

VARIABLES
  inp,      \* in_code->data
  i,        \* C index of the next opcode of in_code (pass 1) or *out_code (pass 2)
  out,      \* *out_code
  map,      \* old_to_new_map from C index 0: << >> when not allocated
  status    \* the pass being run, or how the call returned

vars == <<inp, i, out, map, status>>

NOT_MAPPED == -1

Failures == {"oom", "invalid_index", "lost_target"}

Returned == status \in {"ok"} \cup Failures

-----------------------------------------------------------------------------
Init ==
  /\ inp \in Inputs
  /\ i = 0
  /\ out = Freed
  /\ map = << >>
  /\ status = "entered"

\* Bug: no free before return false.
Fail_KeepsMap(reason) == status' = reason /\ UNCHANGED <<inp, i, out, map>>

\* A failing return frees the map; *out_code stays with the caller as it is.
Fail(reason) ==
  /\ map' = << >>
  /\ status' = reason
  /\ UNCHANGED <<inp, i, out>>

AllocMap ==
  /\ status = "entered"
  /\ \/ /\ map' = [k \in 1 .. (Len(inp) + 1) |-> NOT_MAPPED]
        /\ status' = "pass1"
        /\ UNCHANGED <<inp, i, out>>
     \/ Fail("oom")

\* The three opcodes at C index k are a loop that only adds or subtracts 1.
IsClearLoop_AnyCount(k) ==    \* Bug: num = 1 is not asked for.
  /\ k + 2 < Len(inp)
  /\ inp[k + 1].op = "op_jf" /\ inp[k + 1].num = k + 3
  /\ inp[k + 2].op \in {"op_sub", "op_add"}
  /\ inp[k + 3].op = "op_jt" /\ inp[k + 3].num = k

IsClearLoop(k) ==
  /\ k + 2 < Len(inp)
  /\ inp[k + 1].op = "op_jf" /\ inp[k + 1].num = k + 3
  /\ inp[k + 2].op \in {"op_sub", "op_add"} /\ inp[k + 2].num = 1
  /\ inp[k + 3].op = "op_jt" /\ inp[k + 3].num = k

\* The old opcodes i .. i + taken - 1 become one: only the first is mapped.
Recorded_AfterPush(taken) ==    \* Bug: the index is read after the push.
  [k \in DOMAIN map |->
     CASE k = i + 1                    -> Len(out.data) + 1
       [] k \in (i + 2) .. (i + taken) -> NOT_MAPPED
       [] OTHER                        -> map[k]]

Recorded(taken) ==
  [k \in DOMAIN map |->
     CASE k = i + 1                    -> Len(out.data)
       [] k \in (i + 2) .. (i + taken) -> NOT_MAPPED
       [] OTHER                        -> map[k]]

\* Append op for those opcodes.
Emit(op, taken) ==
  \/ /\ out' = Pushed(out, op)
     /\ map' = Recorded(taken)
     /\ i' = i + taken
     /\ UNCHANGED <<inp, status>>
  \/ /\ PushCanFail(out)
     /\ Fail("oom")

CollapseClear_SkipsFour ==    \* Bug: the for loop's ++i is forgotten.
  /\ status = "pass1" /\ i < Len(inp)
  /\ IsClearLoop(i)
  /\ Emit(Op("op_clear", 0), 4)

CollapseClear ==
  /\ status = "pass1" /\ i < Len(inp)
  /\ IsClearLoop(i)
  /\ Emit(Op("op_clear", 0), 3)

CopyOp ==
  /\ status = "pass1" /\ i < Len(inp)
  /\ ~IsClearLoop(i)
  /\ Emit(inp[i + 1], 1)

\* The end of the old code maps to the end of the new one.
EndPass1_NoEnd ==    \* Bug: line 155 is missing.
  /\ status = "pass1" /\ i >= Len(inp)
  /\ i' = 0 /\ status' = "pass2"
  /\ UNCHANGED <<inp, out, map>>

EndPass1 ==
  /\ status = "pass1" /\ i >= Len(inp)
  /\ map' = [map EXCEPT ![Len(inp) + 1] = Len(out.data)]
  /\ i' = 0
  /\ status' = "pass2"
  /\ UNCHANGED <<inp, out>>

IsJump_OnlyForward(op) == op.op = "op_jf"    \* Bug: op_jt is forgotten.

IsJump(op) == op.op \in {"op_jf", "op_jt"}

\* Pass 2 at C index i of *out_code: a jump gets its new target, or the call
\* fails; any other opcode, op_def_lambda included, stays as it is.
Remap ==
  /\ status = "pass2" /\ i < Len(out.data)
  /\ IsJump(out.data[i + 1])
  /\ LET old == out.data[i + 1].num
     IN  IF old >= Len(map) THEN Fail("invalid_index")
         ELSE IF map[old + 1] = NOT_MAPPED THEN Fail("lost_target")
         ELSE /\ out' = [out EXCEPT !.data[i + 1].num = map[old + 1]]
              /\ i' = i + 1
              /\ UNCHANGED <<inp, map, status>>

KeepOp_NoAdvance ==    \* Bug: continue in a while loop.
  /\ status = "pass2" /\ i < Len(out.data)
  /\ ~IsJump(out.data[i + 1])
  /\ UNCHANGED vars

KeepOp ==
  /\ status = "pass2" /\ i < Len(out.data)
  /\ ~IsJump(out.data[i + 1])
  /\ i' = i + 1
  /\ UNCHANGED <<inp, out, map, status>>

Return ==
  /\ status = "pass2" /\ i >= Len(out.data)
  /\ map' = << >>
  /\ status' = "ok"
  /\ UNCHANGED <<inp, i, out>>

Next == AllocMap \/ CollapseClear \/ CopyOp \/ EndPass1 \/ Remap \/ KeepOp \/ Return

Spec == Init /\ [][Next]_vars

\* Sequential code that nothing blocks keeps running.
FairSpec == Spec /\ WF_vars(Next)
-----------------------------------------------------------------------------
TypeOK ==
  /\ inp \in MatchedCode
  /\ i \in 0 .. Len(inp)
  /\ out \in ArrayOf(Opcode)
  /\ map \in Seq(Nat \cup {NOT_MAPPED})
  /\ status \in {"entered", "pass1", "pass2", "ok"} \cup Failures

\* The opcode at C index k is the second or third of a loop turned into op_clear.
Swallowed(k) == \E s \in {k - 2, k - 1} : s >= 0 /\ IsClearLoop(s)

(***************************************************************************)
(* The map records exactly the old indexes passed so far that still have   *)
(* an opcode of their own, and the new index of such an opcode is the      *)
(* number of those before it.                                              *)
(***************************************************************************)
Passed(k) == status = "pass2" \/ k < i

MapIsExact ==
  status \in {"pass1", "pass2"} =>
    /\ Len(map) = Len(inp) + 1
    /\ status = "pass1" /\ i < Len(inp) => ~Swallowed(i)
    /\ \A k \in 0 .. Len(inp) :
         IF Passed(k) /\ ~Swallowed(k)
         THEN map[k + 1] = Cardinality({m \in 0 .. (k - 1) : ~Swallowed(m)})
         ELSE map[k + 1] = NOT_MAPPED

\* Collapsing loops never removes an opcode some jump goes to: neither error
\* of the second pass (lines 162 and 173) can happen on scanner()'s output.
TargetsSurvive == status \notin {"invalid_index", "lost_target"}

\* The jumps of the optimised vector are as consistent as those of the input.
ResultIsMatched == status = "ok" => Matched(out.data)

\* optimize() returns the input with its clear loops collapsed and its jumps
\* following, and nothing else changed.
ResultIsOptimised == status = "ok" => out.data = Optimised(inp)

\* On every return the map has been freed (lines 138, 150, 166, 178, 185).
MapIsFreed == Returned => map = << >>

\* optimize() returns, whatever the input and whichever allocation fails.
Terminates == <>Returned
=============================================================================
