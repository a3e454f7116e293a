------------------------------- MODULE Opcodes -------------------------------
(***************************************************************************)
(* The instruction set of include/brainfork.h, shared by every component,  *)
(* and what it means for the jumps of an opcode vector to be consistent.   *)
(*                                                                         *)
(* A C array is a sequence here: the element at C index k is data[k + 1].  *)
(* Jump targets keep their C value (an index counted from 0).              *)
(***************************************************************************)
EXTENDS Integers, Sequences

OpType == {"op_add", "op_sub", "op_addp", "op_subp", "op_jt", "op_jf",
           "op_in", "op_out", "op_clear", "op_def_lambda", "op_ret", "op_call"}

Opcode == [op : OpType, num : Nat]

Op(type, num) == [op |-> type, num |-> num]

-----------------------------------------------------------------------------
(***************************************************************************)
(* Positions a < b of code hold a '[' and the ']' that closes it: the '['  *)
(* carries the C index after the ']' and the ']' the C index of the '['.   *)
(***************************************************************************)
Paired(code, a, b) ==
  /\ code[a].op = "op_jf" /\ code[a].num = b
  /\ code[b].op = "op_jt" /\ code[b].num = a - 1

OpensPaired(code, pending) ==
  \A a \in DOMAIN code \ pending :
     code[a].op = "op_jf" =>
        code[a].num \in (a + 1) .. Len(code) /\ Paired(code, a, code[a].num)

ClosesPaired(code) ==
  \A b \in DOMAIN code :
     code[b].op = "op_jt" =>
        code[b].num + 1 \in 1 .. (b - 1) /\ Paired(code, code[b].num + 1, b)

\* Two loops are disjoint or one lies inside the other.
LoopsNest(code) ==
  \A a, c \in DOMAIN code :
     /\ code[a].op = "op_jf" /\ code[c].op = "op_jf"
     /\ a < c /\ c < code[a].num
     => code[c].num < code[a].num

\* Every bracket is paired with exactly one other, and loops nest.
Matched(code) ==
  OpensPaired(code, {}) /\ ClosesPaired(code) /\ LoopsNest(code)

MatchedCode == {code \in Seq(Opcode) : Matched(code)}

-----------------------------------------------------------------------------
(***************************************************************************)
(* Vectors that keep the promise of the comments in include/brainfork.h    *)
(* and src/vm.c:64-90: besides matched loops, every op_def_lambda carries  *)
(* the index after the op_ret that ends its body and no other, and loops   *)
(* and bodies nest.                                                        *)
(***************************************************************************)
Defs(c) == {a \in DOMAIN c : c[a].op = "op_def_lambda"}

Body(c, a) == (a + 1) .. c[a].num

InBody(c, k) == \E a \in Defs(c) : k \in Body(c, a)

Blocks(c) ==
  {a .. c[a].num : a \in {b \in DOMAIN c : c[b].op \in {"op_jf", "op_def_lambda"}}}

WellFormed(c) ==
  /\ Matched(c)
  /\ \A a \in Defs(c) : /\ c[a].num \in (a + 1) .. Len(c)
                        /\ c[c[a].num].op = "op_ret"
  /\ \A a, b \in Defs(c) : c[a].num = c[b].num => a = b
  /\ \A r \in DOMAIN c :
        c[r].op = "op_ret" => \E a \in Defs(c) : c[a].num = r
  /\ \A B, C \in Blocks(c) : B \cap C = {} \/ B \subseteq C \/ C \subseteq B
=============================================================================
