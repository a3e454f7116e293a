----------------------------- MODULE Collapsing ------------------------------
(***************************************************************************)
(* What optimize() promises, without a map or a pass: the vector in which  *)
(* every [-] and [+] has become one op_clear.  The reference that the      *)
(* models of the code are compared with, not a model of code.              *)
(***************************************************************************)
EXTENDS Opcodes, FiniteSets

ClearLoopAt(c, k) ==
  /\ k >= 0 /\ k + 2 < Len(c)
  /\ c[k + 1].op = "op_jf"
  /\ c[k + 2] \in {Op("op_add", 1), Op("op_sub", 1)}
  /\ c[k + 3].op = "op_jt"

\* The C indexes below n whose opcode keeps a place of its own.
Kept(c, n) ==
  {k \in 0 .. (n - 1) : ~ClearLoopAt(c, k - 1) /\ ~ClearLoopAt(c, k - 2)}

\* Where the opcode at C index k, or the end, has moved to.
NewIndex(c, k) == Cardinality(Kept(c, k))

\* C index in c of the opcode at C index k of the optimised vector.
OldIndex(c, k) ==
  CHOOSE n \in 0 .. Len(c) : n \in Kept(c, Len(c) + 1) /\ NewIndex(c, n) = k

\* What the opcode at C index k becomes: its loop's op_clear, a jump to where
\* its target has moved, or itself.
Final(c, k) ==
  LET op == c[k + 1]
  IN  IF ClearLoopAt(c, k) THEN Op("op_clear", 0)
      ELSE IF op.op \in {"op_jf", "op_jt"} THEN [op EXCEPT !.num = NewIndex(c, @)]
      ELSE op

Optimised(c) ==
  [t \in 1 .. NewIndex(c, Len(c)) |-> Final(c, OldIndex(c, t - 1))]
=============================================================================
