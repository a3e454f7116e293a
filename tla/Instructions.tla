----------------------------- MODULE Instructions -----------------------------
(***************************************************************************)
(* What the JIT backends emit: an instruction has a name, an operand and a *)
(* length in bytes, and once it is in a JitBuffer the offset of its first  *)
(* byte.  The bytes themselves are left out.                               *)
(***************************************************************************)
EXTENDS Integers, Sequences

Ins(name, arg, len) == [name |-> name, arg |-> arg, len |-> len]

\* Where the first k instructions of template end, from where it begins.
Ends(template) ==
  LET end[k \in 0 .. Len(template)] == IF k = 0 THEN 0 ELSE end[k - 1] + template[k].len
  IN  end

Length(template) == Ends(template)[Len(template)]

\* The instructions of template once they are pushed at offset start.
PlacedAt(template, start) ==
  [k \in DOMAIN template |->
     [at   |-> start + Ends(template)[k - 1],
      name |-> template[k].name, arg |-> template[k].arg, len |-> template[k].len]]
=============================================================================
