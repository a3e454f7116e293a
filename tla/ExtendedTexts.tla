---------------------------- MODULE ExtendedTexts ----------------------------
(***************************************************************************)
(* Texts of the README's extended syntax, and the opcode vectors they      *)
(* stand for: what the documents and the opcodes' comments promise, which  *)
(* scanner() does not do.  A reference, not a model of code.               *)
(***************************************************************************)
EXTENDS Texts

(***************************************************************************)
(* A text of the README's extended syntax stands for the vector with one   *)
(* opcode per character whose jumps are those of the opcodes' comments.    *)
(***************************************************************************)
Opens  == {"[", "("}
Closes == {"]", ")"}

Level(s, n) == Cardinality({k \in 1 .. n : s[k] \in Opens})
               - Cardinality({k \in 1 .. n : s[k] \in Closes})

\* The bracket that closes the one at k.
Partner(s, k) ==
  CHOOSE m \in (k + 1) .. Len(s) :
    Level(s, m) < Level(s, k) /\ \A j \in k .. (m - 1) : Level(s, j) >= Level(s, k)

IsExtended(s) ==
  /\ \A n \in 1 .. Len(s) : Level(s, n) >= 0
  /\ Level(s, Len(s)) = 0
  /\ \A k \in 1 .. Len(s) :
       /\ s[k] = "[" => s[Partner(s, k)] = "]"
       /\ s[k] = "(" => s[Partner(s, k)] = ")"

Extended(s) ==
  [k \in 1 .. Len(s) |->
     CASE s[k] = "[" -> Op("op_jf", Partner(s, k))
       [] s[k] = "]" -> Op("op_jt", (CHOOSE a \in 1 .. k : s[a] = "[" /\ Partner(s, a) = k) - 1)
       [] s[k] = "(" -> Op("op_def_lambda", Partner(s, k))
       [] s[k] = ")" -> Op("op_ret", 0)
       [] s[k] = "!" -> Op("op_call", 0)
       [] s[k] = "0" -> Op("op_clear", 0)
       [] s[k] \in {",", "."} -> Op(OpFor[s[k]], 0)
       [] OTHER      -> Op(OpFor[s[k]], 1)]

\* The vectors of every such text over chars of at most max characters.
ExtendedOver(chars, max) == {Extended(t) : t \in {s \in TextsOver(chars, max) : IsExtended(s)}}
=============================================================================
