-------------------------------- MODULE Texts --------------------------------
(***************************************************************************)
(* Brainfuck source texts, as sequences of one-character strings: which    *)
(* of them are programs, and the opcode vector of a program, stated        *)
(* without a stack or a loop.  This is the reference that the models of    *)
(* the code are compared with, not a model of code.                        *)
(***************************************************************************)
EXTENDS Opcodes, FiniteSets

runs    == {"+", "-", ">", "<"}
singles == {"[", "]", ",", "."}

OpFor == [ch \in runs \cup {",", "."} |->
            CASE ch = "+" -> "op_add"  [] ch = "-" -> "op_sub"
              [] ch = ">" -> "op_addp" [] ch = "<" -> "op_subp"
              [] ch = "," -> "op_in"   [] ch = "." -> "op_out"]

Count(s, ch, n) == Cardinality({k \in 1 .. n : s[k] = ch})

\* Loops open after the first n characters.
Depth(s, n) == Count(s, "[", n) - Count(s, "]", n)

NeverNegative(s) == \A n \in 1 .. Len(s) : Depth(s, n) >= 0

IsProgram(s) == NeverNegative(s) /\ Depth(s, Len(s)) = 0

\* Positions where an opcode begins: every single command, and every first
\* character of a run.
Starts(s) ==
  {k \in 1 .. Len(s) :
     \/ s[k] \in singles
     \/ s[k] \in runs /\ (k > 1 => s[k - 1] # s[k])}

\* C index of the opcode that begins at position k.
IndexOf(s, k) == Cardinality({j \in Starts(s) : j < k})

RunLength(s, k) ==
  Cardinality({n \in k .. Len(s) : \A j \in k .. n : s[j] = s[k]})

\* The bracket that closes, or opens, the loop of position k.
Closer(s, k) ==
  CHOOSE m \in (k + 1) .. Len(s) :
    /\ s[m] = "]" /\ Depth(s, m) = Depth(s, k) - 1
    /\ \A j \in k .. (m - 1) : Depth(s, j) >= Depth(s, k)

Opener(s, m) == CHOOSE k \in 1 .. (m - 1) : s[k] = "[" /\ Closer(s, k) = m

OpcodeAt(s, k) ==
  CASE s[k] = "["          -> Op("op_jf", IndexOf(s, Closer(s, k)) + 1)
    [] s[k] = "]"          -> Op("op_jt", IndexOf(s, Opener(s, k)))
    [] s[k] \in {",", "."} -> Op(OpFor[s[k]], 0)
    [] OTHER               -> Op(OpFor[s[k]], RunLength(s, k))

Translate(s) ==
  [t \in 1 .. Cardinality(Starts(s)) |->
     OpcodeAt(s, CHOOSE k \in Starts(s) : IndexOf(s, k) = t - 1)]

\* Every text over chars of at most max characters, and the programs among them.
TextsOver(chars, max) == UNION {[1 .. n -> chars] : n \in 0 .. max}

ProgramsOver(chars, max) == {s \in TextsOver(chars, max) : IsProgram(s)}
=============================================================================
