---------------------------- MODULE SourceMachine ----------------------------
(***************************************************************************)
(* What a brainfuck text means, one command at a time and with no opcodes: *)
(* the abstract specification of scanner(), optimize() and a way of        *)
(* running taken together, not a model of code.  One step of an            *)
(* implementation may stand for several commands.                          *)
(***************************************************************************)
EXTENDS Texts, Machine

CONSTANTS Sources, Inputs, MaxBurst

VARIABLES text, pos, p, mem, input, output

machine == [pos |-> pos, p |-> p, mem |-> mem, input |-> input, output |-> output]

\* The first command of s at or after position k; past the end if there is none.
CommandFrom(s, k) ==
  CHOOSE n \in 1 .. (Len(s) + 1) :
    /\ n >= k /\ (n <= Len(s) => s[n] \in runs \cup singles)
    /\ \A j \in k .. (n - 1) : s[j] \notin runs \cup singles

Start(s, in) ==
  [pos |-> CommandFrom(s, 1), p |-> 0, mem |-> ZeroTape, input |-> in, output |-> << >>]

Over(s, m) == m.pos > Len(s)

Write(m, value) == [m EXCEPT !.mem[m.p] = value]

\* The command at m.pos.  One that reads or writes off the tape has no meaning.
Step(s, m) ==
  LET ch   == s[m.pos]
      cell == m.mem[m.p]
      then == [m EXCEPT !.pos = CommandFrom(s, m.pos + 1)]
  IN  CASE Over(s, m) -> m
        [] ~Over(s, m) /\ ch \in {">", "<"} ->
             [then EXCEPT !.p = PtrPlus(m.p, IF ch = ">" THEN 1 ELSE -1)]
        [] ~Over(s, m) /\ ch \notin {">", "<"} /\ ~OnTape(m.p) -> m
        [] OTHER ->
             CASE ch = "+" -> Write(then, CellPlus(cell, 1))
               [] ch = "-" -> Write(then, CellPlus(cell, -1))
               [] ch = "." -> [then EXCEPT !.output = Append(m.output, cell)]
               [] ch = "," -> IF m.input = << >> THEN Write(then, EOF)
                              ELSE [Write(then, Head(m.input)) EXCEPT !.input = Tail(m.input)]
               [] ch = "[" -> IF cell # 0 THEN then
                              ELSE [m EXCEPT !.pos = CommandFrom(s, Closer(s, m.pos) + 1)]
               [] ch = "]" -> IF cell = 0 THEN then ELSE [m EXCEPT !.pos = Opener(s, m.pos)]

\* What m becomes in at most n commands, m included.
Within(s, m, n) ==
  LET within[k \in 0 .. n] ==
        IF k = 0 THEN {m} ELSE {m} \cup {Step(s, w) : w \in within[k - 1]}
  IN  within[n]

-----------------------------------------------------------------------------
Init ==
  /\ text \in Sources
  /\ \E in \in Inputs : machine = Start(text, in)

Next ==
  /\ text' = text
  /\ machine' \in Within(text, machine, MaxBurst)

Spec == Init /\ [][Next]_<<text, machine>>
=============================================================================
