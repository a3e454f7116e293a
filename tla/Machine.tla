------------------------------- MODULE Machine -------------------------------
(***************************************************************************)
(* The data a brainfuck program works on, as src/vm.c and the JITs have    *)
(* it: the tape g_bf_mem, the data pointer, stdin and stdout.  What is     *)
(* written to stdout is a sequence of bytes and TimeLines.                 *)
(*                                                                         *)
(* The widths are parameters so that wrapping happens within reach:        *)
(* CellMod is 2^8, PtrMod 2^32 and TapeSize 0x20000 in the code.           *)
(***************************************************************************)
EXTENDS Integers, Sequences

CONSTANTS CellMod, PtrMod, TapeSize

ASSUME MachineAssumption ==
  /\ CellMod \in Nat \ {0, 1}
  /\ TapeSize \in Nat \ {0}
  /\ PtrMod \in Nat /\ PtrMod > TapeSize

Byte == 0 .. (CellMod - 1)

EOF_Wide == -1    \* Bug: the result of getchar() is not narrowed.

\* getchar() at end of file returns -1, of which a cell keeps the low byte.
EOF == (-1) % CellMod

\* The line that interpreter() itself writes to stdout, "interpreter time usage",
\* as one element of the output that no opcode can write.
TimeLine == -1

ZeroTape == [a \in 0 .. (TapeSize - 1) |-> 0]

\* Any other index reads or writes memory that is not the tape: undefined.
OnTape(p) == p \in 0 .. (TapeSize - 1)

\* Arithmetic on a uint8_t cell and on the uint32_t data pointer.
CellPlus(c, n) == (c + n) % CellMod

PtrPlus(p, n) == (p + n) % PtrMod
=============================================================================
