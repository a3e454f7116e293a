----------------------------- MODULE Data_proofs ------------------------------
(***************************************************************************)
(* Facts about the data that every component works on, the growable arrays *)
(* of src/util.c and opcode vectors, for the proofs about the components.  *)
(***************************************************************************)
EXTENDS Opcodes, GrowableArray, Instructions, WellFoundedInduction, TLAPS

-----------------------------------------------------------------------------
(* The growable arrays.                                                    *)

\* A freed array is an array over any set.
LEMMA FreedType ==
  ASSUME NEW S
  PROVE  Freed \in ArrayOf(S) /\ Freed.data = << >>
BY DEF Freed, ArrayOf

\* A successful push appends one element and keeps the array well typed.
LEMMA PushedType ==
  ASSUME NEW S, NEW v \in ArrayOf(S), NEW x \in S
  PROVE  /\ Pushed(v, x) \in ArrayOf(S)
         /\ Pushed(v, x).data = Append(v.data, x)
<1>1. NewCapacity(v) \in Nat
  BY InitialCapacityAssumption DEF NewCapacity, ArrayOf
<1>2. Append(v.data, x) \in Seq(S)
  BY DEF ArrayOf
<1>. QED BY <1>1, <1>2 DEF Pushed, ArrayOf

\* A pop removes the last element of a nonempty stack.
LEMMA PoppedType ==
  ASSUME NEW S, NEW v \in ArrayOf(S), ~IsEmpty(v)
  PROVE  /\ Popped(v) \in ArrayOf(S)
         /\ Popped(v).data = SubSeq(v.data, 1, Len(v.data) - 1)
         /\ Len(v.data) \in Nat \ {0}
         /\ Top(v) \in S
<1>1. Len(v.data) \in Nat \ {0}
  BY DEF ArrayOf, IsEmpty
<1>2. SubSeq(v.data, 1, Len(v.data) - 1) \in Seq(S)
  BY <1>1 DEF ArrayOf
<1>3. Popped(v) = [data |-> SubSeq(v.data, 1, Len(v.data) - 1), capacity |-> v.capacity]
  BY SMTT(20) DEF Popped, ArrayOf
<1>4. Popped(v) \in ArrayOf(S)
  <2>1. v.capacity \in Nat
    BY DEF ArrayOf
  <2>2. \A t \in Seq(S), n \in Nat : [data |-> t, capacity |-> n] \in ArrayOf(S)
    BY ONLY DEF ArrayOf
  <2>. QED BY ONLY <1>2, <1>3, <2>1, <2>2
<1>5. Top(v) \in S
  BY <1>1 DEF Top, ArrayOf
<1>. QED BY <1>1, <1>3, <1>4, <1>5

-----------------------------------------------------------------------------
(* Opcode vectors.                                                         *)

\* The fields of an opcode built by Op.
LEMMA OpFields ==
  ASSUME NEW type, NEW num, NEW x, x = Op(type, num)
  PROVE  x.op = type /\ x.num = num
BY DEF Op

\* Changing the operand of one opcode of a vector leaves an opcode vector.
LEMMA PatchedType ==
  ASSUME NEW c \in Seq(Opcode), NEW k \in Int, NEW n \in Nat,
         NEW d, d = [c EXCEPT ![k].num = n]
  PROVE  d \in Seq(Opcode)
<1>1. Len(c) \in Nat /\ DOMAIN c = 1 .. Len(c) /\ c \in [1 .. Len(c) -> Opcode]
  OBVIOUS
<1>2. DOMAIN d = 1 .. Len(c)
  BY <1>1
<1>3. ASSUME NEW j \in 1 .. Len(c)
      PROVE  d[j] \in Opcode
  BY <1>1, <1>3 DEF Opcode
<1>4. d = [j \in 1 .. Len(c) |-> d[j]]
  BY <1>2
<1>5. d \in [1 .. Len(c) -> Opcode]
  BY <1>3, <1>4
<1>. QED BY <1>1, <1>5

\* Replacing one opcode of a vector.
LEMMA ReplacedFields ==
  ASSUME NEW c \in Seq(Opcode), NEW j \in DOMAIN c, NEW x \in Opcode,
         NEW e, e = [c EXCEPT ![j] = x]
  PROVE  /\ e \in Seq(Opcode) /\ Len(e) = Len(c)
         /\ \A k \in DOMAIN c : e[k] = IF k = j THEN x ELSE c[k]
OBVIOUS

\* None of the opcodes of the lambda syntax: what scanner() emits.
Plain(c) == \A k \in DOMAIN c : c[k].op \notin {"op_def_lambda", "op_ret", "op_call"}

\* Appending an opcode to a vector without the lambda opcodes.
LEMMA AppendedIsPlain ==
  ASSUME NEW c \in Seq(Opcode), NEW x \in Opcode,
         Plain(c), x.op \notin {"op_def_lambda", "op_ret", "op_call"}
  PROVE  Plain(Append(c, x))
<1>1. DOMAIN Append(c, x) = 1 .. (Len(c) + 1) /\ DOMAIN c = 1 .. Len(c) /\ Len(c) \in Nat
  OBVIOUS
<1>2. \A k \in 1 .. (Len(c) + 1) : Append(c, x)[k] = IF k = Len(c) + 1 THEN x ELSE c[k]
  OBVIOUS
<1>3. \A k \in 1 .. (Len(c) + 1) : k # Len(c) + 1 => k \in 1 .. Len(c)
  BY <1>1
<1>. QED BY <1>1, <1>2, <1>3 DEF Plain

\* Changing an operand does not change which opcodes there are.
LEMMA PatchedIsPlain ==
  ASSUME NEW c \in Seq(Opcode), NEW k \in Int, NEW n \in Nat,
         NEW d, d = [c EXCEPT ![k].num = n], Plain(c)
  PROVE  Plain(d)
<1>1. DOMAIN d = DOMAIN c
  OBVIOUS
<1>2. ASSUME NEW j \in DOMAIN c PROVE d[j].op = c[j].op
  <2>1. c[j] \in Opcode
    OBVIOUS
  <2>2. d[j] = IF j = k THEN [c[k] EXCEPT !.num = n] ELSE c[j]
    OBVIOUS
  <2>. QED BY <2>1, <2>2 DEF Opcode
<1>. QED BY <1>1, <1>2 DEF Plain

-----------------------------------------------------------------------------
(* Blocks of well-formed code.  Positions count from 1.                    *)

\* A lambda body.
LEMMA BodyShape ==
  ASSUME NEW c \in Seq(Opcode), WellFormed(c), NEW a \in DOMAIN c,
         c[a].op = "op_def_lambda"
  PROVE  /\ c[a].num \in (a + 1) .. Len(c) /\ c[a].num \in DOMAIN c
         /\ c[c[a].num].op = "op_ret"
<1>1. c[a].num \in (a + 1) .. Len(c) /\ c[c[a].num].op = "op_ret"
  BY DEF WellFormed, Defs
<1>. QED BY <1>1

\* A loop.
LEMMA LoopShape ==
  ASSUME NEW c \in Seq(Opcode), WellFormed(c), NEW k \in DOMAIN c
  PROVE  /\ c[k].op = "op_jf" => /\ c[k].num \in (k + 1) .. Len(c)
                                 /\ Paired(c, k, c[k].num)
         /\ c[k].op = "op_jt" => /\ c[k].num + 1 \in 1 .. (k - 1)
                                 /\ Paired(c, c[k].num + 1, k)
<1>1. OpensPaired(c, {}) /\ ClosesPaired(c)
  BY DEF WellFormed, Matched
<1>. QED BY <1>1 DEF OpensPaired, ClosesPaired

\* A jump goes to an opcode, or to the end.
LEMMA JumpTarget ==
  ASSUME NEW c \in Seq(Opcode), WellFormed(c), NEW k \in DOMAIN c,
         c[k].op \in {"op_jf", "op_jt"}
  PROVE  c[k].num \in 0 .. Len(c) /\ c[k].num + 1 \in 1 .. (Len(c) + 1)
<1>1. c[k].op = "op_jf" => c[k].num \in (k + 1) .. Len(c)
  BY LoopShape
<1>2. c[k].op = "op_jt" => c[k].num + 1 \in 1 .. (k - 1)
  BY LoopShape
<1>3. c[k] \in Opcode /\ k \in 1 .. Len(c) /\ Len(c) \in Nat
  OBVIOUS
<1>4. c[k].num \in Nat
  BY <1>3 DEF Opcode
<1>. QED BY <1>1, <1>2, <1>3, <1>4

\* Of two blocks, the one that starts inside the other ends there too.
LEMMA BlocksNest ==
  ASSUME NEW c \in Seq(Opcode), WellFormed(c),
         NEW a \in DOMAIN c, NEW b \in DOMAIN c,
         c[a].op \in {"op_jf", "op_def_lambda"}, c[b].op \in {"op_jf", "op_def_lambda"},
         a < b, b <= c[a].num, b <= c[b].num
  PROVE  c[b].num <= c[a].num
<1>1. a \in Nat /\ b \in Nat /\ c[a].num \in Nat /\ c[b].num \in Nat
  <2>1. a \in Nat /\ b \in Nat /\ c[a] \in Opcode /\ c[b] \in Opcode
    OBVIOUS
  <2>. QED BY <2>1 DEF Opcode
<1>. DEFINE A == a .. c[a].num
            B == b .. c[b].num
<1>2. A \in Blocks(c) /\ B \in Blocks(c)
  BY DEF Blocks
<1>3. A \cap B = {} \/ A \subseteq B \/ B \subseteq A
  <2>. HIDE DEF A, B
  <2>. QED BY <1>2 DEF WellFormed
<1>4. a \in A /\ a \notin B /\ b \in A /\ b \in B /\ c[b].num \in B
  BY <1>1
<1>5. c[b].num \in A
  <2>. HIDE DEF A, B
  <2>. QED BY <1>3, <1>4
<1>. QED BY <1>1, <1>5

\* The operand and the type of the opcode at position k.
LEMMA OpcodeOf ==
  ASSUME NEW c \in Seq(Opcode), NEW k \in DOMAIN c
  PROVE  /\ Len(c) \in Nat /\ DOMAIN c = 1 .. Len(c) /\ k \in Nat
         /\ c[k].num \in Nat /\ c[k].op \in OpType
<1>1. c[k] \in Opcode
  OBVIOUS
<1>. QED BY <1>1 DEF Opcode

\* Going on to the next opcode neither enters nor leaves a body, except at the
\* definition of one and at its end.
LEMMA NextStaysInBody ==
  ASSUME NEW c \in Seq(Opcode), WellFormed(c), NEW k \in DOMAIN c,
         c[k].op \notin {"op_def_lambda", "op_ret"}
  PROVE  InBody(c, k) <=> InBody(c, k + 1)
<1>1. ASSUME NEW a \in Defs(c)
      PROVE  k \in Body(c, a) <=> k + 1 \in Body(c, a)
  <2>1. a \in DOMAIN c /\ c[a].op = "op_def_lambda"
    BY DEF Defs
  <2>2. c[a].num \in (a + 1) .. Len(c) /\ c[c[a].num].op = "op_ret"
    BY <2>1, BodyShape
  <2>3. k # a /\ k # c[a].num
    BY <2>1, <2>2
  <2>. QED BY <2>1, <2>2, <2>3, OpcodeOf DEF Body
<1>. QED BY <1>1 DEF InBody

\* The two brackets of a loop are in the same bodies.
LEMMA LoopStaysInBody ==
  ASSUME NEW c \in Seq(Opcode), WellFormed(c), NEW j \in DOMAIN c, NEW b \in DOMAIN c,
         j < b, Paired(c, j, b)
  PROVE  InBody(c, j) <=> InBody(c, b)
<1>1. c[j].op = "op_jf" /\ c[j].num = b /\ c[b].op = "op_jt"
  BY DEF Paired
<1>2. ASSUME NEW a \in Defs(c)
      PROVE  j \in Body(c, a) <=> b \in Body(c, a)
  <2>1. a \in DOMAIN c /\ c[a].op = "op_def_lambda"
    BY DEF Defs
  <2>2. c[a].num \in (a + 1) .. Len(c) /\ c[c[a].num].op = "op_ret"
    BY <2>1, BodyShape
  <2>3. a # j /\ a # b /\ c[a].num # b /\ a \in Nat /\ j \in Nat /\ b \in Nat /\ c[a].num \in Nat
    BY <1>1, <2>1, <2>2, OpcodeOf
  <2>4. ASSUME a < j, j <= c[a].num
        PROVE  b <= c[a].num
    BY <1>1, <2>1, <2>3, <2>4, BlocksNest
  <2>5. ASSUME j < a, a <= b
        PROVE  c[a].num < b
    BY <1>1, <2>1, <2>2, <2>3, <2>5, BlocksNest
  <2>. QED BY <2>2, <2>3, <2>4, <2>5 DEF Body
<1>. QED BY <1>2 DEF InBody

\* What follows a definition is in its body.
LEMMA BodyStarts ==
  ASSUME NEW c \in Seq(Opcode), WellFormed(c), NEW a \in Defs(c)
  PROVE  InBody(c, a + 1)
<1>1. a \in DOMAIN c /\ c[a].op = "op_def_lambda"
  BY DEF Defs
<1>2. c[a].num \in (a + 1) .. Len(c) /\ a \in Nat /\ c[a].num \in Nat
  BY <1>1, BodyShape, OpcodeOf
<1>3. a + 1 \in Body(c, a)
  BY <1>2 DEF Body
<1>. QED BY <1>3 DEF InBody

\* A jump goes to an opcode of the same bodies, or to the end.
LEMMA JumpStaysInBody ==
  ASSUME NEW c \in Seq(Opcode), WellFormed(c), NEW k \in DOMAIN c,
         c[k].op \in {"op_jf", "op_jt"}
  PROVE  InBody(c, k) <=> InBody(c, c[k].num + 1)
<1>. DEFINE n == c[k].num
<1>1. k \in Nat /\ n \in Nat /\ Len(c) \in Nat /\ DOMAIN c = 1 .. Len(c)
  BY OpcodeOf
<1>2. CASE c[k].op = "op_jf"
  <2>1. n \in DOMAIN c /\ k < n /\ Paired(c, k, n)
    BY <1>1, <1>2, LoopShape
  <2>2. c[n].op = "op_jt"
    BY <2>1 DEF Paired
  <2>. HIDE DEF n
  <2>3. InBody(c, k) <=> InBody(c, n)
    BY <2>1, LoopStaysInBody
  <2>4. InBody(c, n) <=> InBody(c, n + 1)
    BY <2>1, <2>2, NextStaysInBody
  <2>. QED BY <2>3, <2>4 DEF n
<1>3. CASE c[k].op = "op_jt"
  <2>. DEFINE j == n + 1
  <2>1. j \in DOMAIN c /\ j < k /\ Paired(c, j, k)
    BY <1>1, <1>3, LoopShape
  <2>. HIDE DEF j
  <2>2. InBody(c, j) <=> InBody(c, k)
    BY <2>1, LoopStaysInBody
  <2>. QED BY <2>2 DEF j
<1>. QED BY <1>2, <1>3

-----------------------------------------------------------------------------
(* Numbers.                                                                *)

\* A nonempty set of naturals has a least element.
LEMMA LeastElement ==
  ASSUME NEW S \in SUBSET Nat, S # {}
  PROVE  \E least \in S : \A n \in S : least <= n
<1>1. PICK less : less = OpToRel(<, Nat)
  OBVIOUS
<1>2. PICK least \in S : \A n \in S : <<n, least>> \notin less
  <2>1. IsWellFoundedOn(less, Nat)
    BY <1>1, NatLessThanWellFounded
  <2>. QED BY <2>1, WFMin
<1>3. \A m, n \in Nat : m < n => <<m, n>> \in less
  BY <1>1 DEF OpToRel
<1>4. ASSUME NEW n \in S PROVE least <= n
  <2>1. n \in Nat /\ least \in Nat /\ <<n, least>> \notin less
    BY <1>2
  <2>2. ~(n < least)
    BY <1>3, <2>1
  <2>. QED BY <2>1, <2>2
<1>. QED BY <1>4
\* Numbers that grow from each to the next.
LEMMA Increasing ==
  ASSUME NEW n \in Nat, NEW f, \A k \in 1 .. (n + 1) : f[k] \in Nat,
         \A k \in 1 .. n : f[k] < f[k + 1],
         NEW a \in 1 .. (n + 1), NEW b \in 1 .. (n + 1), a < b
  PROVE  f[a] < f[b]
<1>. DEFINE S == {x \in (a + 1) .. (n + 1) : ~(f[a] < f[x])}
<1>. SUFFICES ASSUME S # {} PROVE FALSE
  <2>1. b \in (a + 1) .. (n + 1)
    OBVIOUS
  <2>. QED BY <2>1
<1>1. PICK l \in S : \A x \in S : l <= x
  <2>1. S \in SUBSET Nat
    OBVIOUS
  <2>. HIDE DEF S
  <2>. QED BY <2>1, LeastElement
<1>2. l \in (a + 1) .. (n + 1) /\ ~(f[a] < f[l])
  BY <1>1
<1>3. l # a + 1
  <2>1. a \in 1 .. n
    BY <1>2
  <2>. QED BY <1>2, <2>1
<1>4. l - 1 \in (a + 1) .. (n + 1) /\ ~(l <= l - 1)
  BY <1>2, <1>3
<1>5. f[a] < f[l - 1]
  BY <1>1, <1>4
<1>6. f[l - 1] < f[l]
  <2>1. l - 1 \in 1 .. n /\ (l - 1) + 1 = l
    BY <1>2, <1>3
  <2>. QED BY <2>1
<1>7. f[a] \in Nat /\ f[l - 1] \in Nat /\ f[l] \in Nat
  <2>1. l \in 1 .. (n + 1) /\ l - 1 \in 1 .. (n + 1)
    BY <1>2, <1>3
  <2>. QED BY <2>1
<1>. QED BY <1>2, <1>5, <1>6, <1>7

\* Quotient and remainder.
LEMMA Division ==
  ASSUME NEW m \in Nat \ {0}, NEW a \in Int
  PROVE  a = (m * (a \div m)) + (a % m) /\ a \div m \in Int /\ a % m \in 0 .. (m - 1)
OBVIOUS

LEMMA SmallMultiple ==
  ASSUME NEW m \in Nat \ {0}, NEW x \in Int, m * x < m, m * x > -m
  PROVE  x = 0
<1>1. CASE x >= 1
  <2>1. m * x >= m
    BY <1>1
  <2>. QED BY <2>1
<1>2. CASE x <= -1
  <2>1. m * x <= -m
    BY <1>2
  <2>. QED BY <2>1
<1>. QED BY <1>1, <1>2

\* Numbers that differ by a multiple have the same remainder.
LEMMA SameRemainder ==
  ASSUME NEW m \in Nat \ {0}, NEW a \in Int, NEW b \in Int, NEW k \in Int, a = b + (m * k)
  PROVE  a % m = b % m
<1>. DEFINE q == a \div m
            r == a % m
            u == b \div m
            v == b % m
<1>1. a = (m * q) + r /\ r \in 0 .. (m - 1) /\ q \in Int
  BY Division
<1>2. b = (m * u) + v /\ v \in 0 .. (m - 1) /\ u \in Int
  BY Division
<1>. HIDE DEF q, r, u, v
<1>. DEFINE x == (u + k) - q
<1>3. x \in Int /\ m * x = ((m * u) + (m * k)) - (m * q)
  BY <1>1, <1>2
<1>4. m * x = r - v
  BY <1>1, <1>2, <1>3
<1>. HIDE DEF x
<1>5. m * x < m /\ m * x > -m
  BY <1>1, <1>2, <1>4
<1>6. x = 0
  BY <1>3, <1>5, SmallMultiple
<1>7. m * x = 0
  BY <1>6
<1>8. r = v
  BY <1>1, <1>2, <1>4, <1>7
<1>. QED BY <1>8 DEF r, v

LEMMA SmallRemainder ==
  ASSUME NEW m \in Nat \ {0}, NEW a \in 0 .. (m - 1)
  PROVE  a % m = a
<1>. DEFINE q == a \div m
            r == a % m
<1>1. a = (m * q) + r /\ r \in 0 .. (m - 1) /\ q \in Int
  BY Division
<1>. HIDE DEF q, r
<1>2. m * q = a - r /\ m * q < m /\ m * q > -m
  BY <1>1
<1>3. q = 0
  BY <1>1, <1>2, SmallMultiple
<1>4. m * q = 0
  BY <1>3
<1>5. r = a
  BY <1>1, <1>2, <1>4
<1>. QED BY <1>5 DEF r

\* What is added may be reduced first, and so may what it is added to.
LEMMA SumRemainder ==
  ASSUME NEW m \in Nat \ {0}, NEW a \in Int, NEW b \in Int
  PROVE  (a + (b % m)) % m = (a + b) % m /\ ((a % m) + b) % m = (a + b) % m
<1>. DEFINE q == a \div m
            r == a % m
            u == b \div m
            v == b % m
<1>1. a = (m * q) + r /\ q \in Int /\ r \in Int
  BY Division
<1>2. b = (m * u) + v /\ u \in Int /\ v \in Int
  BY Division
<1>. HIDE DEF q, r, u, v
<1>. DEFINE x == a + v
            y == r + b
            z == a + b
<1>3. x \in Int /\ y \in Int /\ z \in Int /\ z = x + (m * u) /\ z = y + (m * q)
  BY <1>1, <1>2
<1>. HIDE DEF x, y, z
<1>4. z % m = x % m /\ z % m = y % m
  BY <1>1, <1>2, <1>3, SameRemainder
<1>. QED BY <1>4 DEF x, y, z, r, v

LEMMA DifferenceRemainder ==
  ASSUME NEW m \in Nat \ {0}, NEW a \in Int, NEW b \in Int
  PROVE  (a - (b % m)) % m = (a - b) % m
<1>. DEFINE u == b \div m
            v == b % m
<1>1. b = (m * u) + v /\ u \in Int /\ v \in Int
  BY Division
<1>. HIDE DEF u, v
<1>. DEFINE x == a - v
            z == a - b
<1>2. x \in Int /\ z \in Int /\ x = z + (m * u)
  BY <1>1
<1>. HIDE DEF x, z
<1>3. x % m = z % m
  BY <1>1, <1>2, SameRemainder
<1>. QED BY <1>3 DEF x, z, v

-----------------------------------------------------------------------------
(* Emitted code.  N and A are the names and the operands that a backend   *)
(* gives its instructions.                                                 *)

Emission(N, A) == [name : N, arg : A, len : Nat \ {0}]
Emitted(N, A)  == [at : Nat, name : N, arg : A, len : Nat \ {0}]

\* The recursion of Ends has a solution, so Ends is one.
LEMMA EndsRecursion ==
  ASSUME NEW t, Len(t) \in Nat, \A k \in 1 .. Len(t) : t[k].len \in Nat
  PROVE  Ends(t) = [k \in 0 .. Len(t) |-> IF k = 0 THEN 0 ELSE Ends(t)[k - 1] + t[k].len]
<1>. DEFINE Step(k, g) == IF k = 0 THEN 0 ELSE g[k - 1] + t[k].len
            Good(n)    == \E g \in [0 .. n -> Nat] : \A k \in 0 .. n : g[k] = Step(k, g)
            Bad        == {n \in 0 .. Len(t) : ~Good(n)}
<1>1. Good(0)
  <2>1. [k \in 0 .. 0 |-> 0] \in [0 .. 0 -> Nat]
    OBVIOUS
  <2>2. \A k \in 0 .. 0 : [l \in 0 .. 0 |-> 0][k] = Step(k, [l \in 0 .. 0 |-> 0])
    OBVIOUS
  <2>. QED BY <2>1, <2>2
<1>2. ASSUME NEW n \in 1 .. Len(t), Good(n - 1)
      PROVE  Good(n)
  <2>1. PICK g \in [0 .. (n - 1) -> Nat] : \A k \in 0 .. (n - 1) : g[k] = Step(k, g)
    BY <1>2
  <2>. DEFINE h == [k \in 0 .. n |-> IF k = n THEN g[n - 1] + t[n].len ELSE g[k]]
  <2>2. n \in Nat /\ n # 0 /\ n - 1 \in 0 .. (n - 1)
        /\ \A k \in 0 .. n : k = n \/ k \in 0 .. (n - 1)
    OBVIOUS
  <2>3. g[n - 1] \in Nat /\ t[n].len \in Nat
    BY <2>1, <2>2
  <2>4. h \in [0 .. n -> Nat]
    BY <2>1, <2>2, <2>3
  <2>5. ASSUME NEW k \in 0 .. n PROVE h[k] = Step(k, h)
    <3>1. CASE k = 0
      <4>1. 0 # n /\ 0 \in 0 .. (n - 1)
        BY <2>2
      <4>. QED BY <2>1, <3>1, <4>1
    <3>2. CASE k # 0
      <4>1. k - 1 \in 0 .. n /\ k - 1 # n
        BY <2>2, <3>2
      <4>2. h[k - 1] = g[k - 1]
        BY <4>1
      <4>3. CASE k = n
        BY <2>2, <4>2, <4>3
      <4>4. CASE k # n
        <5>1. k \in 0 .. (n - 1)
          BY <2>2, <4>4
        <5>. QED BY <2>1, <3>2, <4>2, <4>4, <5>1
      <4>. QED BY <4>3, <4>4
    <3>. QED BY <3>1, <3>2
  <2>. HIDE DEF h
  <2>. QED BY <2>4, <2>5
<1>3. Bad = {}
  <2>. SUFFICES ASSUME Bad # {} PROVE FALSE
    OBVIOUS
  <2>1. Bad \in SUBSET Nat
    OBVIOUS
  <2>2. PICK n \in Bad : \A m \in Bad : n <= m
    <3>. HIDE DEF Bad
    <3>. QED BY <2>1, LeastElement
  <2>3. n \in 0 .. Len(t) /\ ~Good(n)
    OBVIOUS
  <2>. HIDE DEF Good
  <2>4. n # 0
    BY <1>1, <2>3
  <2>5. n \in 1 .. Len(t) /\ n - 1 \in 0 .. Len(t) /\ n - 1 < n
    BY <2>3, <2>4
  <2>6. Good(n - 1)
    <3>1. n - 1 \notin Bad
      BY <2>1, <2>2, <2>5
    <3>. QED BY <2>5, <3>1
  <2>. QED BY <1>2, <2>3, <2>5, <2>6
<1>4. Good(Len(t))
  <2>1. Len(t) \in 0 .. Len(t)
    OBVIOUS
  <2>. HIDE DEF Good
  <2>. QED BY <1>3, <2>1
<1>5. PICK g \in [0 .. Len(t) -> Nat] : \A k \in 0 .. Len(t) : g[k] = Step(k, g)
  BY <1>4
<1>6. g = [k \in 0 .. Len(t) |-> IF k = 0 THEN 0 ELSE g[k - 1] + t[k].len]
  BY <1>5
<1>. DEFINE E == CHOOSE h : h = [k \in 0 .. Len(t) |-> IF k = 0 THEN 0 ELSE h[k - 1] + t[k].len]
<1>7. E = [k \in 0 .. Len(t) |-> IF k = 0 THEN 0 ELSE E[k - 1] + t[k].len]
  BY <1>6, Zenon
<1>8. Ends(t) = E
  BY DEF Ends
<1>. QED BY <1>7, <1>8

\* The ends of the instructions of a template are naturals and in order.
LEMMA EndsMeaning ==
  ASSUME NEW t, Len(t) \in Nat, \A k \in 1 .. Len(t) : t[k].len \in Nat
  PROVE  /\ Ends(t)[0] = 0 /\ Length(t) \in Nat
         /\ \A k \in 1 .. Len(t) : Ends(t)[k] = Ends(t)[k - 1] + t[k].len
         /\ \A k \in 0 .. Len(t) :
               Ends(t)[k] \in Nat /\ \A i \in 0 .. k : Ends(t)[i] <= Ends(t)[k]
<1>. DEFINE E == Ends(t)
<1>1. E[0] = 0 /\ \A k \in 1 .. Len(t) : E[k] = E[k - 1] + t[k].len
  BY EndsRecursion
<1>. HIDE DEF E
<1>. DEFINE Good(k) == E[k] \in Nat /\ \A i \in 0 .. k : E[i] <= E[k]
            Bad == {k \in 0 .. Len(t) : ~Good(k)}
<1>2. Bad = {}
  <2>. SUFFICES ASSUME Bad # {} PROVE FALSE
    OBVIOUS
  <2>1. Bad \in SUBSET Nat
    OBVIOUS
  <2>2. PICK n \in Bad : \A m \in Bad : n <= m
    <3>. HIDE DEF Bad
    <3>. QED BY <2>1, LeastElement
  <2>3. n \in 0 .. Len(t) /\ ~Good(n)
    OBVIOUS
  <2>4. n # 0
    BY <1>1, <2>3
  <2>5. n \in 1 .. Len(t) /\ n - 1 \in 0 .. Len(t) /\ n - 1 < n
    BY <2>3, <2>4
  <2>6. Good(n - 1)
    <3>1. n - 1 \notin Bad
      <4>. HIDE DEF Bad
      <4>. QED BY <2>1, <2>2, <2>5
    <3>. QED BY <2>5, <3>1
  <2>7. E[n] \in Nat /\ E[n - 1] <= E[n]
    BY <1>1, <2>5, <2>6
  <2>8. ASSUME NEW i \in 0 .. n PROVE E[i] <= E[n]
    <3>1. i = n \/ i \in 0 .. (n - 1)
      BY <2>5
    <3>2. CASE i \in 0 .. (n - 1)
      <4>1. E[i] <= E[n - 1]
        BY <2>6, <3>2
      <4>2. E[i] \in Nat
        <5>1. i \in 0 .. Len(t) /\ i < n
          BY <2>5, <3>2
        <5>2. i \notin Bad
          <6>. HIDE DEF Bad
          <6>. QED BY <2>1, <2>2, <2>5, <5>1
        <5>. QED BY <5>1, <5>2
      <4>. QED BY <2>6, <2>7, <4>1, <4>2
    <3>. QED BY <2>7, <3>1, <3>2
  <2>. QED BY <2>3, <2>7, <2>8
<1>3. \A k \in 0 .. Len(t) : Good(k)
  BY <1>2
<1>4. Length(t) \in Nat
  BY <1>3 DEF Length, E
<1>. QED BY <1>1, <1>3, <1>4 DEF E

\* The instructions of a template, once they are placed.
LEMMA PlacedShape ==
  ASSUME NEW N, NEW A, NEW t \in Seq(Emission(N, A)), NEW n \in Nat
  PROVE  /\ Length(t) \in Nat
         /\ PlacedAt(t, n) \in Seq(Emitted(N, A)) /\ Len(PlacedAt(t, n)) = Len(t)
         /\ \A k \in 1 .. Len(t) :
               /\ PlacedAt(t, n)[k].at = n + Ends(t)[k - 1]
               /\ PlacedAt(t, n)[k].name = t[k].name
               /\ PlacedAt(t, n)[k].arg = t[k].arg
               /\ PlacedAt(t, n)[k].len = t[k].len
<1>1. Len(t) \in Nat /\ DOMAIN t = 1 .. Len(t)
  OBVIOUS
<1>2. ASSUME NEW k \in 1 .. Len(t)
      PROVE  t[k].name \in N /\ t[k].arg \in A /\ t[k].len \in Nat \ {0}
  <2>1. t[k] \in Emission(N, A)
    BY <1>1
  <2>. QED BY <2>1 DEF Emission
<1>3. Length(t) \in Nat /\ \A k \in 0 .. Len(t) : Ends(t)[k] \in Nat
  BY <1>1, <1>2, EndsMeaning
<1>. DEFINE q == PlacedAt(t, n)
<1>4. DOMAIN q = 1 .. Len(t) /\ q = [k \in 1 .. Len(t) |-> q[k]]
  BY <1>1 DEF PlacedAt
<1>5. ASSUME NEW k \in 1 .. Len(t)
      PROVE  /\ q[k] \in Emitted(N, A)
             /\ q[k].at = n + Ends(t)[k - 1] /\ q[k].name = t[k].name
             /\ q[k].arg = t[k].arg /\ q[k].len = t[k].len
  <2>1. q[k] = [at |-> n + Ends(t)[k - 1], name |-> t[k].name,
                arg |-> t[k].arg, len |-> t[k].len]
    BY <1>1 DEF PlacedAt
  <2>2. n + Ends(t)[k - 1] \in Nat
    BY <1>1, <1>3
  <2>. QED BY <1>2, <2>1, <2>2 DEF Emitted
<1>6. q \in Seq(Emitted(N, A)) /\ Len(q) = Len(t)
  <2>. HIDE DEF q
  <2>. QED BY <1>1, <1>4, <1>5
<1>. QED BY <1>3, <1>5, <1>6

\* The instructions of buffer b, of n bytes, follow one another.
InOrder(b, n) ==
  /\ \A i \in DOMAIN b : b[i].at + b[i].len <= n
  /\ \A i, j \in DOMAIN b : i < j => b[i].at + b[i].len <= b[j].at

\* At most one instruction begins at an offset, and none reaches into another.
LEMMA Disjoint ==
  ASSUME NEW N, NEW A, NEW b \in Seq(Emitted(N, A)), NEW n \in Nat, InOrder(b, n),
         NEW i \in DOMAIN b, NEW j \in DOMAIN b
  PROVE  /\ b[i].at \in Nat /\ b[i].len \in Nat \ {0} /\ b[i].at + b[i].len <= n
         /\ i = j \/ b[i].at + b[i].len <= b[j].at \/ b[j].at + b[j].len <= b[i].at
         /\ b[i].at = b[j].at => i = j
<1>1. b[i] \in Emitted(N, A) /\ b[j] \in Emitted(N, A) /\ i \in Nat /\ j \in Nat
  OBVIOUS
<1>2. /\ b[i].at \in Nat /\ b[i].len \in Nat \ {0}
      /\ b[j].at \in Nat /\ b[j].len \in Nat \ {0}
  BY <1>1 DEF Emitted
<1>3. i = j \/ b[i].at + b[i].len <= b[j].at \/ b[j].at + b[j].len <= b[i].at
  BY <1>1 DEF InOrder
<1>4. b[i].at + b[i].len <= n
  BY DEF InOrder
<1>. QED BY <1>2, <1>3, <1>4

\* Sequences of up to five elements.
LEMMA Tuples ==
  ASSUME NEW S, NEW a \in S, NEW b \in S, NEW c \in S, NEW d \in S, NEW e \in S
  PROVE  /\ << a >> \in Seq(S) /\ << a, b >> \in Seq(S) /\ << a, b, c >> \in Seq(S)
         /\ << a, b, c, d >> \in Seq(S) /\ << a, b, c, d, e >> \in Seq(S)
OBVIOUS

\* A sequence of one element.
LEMMA OneElement ==
  ASSUME NEW S, NEW s \in Seq(S), Len(s) = 1
  PROVE  s = << s[1] >>
OBVIOUS

\* Concatenation of two sequences.
LEMMA Concatenated ==
  ASSUME NEW S, NEW b \in Seq(S), NEW q \in Seq(S)
  PROVE  /\ b \o q \in Seq(S) /\ Len(b \o q) = Len(b) + Len(q)
         /\ \A i \in 1 .. Len(b) : (b \o q)[i] = b[i]
         /\ \A k \in 1 .. Len(q) : (b \o q)[Len(b) + k] = q[k]
OBVIOUS

\* Buffer d holds what b holds.
Keeps(b, d) == \A i \in DOMAIN b : i \in DOMAIN d /\ d[i] = b[i]

\* Buffer d holds what b holds, and then the instructions of t, from offset n.
Continues(d, b, t, n) ==
  /\ Keeps(b, d)
  /\ \A k \in 1 .. Len(t) :
        /\ Len(b) + k \in DOMAIN d
        /\ d[Len(b) + k].at = n + Ends(t)[k - 1]
        /\ d[Len(b) + k].name = t[k].name
        /\ d[Len(b) + k].arg = t[k].arg
        /\ d[Len(b) + k].len = t[k].len
  /\ \A i \in DOMAIN d : i \in DOMAIN b \/ \E k \in 1 .. Len(t) : i = Len(b) + k

\* Pushing a template leaves what was there as it was.
LEMMA PushedCode ==
  ASSUME NEW N, NEW A, NEW b \in Seq(Emitted(N, A)), NEW n \in Nat, InOrder(b, n),
         NEW t \in Seq(Emission(N, A)), NEW d, d = b \o PlacedAt(t, n)
  PROVE  /\ d \in Seq(Emitted(N, A)) /\ InOrder(d, n + Length(t)) /\ n + Length(t) \in Nat
         /\ Length(t) \in Nat /\ Continues(d, b, t, n)
<1>. DEFINE q == PlacedAt(t, n)
<1>1. /\ Length(t) \in Nat /\ q \in Seq(Emitted(N, A)) /\ Len(q) = Len(t)
      /\ \A k \in 1 .. Len(t) :
            /\ q[k].at = n + Ends(t)[k - 1] /\ q[k].name = t[k].name
            /\ q[k].arg = t[k].arg /\ q[k].len = t[k].len
  BY PlacedShape
<1>0. d = b \o q
  OBVIOUS
<1>. HIDE DEF q
<1>2. Len(b) \in Nat /\ Len(t) \in Nat /\ DOMAIN b = 1 .. Len(b) /\ DOMAIN t = 1 .. Len(t)
  OBVIOUS
<1>3. d \in Seq(Emitted(N, A)) /\ Len(d) = Len(b) + Len(t) /\ DOMAIN d = 1 .. (Len(b) + Len(t))
  <2>1. q \in Seq(Emitted(N, A))
    BY <1>1
  <2>2. b \o q \in Seq(Emitted(N, A)) /\ Len(b \o q) = Len(b) + Len(q)
    BY ONLY b \in Seq(Emitted(N, A)), <2>1, Concatenated
  <2>3. d \in Seq(Emitted(N, A)) /\ Len(d) = Len(b) + Len(q)
    BY ONLY <1>0, <2>2
  <2>. QED BY <1>1, <1>2, <2>3
<1>4. \A i \in DOMAIN b : i \in DOMAIN d /\ d[i] = b[i]
  BY <1>0, <1>1, <1>2, <1>3, Concatenated
<1>5. \A k \in 1 .. Len(t) : Len(b) + k \in DOMAIN d /\ d[Len(b) + k] = q[k]
  BY <1>0, <1>1, <1>2, <1>3, Concatenated
<1>6. ASSUME NEW i \in DOMAIN d
      PROVE  i \in DOMAIN b \/ \E k \in 1 .. Len(t) : i = Len(b) + k
  <2>1. CASE i > Len(b)
    <3>1. i - Len(b) \in 1 .. Len(t) /\ i = Len(b) + (i - Len(b))
      BY <1>2, <1>3, <2>1
    <3>. QED BY <3>1
  <2>. QED BY <1>2, <1>3, <2>1
<1>7. /\ \A k \in 1 .. Len(t) : Ends(t)[k] = Ends(t)[k - 1] + t[k].len
      /\ \A k \in 0 .. Len(t) :
            Ends(t)[k] \in Nat /\ \A i \in 0 .. k : Ends(t)[i] <= Ends(t)[k]
  <2>1. ASSUME NEW k \in 1 .. Len(t) PROVE t[k].len \in Nat
    <3>1. t[k] \in Emission(N, A)
      BY <1>2
    <3>. QED BY <3>1 DEF Emission
  <2>. QED BY <1>2, <2>1, EndsMeaning
<1>8. \A i \in DOMAIN b : b[i].at \in Nat /\ b[i].len \in Nat /\ b[i].at + b[i].len <= n
  BY Disjoint
<1>9. ASSUME NEW k \in 1 .. Len(t)
      PROVE  /\ n <= d[Len(b) + k].at
             /\ d[Len(b) + k].at + d[Len(b) + k].len = n + Ends(t)[k]
             /\ n + Ends(t)[k] <= n + Length(t)
  <2>1. /\ k - 1 \in 0 .. Len(t) /\ k \in 0 .. Len(t) /\ k \in 0 .. Len(t)
        /\ Len(t) \in 0 .. Len(t)
    BY <1>2
  <2>2. Ends(t)[k - 1] \in Nat /\ Ends(t)[k] \in Nat
        /\ Ends(t)[k] = Ends(t)[k - 1] + t[k].len /\ Ends(t)[k] <= Length(t)
    BY <1>7, <2>1 DEF Length
  <2>3. d[Len(b) + k].at = n + Ends(t)[k - 1] /\ d[Len(b) + k].len = t[k].len
    BY <1>1, <1>5
  <2>4. t[k].len \in Nat
    <3>1. t[k] \in Emission(N, A)
      BY <1>2
    <3>. QED BY <3>1 DEF Emission
  <2>. QED BY ONLY <1>1, <2>2, <2>3, <2>4, SMTT(20)
<1>10. ASSUME NEW i \in DOMAIN d PROVE d[i].at + d[i].len <= n + Length(t)
  <2>1. CASE i \in DOMAIN b
    BY <1>1, <1>4, <1>8, <2>1
  <2>2. CASE \E k \in 1 .. Len(t) : i = Len(b) + k
    BY <1>9, <2>2
  <2>. QED BY <1>6, <2>1, <2>2
<1>11. ASSUME NEW i \in DOMAIN d, NEW j \in DOMAIN d, i < j
       PROVE  d[i].at + d[i].len <= d[j].at
  <2>1. CASE j \in DOMAIN b
    <3>1. i \in DOMAIN b
      BY <1>2, <1>3, <1>11, <2>1
    <3>. QED BY <1>4, <1>11, <2>1, <3>1 DEF InOrder
  <2>2. CASE \E k \in 1 .. Len(t) : j = Len(b) + k
    <3>1. PICK k \in 1 .. Len(t) : j = Len(b) + k
      BY <2>2
    <3>2. CASE i \in DOMAIN b
      <4>1. d[i].at + d[i].len <= n /\ d[i].at + d[i].len \in Nat
        BY <1>4, <1>8, <3>2
      <4>2. n <= d[j].at /\ d[j].at \in Int
        <5>1. d[j] \in Emitted(N, A)
          BY <1>3
        <5>. QED BY <1>9, <3>1, <5>1 DEF Emitted
      <4>. QED BY ONLY <4>1, <4>2
    <3>3. CASE \E m \in 1 .. Len(t) : i = Len(b) + m
      <4>1. PICK m \in 1 .. Len(t) : i = Len(b) + m
        BY <3>3
      <4>2. k - 1 \in 0 .. Len(t) /\ m \in 0 .. (k - 1) /\ m \in 0 .. Len(t)
        BY <1>2, <1>11, <3>1, <4>1
      <4>3. Ends(t)[m] <= Ends(t)[k - 1] /\ Ends(t)[m] \in Nat /\ Ends(t)[k - 1] \in Nat
        BY <1>7, <4>2
      <4>4. d[j].at = n + Ends(t)[k - 1]
        BY <1>1, <1>5, <3>1
      <4>5. d[i].at + d[i].len = n + Ends(t)[m]
        BY <1>9, <4>1
      <4>. QED BY ONLY <4>3, <4>4, <4>5
    <3>. QED BY <1>6, <3>2, <3>3
  <2>. QED BY <1>6, <2>1, <2>2
<1>12. InOrder(d, n + Length(t))
  BY <1>10, <1>11 DEF InOrder
<1>13. Continues(d, b, t, n)
  BY ONLY <1>1, <1>4, <1>5, <1>6 DEF Continues, Keeps
<1>. QED BY <1>1, <1>3, <1>12, <1>13

\* A template of one instruction, and of two.
LEMMA ShortTemplates ==
  ASSUME NEW x, NEW y, x.len \in Nat, y.len \in Nat
  PROVE  /\ Length(<< x >>) = x.len
         /\ Ends(<< x, y >>)[0] = 0 /\ Ends(<< x, y >>)[1] = x.len
         /\ Length(<< x, y >>) = x.len + y.len
<1>. DEFINE s == << x >>
            t == << x, y >>
<1>1. Len(s) = 1 /\ s[1] = x /\ Len(t) = 2 /\ t[1] = x /\ t[2] = y
  OBVIOUS
<1>. HIDE DEF s, t
<1>2. Ends(s)[0] = 0 /\ \A k \in 1 .. Len(s) : Ends(s)[k] = Ends(s)[k - 1] + s[k].len
  <2>1. Len(s) \in Nat /\ \A k \in 1 .. Len(s) : s[k].len \in Nat
    BY <1>1
  <2>. QED BY <2>1, EndsMeaning
<1>3. Ends(t)[0] = 0 /\ \A k \in 1 .. Len(t) : Ends(t)[k] = Ends(t)[k - 1] + t[k].len
  <2>1. Len(t) \in Nat /\ \A k \in 1 .. Len(t) : k = 1 \/ k = 2
    BY <1>1
  <2>2. \A k \in 1 .. Len(t) : t[k].len \in Nat
    BY <1>1, <2>1
  <2>. QED BY <2>1, <2>2, EndsMeaning
<1>4. Ends(s)[1] = x.len
  <2>1. Ends(s)[1] = Ends(s)[0] + x.len
    BY <1>1, <1>2
  <2>. QED BY <1>2, <2>1
<1>5. Ends(t)[1] = x.len /\ Ends(t)[2] = x.len + y.len
  <2>1. Ends(t)[1] = Ends(t)[0] + x.len
    BY <1>1, <1>3
  <2>2. Ends(t)[2] = Ends(t)[1] + y.len
    BY <1>1, <1>3
  <2>. QED BY <1>3, <2>1, <2>2
<1>6. Length(s) = x.len /\ Length(t) = x.len + y.len
  BY <1>1, <1>4, <1>5 DEF Length
<1>. QED BY <1>3, <1>5, <1>6 DEF s, t

-----------------------------------------------------------------------------
(* Lengths of templates.                                                   *)

\* The ends of the instructions of two templates, one after the other.
LEMMA JoinedEnds ==
  ASSUME NEW N, NEW A, NEW s \in Seq(Emission(N, A)), NEW t \in Seq(Emission(N, A))
  PROVE  /\ \A k \in 0 .. Len(s) : Ends(s \o t)[k] = Ends(s)[k]
         /\ \A k \in 0 .. Len(t) : Ends(s \o t)[Len(s) + k] = Length(s) + Ends(t)[k]
<1>. DEFINE u == s \o t
<1>1. /\ u \in Seq(Emission(N, A)) /\ Len(u) = Len(s) + Len(t)
      /\ Len(s) \in Nat /\ Len(t) \in Nat
      /\ \A k \in 1 .. Len(s) : u[k] = s[k]
      /\ \A k \in 1 .. Len(t) : u[Len(s) + k] = t[k]
  BY Concatenated
<1>. HIDE DEF u
<1>2. ASSUME NEW v \in Seq(Emission(N, A))
      PROVE  /\ Ends(v)[0] = 0 /\ \A k \in 1 .. Len(v) : Ends(v)[k] = Ends(v)[k - 1] + v[k].len
             /\ \A k \in 0 .. Len(v) : Ends(v)[k] \in Nat
             /\ \A k \in 1 .. Len(v) : v[k].len \in Nat
  <2>1. Len(v) \in Nat /\ \A k \in 1 .. Len(v) : v[k] \in Emission(N, A)
    OBVIOUS
  <2>2. \A k \in 1 .. Len(v) : v[k].len \in Nat
    BY <2>1 DEF Emission
  <2>. QED BY <2>1, <2>2, EndsMeaning
<1>. DEFINE Bad == {k \in 0 .. Len(s) : Ends(u)[k] # Ends(s)[k]}
<1>3. Bad = {}
  <2>. SUFFICES ASSUME Bad # {} PROVE FALSE
    OBVIOUS
  <2>1. Bad \in SUBSET Nat
    OBVIOUS
  <2>2. PICK n \in Bad : \A m \in Bad : n <= m
    <3>. HIDE DEF Bad
    <3>. QED BY <2>1, LeastElement
  <2>3. n \in 0 .. Len(s) /\ Ends(u)[n] # Ends(s)[n]
    OBVIOUS
  <2>4. n # 0
    BY <1>1, <1>2, <2>3
  <2>5. n \in 1 .. Len(s) /\ n \in 1 .. Len(u) /\ n - 1 \in 0 .. Len(s) /\ ~(n <= n - 1)
    BY <1>1, <2>3, <2>4
  <2>6. Ends(u)[n - 1] = Ends(s)[n - 1]
    <3>1. n - 1 \notin Bad
      <4>. HIDE DEF Bad
      <4>. QED BY <2>2, <2>5
    <3>. QED BY <2>5, <3>1
  <2>7. Ends(u)[n] = Ends(u)[n - 1] + u[n].len /\ Ends(s)[n] = Ends(s)[n - 1] + s[n].len
    BY <1>1, <1>2, <2>5
  <2>. QED BY <1>1, <2>3, <2>5, <2>6, <2>7
<1>. DEFINE Off == {k \in 0 .. Len(t) : Ends(u)[Len(s) + k] # Length(s) + Ends(t)[k]}
<1>4. Off = {}
  <2>. SUFFICES ASSUME Off # {} PROVE FALSE
    OBVIOUS
  <2>1. Off \in SUBSET Nat
    OBVIOUS
  <2>2. PICK n \in Off : \A m \in Off : n <= m
    <3>. HIDE DEF Off
    <3>. QED BY <2>1, LeastElement
  <2>3. n \in 0 .. Len(t) /\ Ends(u)[Len(s) + n] # Length(s) + Ends(t)[n]
    OBVIOUS
  <2>4. n # 0
    <3>1. Ends(u)[Len(s)] = Length(s)
      <4>1. Len(s) \in 0 .. Len(s) /\ Len(s) \notin Bad
        BY <1>1, <1>3
      <4>. QED BY <4>1 DEF Length
    <3>2. Ends(t)[0] = 0 /\ Length(s) \in Nat /\ Len(s) + 0 = Len(s)
      <4>1. Len(s) \in 0 .. Len(s)
        BY <1>1
      <4>. QED BY <1>1, <1>2, <4>1 DEF Length
    <3>. QED BY <2>3, <3>1, <3>2
  <2>5. /\ n \in 1 .. Len(t) /\ Len(s) + n \in 1 .. Len(u) /\ n - 1 \in 0 .. Len(t)
        /\ (Len(s) + n) - 1 = Len(s) + (n - 1) /\ ~(n <= n - 1)
    BY <1>1, <2>3, <2>4
  <2>6. Ends(u)[Len(s) + (n - 1)] = Length(s) + Ends(t)[n - 1]
    <3>1. n - 1 \notin Off
      <4>. HIDE DEF Off
      <4>. QED BY <2>2, <2>5
    <3>. QED BY <2>5, <3>1
  <2>7. /\ Ends(u)[Len(s) + n] = Ends(u)[Len(s) + (n - 1)] + u[Len(s) + n].len
        /\ Ends(t)[n] = Ends(t)[n - 1] + t[n].len
    <3>1. Ends(u)[Len(s) + n] = Ends(u)[(Len(s) + n) - 1] + u[Len(s) + n].len
      BY <1>1, <1>2, <2>5
    <3>. QED BY <1>2, <2>5, <3>1
  <2>8. Ends(t)[n - 1] \in Nat /\ Length(s) \in Nat /\ t[n].len \in Nat
        /\ u[Len(s) + n].len = t[n].len
    <3>1. Len(s) \in 0 .. Len(s)
      BY <1>1
    <3>. QED BY <1>1, <1>2, <2>5, <3>1 DEF Length
  <2>. QED BY <2>3, <2>6, <2>7, <2>8
<1>. QED BY <1>3, <1>4 DEF u

\* An instruction in front of a template adds its length.
LEMMA PrefixedLength ==
  ASSUME NEW N, NEW A, NEW x \in Emission(N, A), NEW t \in Seq(Emission(N, A))
  PROVE  Length(<< x >> \o t) = x.len + Length(t)
<1>. DEFINE s == << x >>
<1>1. s \in Seq(Emission(N, A)) /\ Len(s) = 1 /\ Len(t) \in Nat /\ s[1] = x /\ x.len \in Nat
  BY DEF Emission
<1>2. Length(s) = x.len
  <2>1. Ends(s)[0] = 0 /\ Ends(s)[1] = Ends(s)[1 - 1] + s[1].len
    <3>. HIDE DEF s
    <3>1. Len(s) \in Nat /\ 1 \in 1 .. Len(s) /\ \A k \in 1 .. Len(s) : s[k].len \in Nat
      BY <1>1
    <3>. QED BY <3>1, EndsMeaning
  <2>. HIDE DEF s
  <2>. QED BY <1>1, <2>1 DEF Length
<1>. HIDE DEF s
<1>3. Len(s \o t) = Len(s) + Len(t) /\ Len(t) \in 0 .. Len(t)
  <2>1. Len(s \o t) = Len(s) + Len(t)
    BY <1>1, Concatenated
  <2>. QED BY <1>1, <2>1
<1>4. Length(s \o t) = Length(s) + Length(t)
  BY <1>1, <1>3, JoinedEnds DEF Length
<1>. QED BY <1>2, <1>4 DEF s

\* The last instruction of a template ends where the template does.
LEMMA LastEnds ==
  ASSUME NEW N, NEW A, NEW t \in Seq(Emission(N, A)), t # << >>
  PROVE  Len(t) \in 1 .. Len(t) /\ Length(t) = Ends(t)[Len(t) - 1] + t[Len(t)].len
<1>1. Len(t) \in Nat /\ Len(t) \in 1 .. Len(t) /\ \A k \in 1 .. Len(t) : t[k] \in Emission(N, A)
  OBVIOUS
<1>2. \A k \in 1 .. Len(t) : t[k].len \in Nat
  BY <1>1 DEF Emission
<1>3. \A k \in 1 .. Len(t) : Ends(t)[k] = Ends(t)[k - 1] + t[k].len
  BY <1>1, <1>2, EndsMeaning
<1>. QED BY <1>1, <1>3 DEF Length

\* A template of whole words is of whole words.
LEMMA WordsLength ==
  ASSUME NEW t, Len(t) \in Nat,
         \A k \in 1 .. Len(t) : t[k].len \in Nat /\ t[k].len % 4 = 0
  PROVE  Length(t) % 4 = 0
<1>1. /\ Ends(t)[0] = 0 /\ \A k \in 1 .. Len(t) : Ends(t)[k] = Ends(t)[k - 1] + t[k].len
      /\ \A k \in 0 .. Len(t) : Ends(t)[k] \in Nat
  BY EndsMeaning
<1>. DEFINE Bad == {k \in 0 .. Len(t) : Ends(t)[k] % 4 # 0}
<1>2. Bad = {}
  <2>. SUFFICES ASSUME Bad # {} PROVE FALSE
    OBVIOUS
  <2>1. Bad \in SUBSET Nat
    OBVIOUS
  <2>2. PICK n \in Bad : \A m \in Bad : n <= m
    <3>. HIDE DEF Bad
    <3>. QED BY <2>1, LeastElement
  <2>3. n \in 0 .. Len(t) /\ Ends(t)[n] % 4 # 0
    OBVIOUS
  <2>4. n \in 1 .. Len(t) /\ n - 1 \in 0 .. Len(t) /\ n - 1 < n
    BY <1>1, <2>3
  <2>5. Ends(t)[n - 1] % 4 = 0
    <3>1. n - 1 \notin Bad
      <4>. HIDE DEF Bad
      <4>. QED BY <2>1, <2>2, <2>4
    <3>. QED BY <2>4, <3>1
  <2>6. Ends(t)[n] = Ends(t)[n - 1] + t[n].len
    BY <1>1, <2>4
  <2>7. Ends(t)[n - 1] \in Nat /\ t[n].len \in Nat /\ t[n].len % 4 = 0
    BY <1>1, <2>4
  <2>. HIDE DEF Bad
  <2>. QED BY ONLY <2>3, <2>5, <2>6, <2>7, SMTT(20)
<1>3. Len(t) \in 0 .. Len(t)
  OBVIOUS
<1>. QED BY <1>2, <1>3 DEF Length

-----------------------------------------------------------------------------
(* Jumps and their patches.  c is the code, of which the first n opcodes   *)
(* are compiled into buffer b at the addresses ad; q are the patches.  The *)
(* jump of an opcode is its second instruction, named in J, of len bytes.  *)

Jumps(c, n) == {k \in 1 .. n : c[k].op \in {"op_jf", "op_jt"}}

PatchOf(c, ad, k) ==
  [instruction_offset |-> ad[k] + 4, target_opcode_index |-> c[k].num]

PatchRecord == [instruction_offset : Nat, target_opcode_index : Nat]

\* An instruction of len bytes begins at offset at.
JumpIn(b, at, name, len) ==
  \E j \in DOMAIN b : b[j].at = at /\ b[j].name = name /\ b[j].len = len

\* The first n addresses are the same.
Agree(ad, ae, n) == \A k \in 1 .. n : ad[k] \in Nat /\ ae[k] = ad[k]

Coded(c, n, b, ad, q, J, len) ==
  /\ \A k \in Jumps(c, n) : JumpIn(b, ad[k] + 4, J[c[k].op], len)
  /\ \A k \in Jumps(c, n) : \E i \in DOMAIN q : q[i] = PatchOf(c, ad, k)
  /\ \A i \in DOMAIN q : \E k \in Jumps(c, n) : q[i] = PatchOf(c, ad, k)
  /\ \A k, m \in Jumps(c, n) : ad[k] = ad[m] => k = m

LEMMA NoJump ==
  ASSUME NEW c, NEW n \in Nat, c[n + 1].op \notin {"op_jf", "op_jt"}
  PROVE  Jumps(c, n + 1) = Jumps(c, n)
<1>1. \A k \in 1 .. (n + 1) : k = n + 1 \/ k \in 1 .. n
  OBVIOUS
<1>. QED BY <1>1 DEF Jumps

\* Compiling what is no jump.
LEMMA CodedStays ==
  ASSUME NEW c, NEW n, NEW m, NEW b, NEW d, NEW ad, NEW ae, NEW q, NEW J, NEW len,
         Coded(c, n, b, ad, q, J, len), Jumps(c, m) = Jumps(c, n),
         Keeps(b, d), Agree(ad, ae, n)
  PROVE  Coded(c, m, d, ae, q, J, len)
<1>1. \A k \in Jumps(c, n) : ae[k] = ad[k] /\ PatchOf(c, ae, k) = PatchOf(c, ad, k)
  BY DEF Jumps, PatchOf, Agree
<1>2. ASSUME NEW k \in Jumps(c, n)
      PROVE  JumpIn(d, ae[k] + 4, J[c[k].op], len)
  <2>1. PICK j \in DOMAIN b : /\ b[j].at = ad[k] + 4
                              /\ b[j].name = J[c[k].op] /\ b[j].len = len
    BY DEF Coded, JumpIn
  <2>. QED BY <1>1, <2>1 DEF Keeps, JumpIn
<1>. QED BY <1>1, <1>2 DEF Coded

\* Compiling a jump.
LEMMA CodedJump ==
  ASSUME NEW b, NEW size \in Nat, InOrder(b, size),
         NEW c, NEW n \in Nat, NEW d, NEW ad, NEW ae, NEW q \in Seq(PatchRecord),
         NEW J, NEW len \in Nat, Coded(c, n, b, ad, q, J, len),
         c[n + 1].op \in {"op_jf", "op_jt"},
         Keeps(b, d), Agree(ad, ae, n),
         ae[n + 1] = size,
         JumpIn(d, size + 4, J[c[n + 1].op], len),
         PatchOf(c, ae, n + 1) \in PatchRecord
  PROVE  Coded(c, n + 1, d, ae, Append(q, PatchOf(c, ae, n + 1)), J, len)
<1>. DEFINE r == Append(q, PatchOf(c, ae, n + 1))
<1>1. \A k \in 1 .. (n + 1) : k = n + 1 \/ k \in 1 .. n
  OBVIOUS
<1>2. Jumps(c, n + 1) = Jumps(c, n) \cup {n + 1} /\ n + 1 \notin Jumps(c, n)
  BY <1>1 DEF Jumps
<1>3. \A k \in Jumps(c, n) :
         ad[k] \in Nat /\ ae[k] = ad[k] /\ PatchOf(c, ae, k) = PatchOf(c, ad, k)
  BY DEF Jumps, PatchOf, Agree
<1>4. ASSUME NEW k \in Jumps(c, n)
      PROVE  /\ JumpIn(d, ae[k] + 4, J[c[k].op], len)
             /\ ad[k] # size
  <2>1. PICK j \in DOMAIN b : /\ b[j].at = ad[k] + 4
                              /\ b[j].name = J[c[k].op] /\ b[j].len = len
    BY DEF Coded, JumpIn
  <2>2. b[j].at + b[j].len <= size
    BY DEF InOrder
  <2>3. ad[k] # size
    BY <1>3, <2>1, <2>2
  <2>4. JumpIn(d, ae[k] + 4, J[c[k].op], len)
    BY <1>3, <2>1 DEF Keeps, JumpIn
  <2>. QED BY <2>3, <2>4
<1>. DEFINE x == PatchOf(c, ae, n + 1)
<1>5. /\ DOMAIN r = (DOMAIN q) \cup {Len(q) + 1} /\ r[Len(q) + 1] = x
      /\ \A i \in DOMAIN q : r[i] = q[i]
  <2>. HIDE DEF x
  <2>1. x \in PatchRecord /\ r = Append(q, x)
    BY DEF x
  <2>. QED BY <2>1
<1>. HIDE DEF x
<1>6. \A k \in Jumps(c, n + 1) : JumpIn(d, ae[k] + 4, J[c[k].op], len)
  BY <1>2, <1>4
<1>7. \A k \in Jumps(c, n + 1) : \E i \in DOMAIN r : r[i] = PatchOf(c, ae, k)
  <2>1. ASSUME NEW k \in Jumps(c, n) PROVE \E i \in DOMAIN r : r[i] = PatchOf(c, ae, k)
    <3>1. PICK i \in DOMAIN q : q[i] = PatchOf(c, ad, k)
      BY DEF Coded
    <3>. QED BY <1>3, <1>5, <3>1
  <2>2. r[Len(q) + 1] = PatchOf(c, ae, n + 1)
    BY <1>5 DEF x
  <2>. QED BY <1>2, <1>5, <2>1, <2>2
<1>8. \A i \in DOMAIN r : \E k \in Jumps(c, n + 1) : r[i] = PatchOf(c, ae, k)
  <2>1. ASSUME NEW i \in DOMAIN q PROVE \E k \in Jumps(c, n + 1) : r[i] = PatchOf(c, ae, k)
    <3>1. PICK k \in Jumps(c, n) : q[i] = PatchOf(c, ad, k)
      BY DEF Coded
    <3>. QED BY <1>2, <1>3, <1>5, <3>1
  <2>2. r[Len(q) + 1] = PatchOf(c, ae, n + 1)
    BY <1>5 DEF x
  <2>. QED BY <1>2, <1>5, <2>1, <2>2
<1>9. \A k, m \in Jumps(c, n + 1) : ae[k] = ae[m] => k = m
  <2>1. \A k, m \in Jumps(c, n) : ae[k] = ae[m] => k = m
    BY <1>3 DEF Coded
  <2>2. \A k \in Jumps(c, n) : ae[k] # ae[n + 1]
    BY <1>3, <1>4
  <2>. QED BY <1>2, <2>1, <2>2
<1>. QED BY <1>6, <1>7, <1>8, <1>9 DEF Coded

\* The first n patches are applied; an offset is counted from s bytes after the
\* first byte of the jump.
Applied(b, ad, q, n, s) ==
  \A i \in 1 .. n : \A j \in DOMAIN b :
     b[j].at = q[i].instruction_offset =>
       b[j].arg = ad[q[i].target_opcode_index + 1] - (q[i].instruction_offset + s)

\* One operand is written: that of the instruction at offset at.
Repaired(b, d, at, arg) ==
  /\ DOMAIN d = DOMAIN b
  /\ \A j \in DOMAIN b :
        /\ d[j].at = b[j].at /\ d[j].name = b[j].name /\ d[j].len = b[j].len
        /\ d[j].arg = IF b[j].at = at THEN arg ELSE b[j].arg

\* Applying the next patch, which changes one operand.
LEMMA PatchApplied ==
  ASSUME NEW c, NEW n, NEW b, NEW d, NEW ad, NEW q, NEW J, NEW len, NEW s, NEW size,
         NEW m \in Nat, m + 1 \in DOMAIN q, 1 .. m \subseteq DOMAIN q,
         Coded(c, n, b, ad, q, J, len), InOrder(b, size), Applied(b, ad, q, m, s),
         \A k \in 1 .. n : ad[k] \in Nat,
         Repaired(b, d, q[m + 1].instruction_offset,
                  ad[q[m + 1].target_opcode_index + 1] - (q[m + 1].instruction_offset + s))
  PROVE  Coded(c, n, d, ad, q, J, len) /\ InOrder(d, size) /\ Applied(d, ad, q, m + 1, s)
<1>1. Coded(c, n, d, ad, q, J, len)
  <2>1. ASSUME NEW k \in Jumps(c, n)
        PROVE  JumpIn(d, ad[k] + 4, J[c[k].op], len)
    <3>1. PICK j \in DOMAIN b : /\ b[j].at = ad[k] + 4
                                /\ b[j].name = J[c[k].op] /\ b[j].len = len
      BY DEF Coded, JumpIn
    <3>. QED BY <3>1 DEF JumpIn, Repaired
  <2>. QED BY <2>1 DEF Coded
<1>2. InOrder(d, size)
  BY DEF InOrder, Repaired
<1>3. ASSUME NEW i \in 1 .. (m + 1), NEW j \in DOMAIN d,
             d[j].at = q[i].instruction_offset
      PROVE  d[j].arg = ad[q[i].target_opcode_index + 1] - (q[i].instruction_offset + s)
  <2>1. i = m + 1 \/ i \in 1 .. m
    OBVIOUS
  <2>2. CASE b[j].at = q[m + 1].instruction_offset
    <3>1. i \in DOMAIN q
      BY <2>1
    <3>2. PICK k \in Jumps(c, n) : q[i] = PatchOf(c, ad, k)
      BY <3>1 DEF Coded
    <3>3. PICK l \in Jumps(c, n) : q[m + 1] = PatchOf(c, ad, l)
      BY DEF Coded
    <3>4. ad[k] + 4 = ad[l] + 4 /\ ad[k] \in Nat /\ ad[l] \in Nat
      <4>1. d[j].at = b[j].at
        BY DEF Repaired
      <4>. QED BY <1>3, <2>2, <3>2, <3>3, <4>1 DEF PatchOf, Jumps
    <3>5. k = l
      BY <3>4 DEF Coded
    <3>6. q[i] = q[m + 1]
      BY <3>2, <3>3, <3>5
    <3>. QED BY <2>2, <3>6 DEF Repaired
  <2>3. CASE b[j].at # q[m + 1].instruction_offset
    <3>1. i \in 1 .. m /\ b[j].at = q[i].instruction_offset /\ d[j].arg = b[j].arg
      BY <1>3, <2>1, <2>3 DEF Repaired
    <3>2. j \in DOMAIN b
      BY DEF Repaired
    <3>. QED BY <3>1, <3>2 DEF Applied
  <2>. QED BY <2>2, <2>3
<1>4. Applied(d, ad, q, m + 1, s)
  BY <1>3 DEF Applied
<1>. QED BY <1>1, <1>2, <1>4

\* Instruction ins, at an offset, is the jump of opcode o, and patched.
Goes(ins, o, ad, at, J, len, s) ==
  /\ ins.name = J[o.op] /\ ins.len = len
  /\ ins.arg = ad[o.num + 1] - (at + s)

\* Once every patch is applied every jump goes to its target.
LEMMA JumpsGo ==
  ASSUME NEW N, NEW A, NEW b \in Seq(Emitted(N, A)), NEW size \in Nat, InOrder(b, size),
         NEW c, NEW n, NEW ad, NEW q, NEW J, NEW len, NEW s,
         Coded(c, n, b, ad, q, J, len), Applied(b, ad, q, Len(q), s),
         DOMAIN q = 1 .. Len(q),
         NEW k \in Jumps(c, n), NEW x \in DOMAIN b, b[x].at = ad[k] + 4
  PROVE  Goes(b[x], c[k], ad, ad[k] + 4, J, len, s)
<1>1. PICK j \in DOMAIN b : /\ b[j].at = ad[k] + 4
                            /\ b[j].name = J[c[k].op] /\ b[j].len = len
  BY DEF Coded, JumpIn
<1>2. x = j
  BY <1>1, Disjoint
<1>3. PICK i \in DOMAIN q : q[i] = PatchOf(c, ad, k)
  BY DEF Coded
<1>4. q[i].instruction_offset = ad[k] + 4 /\ q[i].target_opcode_index = c[k].num
  BY <1>3 DEF PatchOf
<1>5. b[x].arg = ad[c[k].num + 1] - (ad[k] + 4 + s)
  <2>1. i \in 1 .. Len(q)
    OBVIOUS
  <2>2. b[x].arg = ad[q[i].target_opcode_index + 1] - (q[i].instruction_offset + s)
    BY <1>4, <2>1 DEF Applied
  <2>. QED BY <1>4, <2>2
<1>. QED BY <1>1, <1>2, <1>5 DEF Goes

-----------------------------------------------------------------------------
(* The calls of jit_compile_function under way for code c: the main        *)
(* function, and inside each the body whose definition it is at.           *)

Calls == [pc : Nat, end : Nat, entry : Nat]

Nested(c, f) ==
  /\ f[1].end = Len(c)
  /\ \A i \in DOMAIN f : f[i].pc <= f[i].end /\ f[i].end <= Len(c)
  /\ \A i \in DOMAIN f : i + 1 \in DOMAIN f =>
        /\ f[i].pc + 1 \in Defs(c) /\ c[f[i].pc + 1].num = f[i + 1].end
        /\ f[i + 1].end <= f[i].end
  /\ \A i, j \in DOMAIN f : i < j => f[i].pc < f[j].pc

\* The calls when the innermost goes on to its next opcode, when it calls
\* itself for the body that is defined there, and when it returns.
Advanced(f) == [f EXCEPT ![Len(f)].pc = @ + 1]

Entered(f, end, entry) ==
  Append(f, [pc |-> f[Len(f)].pc + 1, end |-> end, entry |-> entry])

Left(f) == [SubSeq(f, 1, Len(f) - 1) EXCEPT ![Len(f) - 1].pc = f[Len(f)].end]

\* Replacing one element of a sequence.
LEMMA Replaced ==
  ASSUME NEW S, NEW f \in Seq(S), NEW n \in 1 .. Len(f), NEW x \in S,
         NEW g, g = [f EXCEPT ![n] = x]
  PROVE  /\ g \in Seq(S) /\ Len(g) = Len(f) /\ DOMAIN g = DOMAIN f
         /\ \A i \in 1 .. Len(f) : g[i] = IF i = n THEN x ELSE f[i]
OBVIOUS

\* A call goes on to its next opcode.
LEMMA CallAdvances ==
  ASSUME NEW c \in Seq(Opcode), NEW f \in Seq(Calls), f # << >>, Nested(c, f),
         f[Len(f)].pc < f[Len(f)].end,
         NEW g, g = Advanced(f)
  PROVE  /\ g \in Seq(Calls) /\ Len(g) = Len(f) /\ Nested(c, g)
         /\ \A i \in DOMAIN f :
               /\ g[i].pc = IF i = Len(f) THEN f[i].pc + 1 ELSE f[i].pc
               /\ g[i].end = f[i].end /\ g[i].entry = f[i].entry
<1>1. Len(f) \in DOMAIN f /\ Len(f) \in Nat /\ DOMAIN f = 1 .. Len(f) /\ Len(c) \in Nat
  OBVIOUS
<1>2. ASSUME NEW i \in DOMAIN f
      PROVE  f[i].pc \in Nat /\ f[i].end \in Nat /\ f[i].entry \in Nat /\ i \in Nat
  <2>1. f[i] \in Calls
    OBVIOUS
  <2>. QED BY <1>1, <2>1 DEF Calls
<1>3. g = [f EXCEPT ![Len(f)] = [f[Len(f)] EXCEPT !.pc = f[Len(f)].pc + 1]]
  BY DEF Advanced
<1>4. [f[Len(f)] EXCEPT !.pc = f[Len(f)].pc + 1] \in Calls
  <2>1. f[Len(f)] \in Calls /\ f[Len(f)].pc + 1 \in Nat
    BY <1>1, <1>2
  <2>. QED BY <2>1 DEF Calls
<1>5. g \in Seq(Calls) /\ Len(g) = Len(f) /\ DOMAIN g = DOMAIN f
  BY <1>1, <1>3, <1>4, Replaced
<1>6. ASSUME NEW i \in DOMAIN f
      PROVE  /\ g[i].pc = IF i = Len(f) THEN f[i].pc + 1 ELSE f[i].pc
             /\ g[i].end = f[i].end /\ g[i].entry = f[i].entry
  <2>1. f[i] \in Calls
    OBVIOUS
  <2>. QED BY <1>1, <1>3, <2>1 DEF Calls
<1>7. Nested(c, g)
  <2>1. g[1].end = Len(c)
    BY <1>1, <1>6 DEF Nested
  <2>2. \A i \in DOMAIN g : g[i].pc <= g[i].end /\ g[i].end <= Len(c)
    BY <1>1, <1>2, <1>5, <1>6 DEF Nested
  <2>3. ASSUME NEW i \in DOMAIN g, i + 1 \in DOMAIN g
        PROVE  /\ g[i].pc + 1 \in Defs(c) /\ c[g[i].pc + 1].num = g[i + 1].end
               /\ g[i + 1].end <= g[i].end
    <3>1. i \in DOMAIN f /\ i + 1 \in DOMAIN f /\ i # Len(f)
      BY <1>1, <1>5, <2>3
    <3>2. /\ f[i].pc + 1 \in Defs(c) /\ c[f[i].pc + 1].num = f[i + 1].end
          /\ f[i + 1].end <= f[i].end
      BY <3>1 DEF Nested
    <3>. QED BY <1>6, <3>1, <3>2
  <2>4. ASSUME NEW i \in DOMAIN g, NEW j \in DOMAIN g, i < j
        PROVE  g[i].pc < g[j].pc
    <3>1. i # Len(f) /\ f[i].pc < f[j].pc
      BY <1>1, <1>5, <2>4 DEF Nested
    <3>. QED BY <1>2, <1>5, <1>6, <3>1
  <2>. QED BY <2>1, <2>2, <2>3, <2>4 DEF Nested
<1>. QED BY <1>5, <1>6, <1>7

\* A call at a definition calls itself for the body.
LEMMA CallEnters ==
  ASSUME NEW c \in Seq(Opcode), WellFormed(c),
         NEW f \in Seq(Calls), f # << >>, Nested(c, f),
         f[Len(f)].pc < f[Len(f)].end, c[f[Len(f)].pc + 1].op = "op_def_lambda",
         NEW e \in Nat,
         NEW g, g = Entered(f, c[f[Len(f)].pc + 1].num, e)
  PROVE  /\ g \in Seq(Calls) /\ Len(g) = Len(f) + 1 /\ Nested(c, g)
         /\ \A i \in DOMAIN f : g[i] = f[i]
         /\ g[Len(g)].pc = f[Len(f)].pc + 1 /\ g[Len(g)].entry = e
<1>1. Len(f) \in DOMAIN f /\ Len(f) \in Nat /\ DOMAIN f = 1 .. Len(f) /\ Len(c) \in Nat
      /\ DOMAIN c = 1 .. Len(c)
  OBVIOUS
<1>2. ASSUME NEW i \in DOMAIN f
      PROVE  f[i].pc \in Nat /\ f[i].end \in Nat /\ f[i].entry \in Nat /\ i \in Nat
  <2>1. f[i] \in Calls
    OBVIOUS
  <2>. QED BY <1>1, <2>1 DEF Calls
<1>. DEFINE n == Len(f)
            b == f[n].pc + 1
            x == [pc |-> b, end |-> c[b].num, entry |-> e]
<1>3. f[n].pc <= f[n].end /\ f[n].end <= Len(c)
  BY <1>1 DEF Nested
<1>4. b \in DOMAIN c /\ b \in Defs(c)
  BY <1>1, <1>2, <1>3 DEF Defs
<1>5. c[b].num \in (b + 1) .. Len(c)
  BY <1>4, BodyShape
<1>6. x \in Calls
  <2>1. b \in Nat /\ c[b].num \in Nat
    BY <1>1, <1>2, <1>5
  <2>. QED BY <2>1 DEF Calls
<1>7. g = Append(f, x)
  BY DEF Entered
<1>8. c[b].num <= f[n].end
  <2>1. CASE n = 1
    BY <1>5, <2>1 DEF Nested
  <2>2. CASE n # 1
    <3>1. n - 1 \in DOMAIN f /\ (n - 1) + 1 = n /\ n - 1 < n
      BY <1>1, <2>2
    <3>. DEFINE a == f[n - 1].pc + 1
    <3>2. a \in Defs(c) /\ c[a].num = f[n].end
      BY <1>1, <3>1 DEF Nested
    <3>3. f[n - 1].pc < f[n].pc
      BY <1>1, <3>1 DEF Nested
    <3>4. a \in DOMAIN c /\ c[a].op = "op_def_lambda" /\ a < b /\ b <= c[a].num
      <4>1. a \in DOMAIN c /\ c[a].op = "op_def_lambda"
        BY <3>2 DEF Defs
      <4>2. f[n].pc \in Nat /\ f[n].end \in Nat /\ f[n - 1].pc \in Nat
        BY <1>1, <1>2, <3>1
      <4>3. a < b /\ b <= f[n].end
        BY <3>3, <4>2, SMTT(20)
      <4>. QED BY <3>2, <4>1, <4>3
    <3>5. b <= c[b].num
      BY <1>4, <1>5
    <3>. HIDE DEF a, b
    <3>6. c[b].num <= c[a].num
      BY <1>4, <3>4, <3>5, BlocksNest DEF Defs
    <3>. QED BY <3>2, <3>6
  <2>. QED BY <2>1, <2>2
<1>. HIDE DEF x
<1>9. g \in Seq(Calls) /\ Len(g) = n + 1 /\ DOMAIN g = 1 .. (n + 1) /\ g[n + 1] = x
  BY <1>1, <1>6, <1>7
<1>10. \A i \in DOMAIN f : g[i] = f[i]
  BY <1>1, <1>6, <1>7
<1>11. x.pc = b /\ x.end = c[b].num /\ x.entry = e
  BY DEF x
<1>12. \A i \in DOMAIN g : i = n + 1 \/ i \in DOMAIN f
  BY <1>1, <1>9
<1>13. Nested(c, g)
  <2>1. g[1].end = Len(c)
    BY <1>1, <1>10 DEF Nested
  <2>2. \A i \in DOMAIN g : g[i].pc <= g[i].end /\ g[i].end <= Len(c)
    <3>1. x.pc <= x.end /\ x.end <= Len(c)
      BY <1>1, <1>2, <1>5, <1>11
    <3>. QED BY <1>9, <1>10, <1>12, <3>1 DEF Nested
  <2>3. ASSUME NEW i \in DOMAIN g, i + 1 \in DOMAIN g
        PROVE  /\ g[i].pc + 1 \in Defs(c) /\ c[g[i].pc + 1].num = g[i + 1].end
               /\ g[i + 1].end <= g[i].end
    <3>1. i \in DOMAIN f
      BY <1>1, <1>9, <2>3
    <3>2. CASE i = n
      <4>1. g[i] = f[n] /\ g[i + 1] = x
        BY <1>9, <1>10, <3>1, <3>2
      <4>. QED BY <1>4, <1>8, <1>11, <4>1
    <3>3. CASE i # n
      <4>1. i + 1 \in DOMAIN f
        BY <1>1, <3>1, <3>3
      <4>. QED BY <1>10, <3>1, <4>1 DEF Nested
    <3>. QED BY <3>2, <3>3
  <2>4. ASSUME NEW i \in DOMAIN g, NEW j \in DOMAIN g, i < j
        PROVE  g[i].pc < g[j].pc
    <3>1. i \in DOMAIN f
      BY <1>1, <1>9, <2>4
    <3>2. CASE j \in DOMAIN f
      BY <1>10, <2>4, <3>1, <3>2 DEF Nested
    <3>3. CASE j = n + 1
      <4>1. i = n \/ f[i].pc < f[n].pc
        BY <1>1, <3>1 DEF Nested
      <4>2. f[n].pc \in Nat /\ f[i].pc \in Nat /\ g[i].pc = f[i].pc /\ g[j].pc = b
        BY <1>1, <1>2, <1>9, <1>10, <1>11, <3>1, <3>3
      <4>3. b = f[n].pc + 1
        OBVIOUS
      <4>. QED BY ONLY <4>1, <4>2, <4>3
    <3>. QED BY <1>12, <3>2, <3>3
  <2>. QED BY <2>1, <2>2, <2>3, <2>4 DEF Nested
<1>. QED BY <1>9, <1>10, <1>11, <1>13

\* The call for a body returns.
LEMMA CallLeaves ==
  ASSUME NEW c \in Seq(Opcode), NEW f \in Seq(Calls), Len(f) > 1, Nested(c, f),
         f[Len(f)].pc >= f[Len(f)].end,
         NEW g, g = Left(f)
  PROVE  /\ g \in Seq(Calls) /\ Len(g) = Len(f) - 1 /\ Nested(c, g)
         /\ f[Len(f)].end = f[Len(f)].pc
         /\ \A i \in 1 .. (Len(f) - 1) :
               /\ g[i].pc = IF i = Len(f) - 1 THEN f[Len(f)].pc ELSE f[i].pc
               /\ g[i].end = f[i].end /\ g[i].entry = f[i].entry
<1>. DEFINE n == Len(f)
            h == SubSeq(f, 1, n - 1)
<1>1. n \in DOMAIN f /\ n - 1 \in DOMAIN f /\ n - 1 < n
      /\ n \in Nat /\ n - 1 \in Nat /\ DOMAIN f = 1 .. n /\ Len(c) \in Nat
  OBVIOUS
<1>2. ASSUME NEW i \in DOMAIN f
      PROVE  f[i].pc \in Nat /\ f[i].end \in Nat /\ f[i].entry \in Nat /\ i \in Nat
  <2>1. f[i] \in Calls
    OBVIOUS
  <2>. QED BY <1>1, <2>1 DEF Calls
<1>3. f[n].end = f[n].pc
  BY <1>1, <1>2 DEF Nested
<1>4. h \in Seq(Calls) /\ Len(h) = n - 1 /\ \A i \in 1 .. (n - 1) : h[i] = f[i]
  BY <1>1
<1>5. g = [h EXCEPT ![n - 1].pc = f[n].end]
  BY DEF Left
<1>. HIDE DEF h
<1>. DEFINE x == [f[n - 1] EXCEPT !.pc = f[n].end]
<1>6. g = [h EXCEPT ![n - 1] = x]
  <2>1. n - 1 \in 1 .. (n - 1)
    BY <1>1
  <2>2. h[n - 1] = f[n - 1]
    BY ONLY <1>4, <2>1
  <2>. QED BY <1>5, <2>2
<1>7. x \in Calls /\ x.pc = f[n].end /\ x.end = f[n - 1].end /\ x.entry = f[n - 1].entry
  <2>1. f[n - 1] \in Calls
    BY <1>1
  <2>. QED BY <1>1, <1>2, <2>1 DEF Calls
<1>. HIDE DEF x
<1>8. g \in Seq(Calls) /\ Len(g) = n - 1 /\ DOMAIN g = 1 .. (n - 1)
      /\ \A i \in 1 .. (n - 1) : g[i] = IF i = n - 1 THEN x ELSE f[i]
  <2>1. n - 1 \in 1 .. Len(h)
    BY <1>1, <1>4
  <2>2. g \in Seq(Calls) /\ Len(g) = Len(h) /\ DOMAIN g = DOMAIN h
        /\ \A i \in 1 .. Len(h) : g[i] = IF i = n - 1 THEN x ELSE h[i]
    BY ONLY <1>4, <1>6, <1>7, <2>1, Replaced
  <2>3. DOMAIN h = 1 .. (n - 1)
    BY ONLY <1>4
  <2>4. \A i \in 1 .. (n - 1) : g[i] = IF i = n - 1 THEN x ELSE f[i]
    BY ONLY <1>4, <2>2
  <2>. QED BY ONLY <1>4, <2>2, <2>3, <2>4
<1>9. \A i \in 1 .. (n - 1) :
         /\ g[i].pc = IF i = n - 1 THEN f[n].pc ELSE f[i].pc
         /\ g[i].end = f[i].end /\ g[i].entry = f[i].entry
  BY <1>3, <1>7, <1>8
<1>10. \A i \in 1 .. (n - 1) : i \in DOMAIN f /\ i < n
  BY <1>1
<1>11. Nested(c, g)
  <2>1. g[1].end = Len(c)
    <3>1. 1 \in 1 .. (n - 1)
      BY <1>1
    <3>. QED BY <1>9, <3>1 DEF Nested
  <2>2. ASSUME NEW i \in DOMAIN g
        PROVE  g[i].pc <= g[i].end /\ g[i].end <= Len(c)
    <3>1. i \in 1 .. (n - 1) /\ i \in DOMAIN f
      BY <1>8, <1>10
    <3>2. f[i].pc <= f[i].end /\ f[i].end <= Len(c)
      BY <3>1 DEF Nested
    <3>3. CASE i = n - 1
      <4>1. f[n].end <= f[i].end
        BY <1>1, <3>3 DEF Nested
      <4>. QED BY <1>3, <1>9, <3>1, <3>2, <3>3, <4>1
    <3>. QED BY <1>9, <3>1, <3>2, <3>3
  <2>3. ASSUME NEW i \in DOMAIN g, i + 1 \in DOMAIN g
        PROVE  /\ g[i].pc + 1 \in Defs(c) /\ c[g[i].pc + 1].num = g[i + 1].end
               /\ g[i + 1].end <= g[i].end
    <3>0. i \in 1 .. (n - 1) /\ i + 1 \in 1 .. (n - 1)
      BY ONLY <1>8, <2>3
    <3>1. /\ i \in 1 .. (n - 1) /\ i + 1 \in 1 .. (n - 1) /\ i # n - 1
          /\ i \in DOMAIN f /\ i + 1 \in DOMAIN f
      BY <1>10, <3>0
    <3>2. /\ f[i].pc + 1 \in Defs(c) /\ c[f[i].pc + 1].num = f[i + 1].end
          /\ f[i + 1].end <= f[i].end
      BY <3>1 DEF Nested
    <3>. QED BY <1>9, <3>1, <3>2
  <2>4. ASSUME NEW i \in DOMAIN g, NEW j \in DOMAIN g, i < j
        PROVE  g[i].pc < g[j].pc
    <3>0. i \in 1 .. (n - 1) /\ j \in 1 .. (n - 1)
      BY ONLY <1>8, <2>4
    <3>1. /\ i \in 1 .. (n - 1) /\ j \in 1 .. (n - 1) /\ i # n - 1
          /\ i \in DOMAIN f /\ j \in DOMAIN f /\ i < n
      BY <1>10, <2>4, <3>0
    <3>2. f[i].pc < f[j].pc /\ f[i].pc < f[n].pc
      BY <1>1, <2>4, <3>1 DEF Nested
    <3>. QED BY <1>9, <3>1, <3>2
  <2>. QED BY <2>1, <2>2, <2>3, <2>4 DEF Nested
<1>. QED BY <1>3, <1>8, <1>9, <1>11
=============================================================================
