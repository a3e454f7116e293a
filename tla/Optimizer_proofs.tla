--------------------------- MODULE Optimizer_proofs ---------------------------
(***************************************************************************)
(* What optimize() guarantees for every set of matched vectors and every   *)
(* initial capacity of its output, with proofs that TLAPS checks.          *)
(***************************************************************************)
EXTENDS Optimizer, Data_proofs, FiniteSetTheorems

-----------------------------------------------------------------------------
(* Clear loops.                                                            *)

\* The opcode at C index k keeps a place of its own.
IsKept(c, k) == ~ClearLoopAt(c, k - 1) /\ ~ClearLoopAt(c, k - 2)

\* The opcodes of a clear loop at C index k, and where they are.
LEMMA ClearLoopShape ==
  ASSUME NEW c, NEW k \in Int, ClearLoopAt(c, k)
  PROVE  /\ k >= 0 /\ k + 2 < Len(c)
         /\ c[k + 1].op = "op_jf"
         /\ c[k + 2].op \in {"op_add", "op_sub"} /\ c[k + 2].num = 1
         /\ c[k + 3].op = "op_jt"
<1>1. c[k + 2] = Op("op_add", 1) \/ c[k + 2] = Op("op_sub", 1)
  BY DEF ClearLoopAt
<1>2. c[k + 2].op \in {"op_add", "op_sub"} /\ c[k + 2].num = 1
  BY <1>1, OpFields
<1>. QED BY <1>2 DEF ClearLoopAt

\* In matched code the brackets of a clear loop are each other's.
LEMMA ClearLoopIsPaired ==
  ASSUME NEW c \in MatchedCode, NEW k \in Int, ClearLoopAt(c, k)
  PROVE  c[k + 1].num = k + 3 /\ c[k + 3].num = k
<1>. DEFINE n == Len(c)
<1>1. n \in Nat /\ DOMAIN c = 1 .. n /\ c \in Seq(Opcode)
  BY DEF MatchedCode
<1>2. \A a \in 1 .. n : c[a].num \in Nat
  <2>1. \A a \in 1 .. n : c[a] \in Opcode
    BY <1>1
  <2>. QED BY <2>1 DEF Opcode
<1>. HIDE DEF n
<1>3. /\ k \in Nat /\ k + 3 \in 1 .. n /\ k + 1 \in 1 .. n /\ k + 2 \in 1 .. n
      /\ c[k + 1].op = "op_jf" /\ c[k + 3].op = "op_jt"
      /\ c[k + 2].op \in {"op_add", "op_sub"}
  BY <1>1, ClearLoopShape DEF n
<1>4. c[k + 1].num \in (k + 2) .. n /\ Paired(c, k + 1, c[k + 1].num)
  <2>1. c[k + 1].num \in (k + 1 + 1) .. Len(c) /\ Paired(c, k + 1, c[k + 1].num)
    BY <1>1, <1>3 DEF MatchedCode, Matched, OpensPaired
  <2>. QED BY <1>1, <1>3, <2>1 DEF n
<1>5. /\ c[k + 3].num + 1 \in 1 .. (k + 2)
      /\ Paired(c, c[k + 3].num + 1, k + 3)
  <2>1. /\ c[k + 3].num + 1 \in 1 .. (k + 3 - 1)
        /\ Paired(c, c[k + 3].num + 1, k + 3)
    BY <1>1, <1>3 DEF MatchedCode, Matched, ClosesPaired
  <2>. QED BY <1>3, <2>1
<1>6. c[k + 1].num # k + 2
  BY <1>3, <1>4 DEF Paired
<1>7. CASE c[k + 3].num = k
  BY <1>3, <1>5, <1>7 DEF Paired
<1>8. CASE c[k + 3].num # k
  <2>. DEFINE a == c[k + 3].num + 1
  <2>1. a \in 1 .. n /\ a < k + 1 /\ c[a].op = "op_jf" /\ c[a].num = k + 3
    <3>1. a # k + 2
      BY <1>3, <1>5 DEF Paired
    <3>. QED BY <1>1, <1>2, <1>3, <1>5, <1>8, <3>1 DEF Paired
  <2>2. c[k + 1].num < k + 3
    <3>. HIDE DEF a
    <3>. QED BY <1>1, <1>3, <2>1 DEF MatchedCode, Matched, LoopsNest
  <2>. QED BY <1>2, <1>3, <1>4, <1>6, <2>2
<1>. QED BY <1>7, <1>8

\* So what the code asks of a clear loop is what the reference does.
LEMMA ClearLoops ==
  ASSUME inp \in MatchedCode, NEW k \in Int
  PROVE  k >= 0 => (IsClearLoop(k) <=> ClearLoopAt(inp, k))
<1>1. ASSUME k >= 0, IsClearLoop(k) PROVE ClearLoopAt(inp, k)
  <2>1. k + 2 \in DOMAIN inp /\ inp \in Seq(Opcode)
    BY <1>1 DEF IsClearLoop, MatchedCode
  <2>2. inp[k + 2] \in Opcode
    BY <2>1
  <2>3. inp[k + 2] \in {Op("op_add", 1), Op("op_sub", 1)}
    BY <1>1, <2>2 DEF IsClearLoop, Op, Opcode
  <2>. QED BY <1>1, <2>3 DEF IsClearLoop, ClearLoopAt
<1>2. ASSUME k >= 0, ClearLoopAt(inp, k) PROVE IsClearLoop(k)
  BY <1>2, ClearLoopShape, ClearLoopIsPaired DEF IsClearLoop
<1>. QED BY <1>1, <1>2

LEMMA SwallowedIsNotKept ==
  ASSUME inp \in MatchedCode, NEW k \in Int
  PROVE  Swallowed(k) <=> ~IsKept(inp, k)
<1>1. \A s \in Int : ClearLoopAt(inp, s) <=> s >= 0 /\ IsClearLoop(s)
  BY ClearLoops, ClearLoopShape
<1>2. k - 1 \in Int /\ k - 2 \in Int
  OBVIOUS
<1>. QED BY <1>1, <1>2 DEF Swallowed, IsKept

-----------------------------------------------------------------------------
(* Counting the opcodes that keep a place.                                 *)

LEMMA KeptStep ==
  ASSUME NEW c, NEW n \in Nat
  PROVE  /\ Kept(c, 0) = {}
         /\ Kept(c, n + 1) = IF IsKept(c, n) THEN Kept(c, n) \cup {n} ELSE Kept(c, n)
         /\ n \notin Kept(c, n)
<1>1. 0 .. (0 - 1) = {} /\ 0 .. (n + 1 - 1) = (0 .. (n - 1)) \cup {n} /\ n \notin 0 .. (n - 1)
  OBVIOUS
<1>. QED BY <1>1 DEF Kept, IsKept

LEMMA KeptIsFinite ==
  ASSUME NEW c, NEW n \in Nat
  PROVE  IsFiniteSet(Kept(c, n)) /\ NewIndex(c, n) \in Nat /\ NewIndex(c, n) <= n
<1>1. IsFiniteSet(0 .. (n - 1)) /\ Cardinality(0 .. (n - 1)) = n
  BY FS_Interval
<1>2. Kept(c, n) \in SUBSET (0 .. (n - 1))
  BY DEF Kept
<1>3. IsFiniteSet(Kept(c, n)) /\ Cardinality(Kept(c, n)) <= n
  BY <1>1, <1>2, FS_Subset
<1>. QED BY <1>3, FS_CardinalityType DEF NewIndex

\* The new index goes up by one at every opcode that keeps a place.
LEMMA NewIndexStep ==
  ASSUME NEW c, NEW n \in Nat
  PROVE  /\ NewIndex(c, 0) = 0
         /\ NewIndex(c, n + 1) = IF IsKept(c, n) THEN NewIndex(c, n) + 1 ELSE NewIndex(c, n)
<1>1. IsFiniteSet(Kept(c, n))
  BY KeptIsFinite
<1>2. Cardinality(Kept(c, n) \cup {n}) = Cardinality(Kept(c, n)) + 1
  BY <1>1, KeptStep, FS_AddElement
<1>. QED BY <1>2, KeptStep, FS_EmptySet DEF NewIndex

\* New indexes keep the order of the old ones, strictly for what is kept.
LEMMA NewIndexIsMonotone ==
  ASSUME NEW c, NEW m \in Nat, NEW n \in Nat
  PROVE  /\ m <= n => NewIndex(c, m) <= NewIndex(c, n)
         /\ m < n /\ IsKept(c, m) => NewIndex(c, m) < NewIndex(c, n)
<1>1. ASSUME NEW a \in Nat, NEW b \in Nat, a <= b
      PROVE  NewIndex(c, a) <= NewIndex(c, b)
  <2>1. Kept(c, a) \in SUBSET Kept(c, b)
    BY <1>1 DEF Kept
  <2>. QED BY <2>1, KeptIsFinite, FS_Subset DEF NewIndex
<1>2. ASSUME m < n, IsKept(c, m)
      PROVE  NewIndex(c, m) < NewIndex(c, n)
  <2>1. NewIndex(c, m + 1) = NewIndex(c, m) + 1
    BY <1>2, NewIndexStep
  <2>2. NewIndex(c, m + 1) <= NewIndex(c, n)
    BY <1>1, <1>2
  <2>. QED BY <2>1, <2>2, KeptIsFinite
<1>. QED BY <1>1, <1>2

\* So an opcode that is kept, or the end, is the only one at its new index.
LEMMA OldIndexOfNew ==
  ASSUME NEW c, Len(c) \in Nat, NEW k \in Kept(c, Len(c) + 1)
  PROVE  OldIndex(c, NewIndex(c, k)) = k
<1>1. \A n \in 0 .. Len(c) : n \in Kept(c, Len(c) + 1) <=> IsKept(c, n)
  BY DEF Kept, IsKept
<1>2. k \in 0 .. Len(c)
  BY DEF Kept
<1>3. \A n \in 0 .. Len(c) :
        n \in Kept(c, Len(c) + 1) /\ NewIndex(c, n) = NewIndex(c, k) => n = k
  <2>. SUFFICES ASSUME NEW n \in 0 .. Len(c), IsKept(c, n), IsKept(c, k), n # k
                PROVE  NewIndex(c, n) # NewIndex(c, k)
    BY <1>1, <1>2
  <2>1. n \in Nat /\ k \in Nat /\ (n < k \/ k < n)
    BY <1>2
  <2>. QED BY <2>1, NewIndexIsMonotone, KeptIsFinite
<1>. QED BY <1>2, <1>3 DEF OldIndex

-----------------------------------------------------------------------------
(* Where jumps go.                                                         *)

\* A '[', and what follows a ']', always keep a place of their own; so does a
\* ']' that does not end a clear loop.
LEMMA BracketsAreKept ==
  ASSUME NEW c, NEW k \in Int
  PROVE  /\ c[k + 1].op = "op_jf" => IsKept(c, k)
         /\ c[k].op = "op_jt" => IsKept(c, k)
         /\ c[k + 1].op = "op_jt" /\ ~ClearLoopAt(c, k - 2) => IsKept(c, k)
<1>1. ASSUME ClearLoopAt(c, k - 1)
      PROVE  c[k].op = "op_jf" /\ c[k + 1].op \in {"op_add", "op_sub"}
  BY <1>1, ClearLoopShape
<1>2. ASSUME ClearLoopAt(c, k - 2)
      PROVE  c[k].op \in {"op_add", "op_sub"} /\ c[k + 1].op = "op_jt"
  BY <1>2, ClearLoopShape
<1>. QED BY <1>1, <1>2 DEF IsKept

\* A loop that stays: C index k holds its '[' and C index b the opcode after its ']'.
IsLoop(c, k, b) ==
  /\ k \in Nat /\ b \in Nat /\ k + 2 <= b /\ b <= Len(c)
  /\ Paired(c, k + 1, b)
  /\ IsKept(c, k) /\ ~ClearLoopAt(c, k)
  /\ IsKept(c, b - 1) /\ IsKept(c, b) /\ ~ClearLoopAt(c, b - 1)

LEMMA LoopsOfMatchedCode ==
  ASSUME NEW c \in MatchedCode, NEW k \in Nat, k < Len(c), IsKept(c, k), ~ClearLoopAt(c, k)
  PROVE  /\ c[k + 1].op = "op_jf" => IsLoop(c, k, c[k + 1].num)
         /\ c[k + 1].op = "op_jt" => IsLoop(c, c[k + 1].num, k + 1)
<1>1. Len(c) \in Nat /\ c \in Seq(Opcode) /\ k + 1 \in DOMAIN c /\ c[k + 1].num \in Nat
  <2>1. c \in Seq(Opcode) /\ k + 1 \in DOMAIN c
    BY DEF MatchedCode
  <2>2. c[k + 1] \in Opcode /\ Len(c) \in Nat
    BY <2>1
  <2>. QED BY <2>1, <2>2 DEF Opcode
<1>2. ASSUME NEW a \in Nat, NEW b \in Nat, a + 2 <= b, b <= Len(c),
             Paired(c, a + 1, b), ~ClearLoopAt(c, a)
      PROVE  IsLoop(c, a, b)
  <2>1. c[a + 1].op = "op_jf" /\ c[a + 1].num = b /\ c[b].op = "op_jt" /\ c[b].num = a
    BY <1>2 DEF Paired
  <2>2. ~ClearLoopAt(c, b - 3)
    <3>. SUFFICES ASSUME ClearLoopAt(c, b - 3) PROVE FALSE
      OBVIOUS
    <3>1. c[(b - 3) + 3].num = b - 3
      BY ClearLoopIsPaired
    <3>2. (b - 3) + 3 = b
      OBVIOUS
    <3>. QED BY <1>2, <2>1, <3>1, <3>2
  <2>3. IsKept(c, a) /\ IsKept(c, b)
    BY <2>1, BracketsAreKept
  <2>4. IsKept(c, b - 1)
    <3>1. c[(b - 1) + 1].op = "op_jt" /\ ~ClearLoopAt(c, (b - 1) - 2)
      <4>1. (b - 1) + 1 = b /\ (b - 1) - 2 = b - 3
        OBVIOUS
      <4>. QED BY <2>1, <2>2, <4>1
    <3>. QED BY <3>1, BracketsAreKept
  <2>5. ~ClearLoopAt(c, b - 1)
    BY <2>3 DEF IsKept
  <2>. QED BY <1>2, <2>3, <2>4, <2>5 DEF IsLoop
<1>3. CASE c[k + 1].op = "op_jf"
  <2>1. c[k + 1].num \in (k + 1 + 1) .. Len(c) /\ Paired(c, k + 1, c[k + 1].num)
    BY <1>1, <1>3 DEF MatchedCode, Matched, OpensPaired
  <2>. QED BY <1>1, <1>2, <1>3, <2>1
<1>4. CASE c[k + 1].op = "op_jt"
  <2>. DEFINE a == c[k + 1].num
  <2>1. a + 1 \in 1 .. (k + 1 - 1) /\ Paired(c, a + 1, k + 1)
    BY <1>1, <1>4 DEF MatchedCode, Matched, ClosesPaired
  <2>2. ~ClearLoopAt(c, a)
    <3>. SUFFICES ASSUME ClearLoopAt(c, a) PROVE FALSE
      OBVIOUS
    <3>1. c[a + 1].num = a + 3
      BY <1>1, ClearLoopIsPaired
    <3>2. a = k - 2
      BY <1>1, <2>1, <3>1 DEF Paired
    <3>. QED BY <3>2 DEF IsKept
  <2>. HIDE DEF a
  <2>3. a \in Nat /\ a + 2 <= k + 1 /\ k + 1 <= Len(c)
    BY <1>1, <2>1 DEF a
  <2>4. IsLoop(c, a, k + 1)
    BY <1>2, <2>1, <2>2, <2>3
  <2>. QED BY <1>4, <2>4 DEF a
<1>. QED BY <1>3, <1>4

-----------------------------------------------------------------------------
(* What is left of the vector.                                             *)

\* What the first pass writes for the opcode at C index k; the second makes it
\* Final(c, k).
Copied(c, k) == IF ClearLoopAt(c, k) THEN Op("op_clear", 0) ELSE c[k + 1]

\* d has one place for each of the first n opcodes of c that is kept.
Places(c, d, n) ==
  /\ Len(d) = NewIndex(c, n)
  /\ \A t \in DOMAIN d : \E k \in Kept(c, n) : NewIndex(c, k) = t - 1

\* d is the optimised vector, place by place.
Rewritten(c, d) ==
  /\ d \in Seq(Opcode)
  /\ Places(c, d, Len(c))
  /\ \A k \in Kept(c, Len(c)) : d[NewIndex(c, k) + 1] = Final(c, k)

LEMMA KeptMeaning ==
  ASSUME NEW c, NEW n \in Nat, NEW k
  PROVE  k \in Kept(c, n) <=> k \in Nat /\ k < n /\ IsKept(c, k)
<1>1. 0 .. (n - 1) = {m \in Nat : m < n}
  OBVIOUS
<1>. QED BY <1>1 DEF Kept, IsKept

\* An opcode of the input is an opcode.
LEMMA OpcodeAt ==
  ASSUME NEW c \in MatchedCode, NEW k \in Nat, k < Len(c)
  PROVE  /\ c \in Seq(Opcode) /\ Len(c) \in Nat
         /\ k + 1 \in DOMAIN c /\ c[k + 1] \in Opcode
         /\ c[k + 1].op \in OpType /\ c[k + 1].num \in Nat
<1>1. c \in Seq(Opcode) /\ k + 1 \in DOMAIN c /\ Len(c) \in Nat
  BY DEF MatchedCode
<1>2. c[k + 1] \in Opcode
  BY <1>1
<1>. QED BY <1>1, <1>2 DEF Opcode

\* The brackets of the optimised vector are those of the loops that stay.
LEMMA FinalFields ==
  ASSUME NEW c \in MatchedCode, NEW k \in Nat, k < Len(c)
  PROVE  /\ Final(c, k) \in Opcode
         /\ \A type \in {"op_jf", "op_jt"} :
              /\ Final(c, k).op = type <=> c[k + 1].op = type /\ ~ClearLoopAt(c, k)
              /\ Final(c, k).op = type => Final(c, k).num = NewIndex(c, c[k + 1].num)
<1>1. c[k + 1] \in Opcode /\ c[k + 1].num \in Nat
  BY OpcodeAt
<1>2. NewIndex(c, c[k + 1].num) \in Nat
  BY <1>1, KeptIsFinite
<1>3. CASE ClearLoopAt(c, k)
  <2>1. Final(c, k) = Op("op_clear", 0)
    BY <1>3 DEF Final
  <2>. QED BY <1>3, <2>1 DEF Op, Opcode, OpType
<1>4. CASE ~ClearLoopAt(c, k) /\ c[k + 1].op \in {"op_jf", "op_jt"}
  <2>1. Final(c, k) = [c[k + 1] EXCEPT !.num = NewIndex(c, c[k + 1].num)]
    BY <1>4 DEF Final
  <2>. QED BY <1>1, <1>2, <1>4, <2>1 DEF Opcode
<1>5. CASE ~ClearLoopAt(c, k) /\ c[k + 1].op \notin {"op_jf", "op_jt"}
  <2>1. Final(c, k) = c[k + 1]
    BY <1>5 DEF Final
  <2>. QED BY <1>1, <1>5, <2>1
<1>. QED BY <1>3, <1>4, <1>5

\* The vector built place by place is the reference.
LEMMA RewrittenIsOptimised ==
  ASSUME NEW c \in MatchedCode, NEW d, Rewritten(c, d)
  PROVE  d = Optimised(c)
<1>1. Len(c) \in Nat
  BY DEF MatchedCode
<1>2. d \in Seq(Opcode) /\ DOMAIN d = 1 .. NewIndex(c, Len(c))
  BY DEF Rewritten, Places
<1>3. ASSUME NEW t \in 1 .. NewIndex(c, Len(c))
      PROVE  d[t] = Final(c, OldIndex(c, t - 1))
  <2>1. PICK k \in Kept(c, Len(c)) : NewIndex(c, k) = t - 1
    BY <1>2 DEF Rewritten, Places
  <2>2. k \in Kept(c, Len(c) + 1)
    BY <1>1, KeptMeaning
  <2>3. OldIndex(c, t - 1) = k
    BY <1>1, <2>1, <2>2, OldIndexOfNew
  <2>4. d[NewIndex(c, k) + 1] = Final(c, k)
    BY DEF Rewritten
  <2>5. NewIndex(c, k) + 1 = t
    BY <2>1
  <2>. QED BY <2>3, <2>4, <2>5
<1>4. Optimised(c) = [t \in 1 .. NewIndex(c, Len(c)) |-> Final(c, OldIndex(c, t - 1))]
  BY DEF Optimised
<1>5. d = [t \in 1 .. NewIndex(c, Len(c)) |-> d[t]]
  BY <1>2
<1>. QED BY <1>3, <1>4, <1>5

\* A loop that stays is a loop of the optimised vector.
LEMMA LoopIsRewritten ==
  ASSUME NEW c \in MatchedCode, NEW d, Rewritten(c, d), NEW k, NEW b, IsLoop(c, k, b)
  PROVE  /\ NewIndex(c, k) + 2 <= NewIndex(c, b) /\ NewIndex(c, b) <= Len(d)
         /\ Paired(d, NewIndex(c, k) + 1, NewIndex(c, b))
<1>1. /\ Len(c) \in Nat /\ k \in Nat /\ b \in Nat /\ k + 2 <= b /\ b <= Len(c)
      /\ IsKept(c, k) /\ IsKept(c, b - 1)
      /\ ~ClearLoopAt(c, k) /\ ~ClearLoopAt(c, b - 1)
  BY DEF IsLoop, MatchedCode
<1>2. /\ c[k + 1].op = "op_jf" /\ c[k + 1].num = b
      /\ c[b].op = "op_jt" /\ c[b].num = k
  BY <1>1 DEF IsLoop, Paired
<1>3. b - 1 \in Nat /\ (b - 1) + 1 = b
  BY <1>1
<1>4. NewIndex(c, b) = NewIndex(c, b - 1) + 1
  BY <1>1, <1>3, NewIndexStep
<1>5. NewIndex(c, k) < NewIndex(c, b - 1) /\ NewIndex(c, b) <= NewIndex(c, Len(c))
  BY <1>1, <1>3, NewIndexIsMonotone
<1>6. NewIndex(c, k) \in Nat /\ NewIndex(c, b - 1) \in Nat /\ NewIndex(c, Len(c)) \in Nat
  BY <1>1, <1>3, KeptIsFinite
<1>7. Len(d) = NewIndex(c, Len(c))
  BY DEF Rewritten, Places
<1>8. d[NewIndex(c, k) + 1] = Final(c, k) /\ d[NewIndex(c, b)] = Final(c, b - 1)
  <2>1. k \in Kept(c, Len(c)) /\ b - 1 \in Kept(c, Len(c))
    BY <1>1, <1>3, KeptMeaning
  <2>. QED BY <1>4, <2>1 DEF Rewritten
<1>9. Final(c, k).op = "op_jf" /\ Final(c, k).num = NewIndex(c, b)
  BY <1>1, <1>2, FinalFields
<1>10. Final(c, b - 1).op = "op_jt" /\ Final(c, b - 1).num = NewIndex(c, k)
  <2>1. b - 1 < Len(c)
    BY <1>1
  <2>. QED BY <1>1, <1>2, <1>3, <2>1, FinalFields
<1>. QED BY <1>4, <1>5, <1>6, <1>7, <1>8, <1>9, <1>10 DEF Paired

\* And the optimised vector has no other bracket.
LEMMA BracketsAreRewritten ==
  ASSUME NEW c \in MatchedCode, NEW d, Rewritten(c, d), NEW t \in DOMAIN d
  PROVE  /\ d[t].op = "op_jf" =>
              \E k \in Nat, b \in Nat :
                 IsLoop(c, k, b) /\ t = NewIndex(c, k) + 1 /\ d[t].num = NewIndex(c, b)
         /\ d[t].op = "op_jt" =>
              \E k \in Nat, b \in Nat :
                 IsLoop(c, k, b) /\ t = NewIndex(c, b) /\ d[t].num = NewIndex(c, k)
<1>1. PICK k \in Kept(c, Len(c)) : NewIndex(c, k) = t - 1
  BY DEF Rewritten, Places
<1>2. Len(c) \in Nat /\ t \in Nat
  BY DEF MatchedCode, Rewritten
<1>3. k \in Nat /\ k < Len(c) /\ IsKept(c, k)
  BY <1>2, KeptMeaning
<1>4. t = NewIndex(c, k) + 1 /\ d[t] = Final(c, k)
  <2>1. t = NewIndex(c, k) + 1
    BY <1>1, <1>2
  <2>. QED BY <2>1 DEF Rewritten
<1>5. NewIndex(c, k + 1) = t
  BY <1>3, <1>4, NewIndexStep
<1>6. c[k + 1].num \in Nat /\ k + 1 \in Nat
  BY <1>3, OpcodeAt
<1>7. ASSUME d[t].op = "op_jf"
      PROVE  IsLoop(c, k, c[k + 1].num) /\ d[t].num = NewIndex(c, c[k + 1].num)
  BY <1>3, <1>4, <1>7, FinalFields, LoopsOfMatchedCode
<1>8. ASSUME d[t].op = "op_jt"
      PROVE  IsLoop(c, c[k + 1].num, k + 1) /\ d[t].num = NewIndex(c, c[k + 1].num)
  BY <1>3, <1>4, <1>8, FinalFields, LoopsOfMatchedCode
<1>. QED BY <1>3, <1>4, <1>5, <1>6, <1>7, <1>8

\* So its brackets are matched.
LEMMA RewrittenIsMatched ==
  ASSUME NEW c \in MatchedCode, NEW d, Rewritten(c, d)
  PROVE  Matched(d)
<1>1. Len(d) \in Nat /\ DOMAIN d = 1 .. Len(d)
  BY DEF Rewritten
<1>2. \A n \in Nat : NewIndex(c, n) \in Nat
  BY KeptIsFinite
<1>3. OpensPaired(d, {})
  <2>. SUFFICES ASSUME NEW a \in DOMAIN d, d[a].op = "op_jf"
                PROVE  d[a].num \in (a + 1) .. Len(d) /\ Paired(d, a, d[a].num)
    BY DEF OpensPaired
  <2>1. PICK k \in Nat, b \in Nat :
          IsLoop(c, k, b) /\ a = NewIndex(c, k) + 1 /\ d[a].num = NewIndex(c, b)
    BY BracketsAreRewritten
  <2>. QED BY <1>1, <1>2, <2>1, LoopIsRewritten
<1>4. ClosesPaired(d)
  <2>. SUFFICES ASSUME NEW e \in DOMAIN d, d[e].op = "op_jt"
                PROVE  d[e].num + 1 \in 1 .. (e - 1) /\ Paired(d, d[e].num + 1, e)
    BY DEF ClosesPaired
  <2>1. PICK k \in Nat, b \in Nat :
          IsLoop(c, k, b) /\ e = NewIndex(c, b) /\ d[e].num = NewIndex(c, k)
    BY BracketsAreRewritten
  <2>2. NewIndex(c, k) + 2 <= e
    BY <2>1, LoopIsRewritten
  <2>3. Paired(d, NewIndex(c, k) + 1, e)
    BY <2>1, LoopIsRewritten
  <2>4. NewIndex(c, k) + 1 \in 1 .. (e - 1)
    <3>1. NewIndex(c, k) \in Nat
      BY <1>2
    <3>2. e \in Nat
      BY ONLY <1>1, e \in DOMAIN d
    <3>. QED BY ONLY <2>2, <3>1, <3>2
  <2>. QED BY <2>1, <2>3, <2>4
<1>5. LoopsNest(d)
  <2>. SUFFICES ASSUME NEW a \in DOMAIN d, NEW e \in DOMAIN d,
                       d[a].op = "op_jf", d[e].op = "op_jf", a < e, e < d[a].num
                PROVE  d[e].num < d[a].num
    BY DEF LoopsNest
  <2>1. PICK ka \in Nat, ba \in Nat :
          IsLoop(c, ka, ba) /\ a = NewIndex(c, ka) + 1 /\ d[a].num = NewIndex(c, ba)
    BY BracketsAreRewritten
  <2>2. PICK ke \in Nat, be \in Nat :
          IsLoop(c, ke, be) /\ e = NewIndex(c, ke) + 1 /\ d[e].num = NewIndex(c, be)
    BY BracketsAreRewritten
  <2>3. ka < ke
    <3>1. NewIndex(c, ka) < NewIndex(c, ke)
      BY <1>2, <2>1, <2>2
    <3>. QED BY <1>2, <3>1, NewIndexIsMonotone
  <2>4. ke < ba
    <3>1. NewIndex(c, ke) < NewIndex(c, ba)
      BY <1>2, <2>1, <2>2
    <3>. QED BY <1>2, <3>1, NewIndexIsMonotone
  <2>5. /\ c[ka + 1].op = "op_jf" /\ c[ka + 1].num = ba /\ c[ba].op = "op_jt"
        /\ c[ke + 1].op = "op_jf" /\ c[ke + 1].num = be
        /\ ba <= Len(c) /\ Len(c) \in Nat /\ IsKept(c, be)
    BY <2>1, <2>2 DEF IsLoop, Paired, MatchedCode
  <2>6. ke + 1 < ba
    BY <2>4, <2>5
  <2>7. be < ba
    <3>1. ka + 1 \in DOMAIN c /\ ke + 1 \in DOMAIN c
      BY <2>3, <2>5, <2>6 DEF MatchedCode
    <3>2. LoopsNest(c)
      BY DEF MatchedCode, Matched
    <3>. QED BY <2>3, <2>5, <2>6, <3>1, <3>2 DEF LoopsNest
  <2>. QED BY <2>1, <2>2, <2>5, <2>7, NewIndexIsMonotone
<1>. QED BY <1>3, <1>4, <1>5 DEF Matched

\* Nor does optimize() bring in opcodes of the lambda syntax.
LEMMA RewrittenIsPlain ==
  ASSUME NEW c \in MatchedCode, NEW d, Rewritten(c, d), Plain(c)
  PROVE  Plain(d)
<1>1. Len(c) \in Nat /\ DOMAIN c = 1 .. Len(c)
  BY DEF MatchedCode
<1>2. ASSUME NEW t \in DOMAIN d
      PROVE  d[t].op \notin {"op_def_lambda", "op_ret", "op_call"}
  <2>1. PICK k \in Kept(c, Len(c)) : NewIndex(c, k) = t - 1
    BY DEF Rewritten, Places
  <2>2. d[t] = Final(c, k)
    <3>1. t \in Int
      BY DEF Rewritten
    <3>. QED BY <2>1, <3>1 DEF Rewritten
  <2>3. k \in Nat /\ k < Len(c) /\ k + 1 \in DOMAIN c
    BY <1>1, KeptMeaning
  <2>4. c[k + 1] \in Opcode /\ c[k + 1].op \notin {"op_def_lambda", "op_ret", "op_call"}
    BY <2>3, OpcodeAt DEF Plain
  <2>5. CASE ClearLoopAt(c, k)
    BY <2>2, <2>5 DEF Final, Op
  <2>6. CASE ~ClearLoopAt(c, k)
    BY <2>2, <2>4, <2>6 DEF Final, Opcode
  <2>. QED BY <2>5, <2>6
<1>. QED BY <1>2 DEF Plain

-----------------------------------------------------------------------------
(* The inductive invariant.                                                *)

\* Nothing has been written before the first pass.
BeforePasses == status = "entered" => i = 0 /\ out = Freed /\ map = << >>

\* The first pass stands at an opcode that keeps its place, and has written
\* those before it.
FirstPass ==
  status = "pass1" =>
    /\ IsKept(inp, i)
    /\ Places(inp, out.data, i)
    /\ \A k \in Kept(inp, i) : out.data[NewIndex(inp, k) + 1] = Copied(inp, k)

\* The map as MapIsExact has it, in the words of the reference.
MapSoFar ==
  status \in {"pass1", "pass2"} =>
    /\ Len(map) = Len(inp) + 1
    /\ \A k \in 0 .. Len(inp) :
         map[k + 1] = IF Passed(k) /\ IsKept(inp, k) THEN NewIndex(inp, k) ELSE NOT_MAPPED

\* The second pass has finished what stands before i and not touched the rest.
SecondPass ==
  status = "pass2" =>
    /\ i <= Len(out.data)
    /\ Places(inp, out.data, Len(inp))
    /\ \A k \in Kept(inp, Len(inp)) :
         out.data[NewIndex(inp, k) + 1] =
           IF NewIndex(inp, k) < i THEN Final(inp, k) ELSE Copied(inp, k)

AfterPasses == status = "ok" => Rewritten(inp, out.data)

IInv ==
  /\ TypeOK /\ TargetsSurvive /\ MapIsFreed
  /\ BeforePasses /\ FirstPass /\ MapSoFar /\ SecondPass /\ AfterPasses

-----------------------------------------------------------------------------
(* The first pass.                                                         *)

\* How many opcodes one step of the first pass takes at C index k.
Taken(c, k) == IF ClearLoopAt(c, k) THEN 3 ELSE 1

\* The step stands again at an opcode that is kept, past none but the first.
LEMMA TakenIsOnePlace ==
  ASSUME NEW c \in MatchedCode, NEW k \in Nat, k < Len(c), IsKept(c, k)
  PROVE  /\ k + Taken(c, k) \in Nat /\ k + Taken(c, k) <= Len(c)
         /\ IsKept(c, k + Taken(c, k))
         /\ \A m \in Nat : k < m /\ m < k + Taken(c, k) => ~IsKept(c, m)
         /\ \A m : m \in Kept(c, k + Taken(c, k)) <=> m \in Kept(c, k) \/ m = k
         /\ NewIndex(c, k + Taken(c, k)) = NewIndex(c, k) + 1
<1>1. Len(c) \in Nat
  BY DEF MatchedCode
<1>2. CASE ClearLoopAt(c, k)
  <2>1. k + 3 <= Len(c) /\ c[k + 3].op = "op_jt"
    BY <1>1, <1>2, ClearLoopShape
  <2>2. IsKept(c, k + 3)
    BY <2>1, BracketsAreKept
  <2>3. ~IsKept(c, k + 1) /\ ~IsKept(c, k + 2)
    <3>1. (k + 1) - 1 = k /\ (k + 2) - 2 = k
      OBVIOUS
    <3>. QED BY <1>2, <3>1 DEF IsKept
  <2>4. \A m \in Nat : k < m /\ m < k + 3 => m = k + 1 \/ m = k + 2
    OBVIOUS
  <2>5. NewIndex(c, k + 3) = NewIndex(c, k) + 1
    <3>1. NewIndex(c, k + 1) = NewIndex(c, k) + 1
      BY NewIndexStep
    <3>2. k + 1 \in Nat /\ k + 2 \in Nat /\ (k + 1) + 1 = k + 2 /\ (k + 2) + 1 = k + 3
      OBVIOUS
    <3>3. NewIndex(c, k + 2) = NewIndex(c, k + 1)
      BY <2>3, <3>2, NewIndexStep
    <3>4. NewIndex(c, k + 3) = NewIndex(c, k + 2)
      BY <2>3, <3>2, NewIndexStep
    <3>. QED BY <3>1, <3>3, <3>4
  <2>6. ASSUME NEW m
        PROVE  m \in Kept(c, k + 3) <=> m \in Kept(c, k) \/ m = k
    <3>1. m \in Kept(c, k + 3) <=> m \in Nat /\ m < k + 3 /\ IsKept(c, m)
      BY KeptMeaning
    <3>2. m \in Kept(c, k) <=> m \in Nat /\ m < k /\ IsKept(c, m)
      BY KeptMeaning
    <3>3. m \in Nat /\ m < k + 3 <=> m \in Nat /\ (m < k \/ m = k \/ m = k + 1 \/ m = k + 2)
      OBVIOUS
    <3>. QED BY <2>3, <3>1, <3>2, <3>3
  <2>. QED BY <1>2, <2>1, <2>2, <2>3, <2>4, <2>5, <2>6 DEF Taken
<1>3. CASE ~ClearLoopAt(c, k)
  <2>1. IsKept(c, k + 1)
    <3>1. (k + 1) - 1 = k /\ (k + 1) - 2 = k - 1
      OBVIOUS
    <3>. QED BY <1>3, <3>1 DEF IsKept
  <2>2. NewIndex(c, k + 1) = NewIndex(c, k) + 1
    BY NewIndexStep
  <2>3. Kept(c, k + 1) = Kept(c, k) \cup {k}
    BY KeptStep
  <2>. QED BY <1>1, <1>3, <2>1, <2>2, <2>3 DEF Taken
<1>. QED BY <1>2, <1>3

\* What the first pass writes is an opcode.
LEMMA CopiedType ==
  ASSUME NEW c \in MatchedCode, NEW k \in Nat, k < Len(c)
  PROVE  Copied(c, k) \in Opcode
BY OpcodeAt DEF Copied, Op, Opcode, OpType

\* A failing return other than the two of the second pass.
LEMMA FailStep ==
  ASSUME IInv, Fail("oom")
  PROVE  IInv'
<1>1. TypeOK'
  BY DEF IInv, TypeOK, Fail, Failures
<1>. QED BY <1>1 DEF IInv, Fail, TargetsSurvive, MapIsFreed, BeforePasses, FirstPass,
                     MapSoFar, SecondPass, AfterPasses

\* One iteration of the first pass, whichever of its branches it takes.
LEMMA EmitStep ==
  ASSUME IInv, status = "pass1", i < Len(inp), Emit(Copied(inp, i), Taken(inp, i))
  PROVE  IInv'
<1>. DEFINE op == Copied(inp, i)
            n  == Taken(inp, i)
<1>1. /\ inp \in MatchedCode /\ Len(inp) \in Nat /\ i \in Nat /\ IsKept(inp, i)
      /\ out \in ArrayOf(Opcode) /\ out.data \in Seq(Opcode) /\ Len(out.data) = NewIndex(inp, i)
      /\ map \in Seq(Nat \cup {NOT_MAPPED}) /\ Len(map) = Len(inp) + 1
      /\ NewIndex(inp, i) \in Nat
  <2>1. inp \in MatchedCode /\ Len(inp) \in Nat /\ i \in Nat
    BY DEF IInv, TypeOK, MatchedCode
  <2>. QED BY <2>1, KeptIsFinite DEF IInv, TypeOK, FirstPass, MapSoFar, Places, ArrayOf
<1>2. /\ i + n \in Nat /\ i + n <= Len(inp) /\ IsKept(inp, i + n)
      /\ \A m \in Nat : i < m /\ m < i + n => ~IsKept(inp, m)
      /\ \A m : m \in Kept(inp, i + n) <=> m \in Kept(inp, i) \/ m = i
      /\ NewIndex(inp, i + n) = NewIndex(inp, i) + 1
  BY <1>1, TakenIsOnePlace
<1>3. op \in Opcode
  BY <1>1, CopiedType
<1>4. \A m \in Kept(inp, i) : m \in Nat /\ m < i /\ NewIndex(inp, m) \in Nat
                              /\ NewIndex(inp, m) < NewIndex(inp, i)
  BY <1>1, KeptMeaning, NewIndexIsMonotone, KeptIsFinite
<1>. HIDE DEF op, n
<1>5. ASSUME out' = Pushed(out, op), map' = Recorded(n), i' = i + n, UNCHANGED <<inp, status>>
      PROVE  IInv'
  <2>1. out' \in ArrayOf(Opcode) /\ out'.data = Append(out.data, op)
    BY <1>1, <1>3, <1>5, PushedType
  <2>2. /\ Len(out'.data) = NewIndex(inp, i) + 1
        /\ out'.data[NewIndex(inp, i) + 1] = op
        /\ \A t \in 1 .. NewIndex(inp, i) : out'.data[t] = out.data[t]
    BY <1>1, <1>3, <2>1
  <2>3. map' = [k \in 1 .. (Len(inp) + 1) |->
                  IF k = i + 1 THEN NewIndex(inp, i)
                  ELSE IF k \in (i + 2) .. (i + n) THEN NOT_MAPPED ELSE map[k]]
    BY <1>1, <1>5 DEF Recorded
  <2>4. /\ map' \in Seq(Nat \cup {NOT_MAPPED}) /\ Len(map') = Len(inp) + 1
        /\ \A k \in 0 .. Len(inp) :
             map'[k + 1] = IF k = i THEN NewIndex(inp, i)
                           ELSE IF i < k /\ k < i + n THEN NOT_MAPPED ELSE map[k + 1]
    <3>1. \A k \in 1 .. (Len(inp) + 1) : map[k] \in Nat \cup {NOT_MAPPED}
      BY <1>1
    <3>2. map' \in [1 .. (Len(inp) + 1) -> Nat \cup {NOT_MAPPED}]
      BY <1>1, <2>3, <3>1
    <3>3. \A k \in 0 .. Len(inp) : k + 1 \in (i + 2) .. (i + n) <=> i < k /\ k < i + n
      BY <1>1, <1>2
    <3>4. ASSUME NEW k \in 0 .. Len(inp)
          PROVE  map'[k + 1] = IF k = i THEN NewIndex(inp, i)
                               ELSE IF i < k /\ k < i + n THEN NOT_MAPPED ELSE map[k + 1]
      <4>1. k + 1 \in 1 .. (Len(inp) + 1) /\ (k + 1 = i + 1 <=> k = i)
        BY <1>1
      <4>. QED BY ONLY <2>3, <3>3, <4>1
    <3>. QED BY <1>1, <3>2, <3>4
  <2>5. TypeOK'
    BY <1>1, <1>2, <1>5, <2>1, <2>4 DEF IInv, TypeOK
  <2>6. FirstPass'
    <3>1. Places(inp, out'.data, i + n)
      <4>1. ASSUME NEW t \in DOMAIN out'.data
            PROVE  \E k \in Kept(inp, i + n) : NewIndex(inp, k) = t - 1
        <5>1. t \in 1 .. (NewIndex(inp, i) + 1)
          BY <1>1, <2>1, <2>2
        <5>2. CASE t = NewIndex(inp, i) + 1
          <6>1. i \in Kept(inp, i + n)
            BY <1>2
          <6>2. NewIndex(inp, i) = t - 1
            BY <1>1, <5>2
          <6>. QED BY <6>1, <6>2
        <5>3. CASE t \in 1 .. NewIndex(inp, i)
          <6>1. t \in DOMAIN out.data
            BY <1>1, <5>3
          <6>2. PICK k \in Kept(inp, i) : NewIndex(inp, k) = t - 1
            BY <6>1, <1>5 DEF IInv, FirstPass, Places
          <6>. QED BY <1>2, <6>2
        <5>. QED BY <1>1, <5>1, <5>2, <5>3
      <4>. QED BY <1>2, <2>2, <4>1 DEF Places
    <3>2. ASSUME NEW k \in Kept(inp, i + n)
          PROVE  out'.data[NewIndex(inp, k) + 1] = Copied(inp, k)
      <4>1. CASE k = i
        BY <2>2, <4>1 DEF op
      <4>2. CASE k \in Kept(inp, i)
        <5>1. NewIndex(inp, k) + 1 \in 1 .. NewIndex(inp, i)
          BY <1>1, <1>4, <4>2
        <5>2. out.data[NewIndex(inp, k) + 1] = Copied(inp, k)
          BY <4>2 DEF IInv, FirstPass
        <5>. QED BY <2>2, <5>1, <5>2
      <4>. QED BY <1>2, <4>1, <4>2
    <3>. QED BY <1>2, <1>5, <3>1, <3>2 DEF FirstPass
  <2>7. MapSoFar'
    <3>. SUFFICES ASSUME NEW k \in 0 .. Len(inp)
                  PROVE  map'[k + 1] = IF k < i + n /\ IsKept(inp, k)
                                       THEN NewIndex(inp, k) ELSE NOT_MAPPED
      BY <1>5, <2>4 DEF MapSoFar, Passed
    <3>1. map[k + 1] = IF k < i /\ IsKept(inp, k) THEN NewIndex(inp, k) ELSE NOT_MAPPED
      BY DEF IInv, MapSoFar, Passed
    <3>2. CASE k < i
      BY <1>1, <1>2, <2>4, <3>1, <3>2 DEF n, Taken
    <3>3. CASE k = i
      BY <1>1, <2>4, <3>3 DEF n, Taken
    <3>4. CASE i < k /\ k < i + n
      BY <1>1, <1>2, <2>4, <3>4
    <3>5. CASE i + n <= k
      <4>1. i < k
        BY <1>1, <3>5 DEF n, Taken
      <4>2. ~(k < i + n) /\ ~(k < i) /\ k # i
        BY <1>1, <1>2, <3>5, <4>1
      <4>. QED BY <2>4, <3>1, <4>1, <4>2
    <3>. QED BY <1>1, <1>2, <3>2, <3>3, <3>4, <3>5
  <2>. QED BY <1>5, <2>5, <2>6, <2>7
           DEF IInv, TargetsSurvive, MapIsFreed, Returned, Failures, BeforePasses,
               SecondPass, AfterPasses
<1>6. ASSUME Fail("oom")
      PROVE  IInv'
  BY <1>6, FailStep
<1>. QED BY <1>5, <1>6 DEF Emit, op, n

-----------------------------------------------------------------------------
(* The second pass.                                                        *)

\* Where the second pass stands: at the place of one opcode that is kept.
LEMMA StandsAtOne ==
  ASSUME IInv, status = "pass2", i < Len(out.data)
  PROVE  \E k \in Kept(inp, Len(inp)) :
           /\ NewIndex(inp, k) = i
           /\ out.data[i + 1] = Copied(inp, k)
           /\ \A m \in Kept(inp, Len(inp)) : NewIndex(inp, m) = i => m = k
<1>1. Len(inp) \in Nat /\ i \in Nat /\ i + 1 \in DOMAIN out.data
  BY DEF IInv, TypeOK, MatchedCode, ArrayOf
<1>2. PICK k \in Kept(inp, Len(inp)) : NewIndex(inp, k) = (i + 1) - 1
  BY <1>1 DEF IInv, SecondPass, Places
<1>3. NewIndex(inp, k) = i
  BY <1>1, <1>2
<1>4. out.data[i + 1] = Copied(inp, k)
  BY <1>1, <1>3 DEF IInv, SecondPass
<1>5. \A m \in Kept(inp, Len(inp)) : OldIndex(inp, NewIndex(inp, m)) = m
  <2>1. \A m \in Kept(inp, Len(inp)) : m \in Kept(inp, Len(inp) + 1)
    BY <1>1, KeptMeaning
  <2>. QED BY <1>1, <2>1, OldIndexOfNew
<1>. QED BY <1>3, <1>4, <1>5

\* The second pass leaves Final(k) where it stood and goes on.
LEMMA SecondPassStep ==
  ASSUME IInv, status = "pass2", i < Len(out.data),
         UNCHANGED <<inp, map, status>>, i' = i + 1,
         out' \in ArrayOf(Opcode), Len(out'.data) = Len(out.data),
         NEW k \in Kept(inp, Len(inp)), NewIndex(inp, k) = i,
         \A m \in Kept(inp, Len(inp)) : NewIndex(inp, m) = i => m = k,
         \A t \in DOMAIN out.data :
            out'.data[t] = IF t = i + 1 THEN Final(inp, k) ELSE out.data[t]
  PROVE  IInv'
<1>1. /\ inp \in MatchedCode /\ Len(inp) \in Nat /\ i \in Nat
      /\ Len(out.data) \in Nat /\ DOMAIN out.data = 1 .. Len(out.data)
      /\ DOMAIN out'.data = 1 .. Len(out.data)
      /\ Len(out.data) = NewIndex(inp, Len(inp)) /\ NewIndex(inp, Len(inp)) <= Len(inp)
  <2>1. inp \in MatchedCode /\ Len(inp) \in Nat /\ i \in Nat
    BY DEF IInv, TypeOK, MatchedCode
  <2>. QED BY <2>1, KeptIsFinite DEF IInv, TypeOK, SecondPass, Places, ArrayOf
<1>2. TypeOK'
  BY <1>1 DEF IInv, TypeOK
<1>3. SecondPass'
  <2>1. Places(inp, out'.data, Len(inp))
    BY <1>1 DEF IInv, SecondPass, Places
  <2>2. ASSUME NEW m \in Kept(inp, Len(inp))
        PROVE  out'.data[NewIndex(inp, m) + 1] =
                 IF NewIndex(inp, m) < i + 1 THEN Final(inp, m) ELSE Copied(inp, m)
    <3>1. m \in Nat /\ NewIndex(inp, m) \in Nat /\ NewIndex(inp, m) < Len(out.data)
      BY <1>1, KeptMeaning, NewIndexIsMonotone, KeptIsFinite
    <3>2. NewIndex(inp, m) + 1 \in DOMAIN out.data
      BY <1>1, <3>1
    <3>3. CASE NewIndex(inp, m) = i
      BY <1>1, <3>2, <3>3
    <3>4. CASE NewIndex(inp, m) # i
      <4>1. NewIndex(inp, m) + 1 # i + 1
            /\ (NewIndex(inp, m) < i + 1 <=> NewIndex(inp, m) < i)
        BY <1>1, <3>1, <3>4
      <4>. QED BY <3>2, <4>1 DEF IInv, SecondPass
    <3>. QED BY <3>3, <3>4
  <2>. QED BY <1>1, <2>1, <2>2 DEF SecondPass
<1>4. MapSoFar'
  BY DEF IInv, MapSoFar, Passed
<1>. QED BY <1>2, <1>3, <1>4
         DEF IInv, TargetsSurvive, MapIsFreed, Returned, Failures, BeforePasses,
             FirstPass, AfterPasses

LEMMA KeepOpStep ==
  ASSUME IInv, KeepOp
  PROVE  IInv'
<1>1. PICK k \in Kept(inp, Len(inp)) :
        /\ NewIndex(inp, k) = i
        /\ out.data[i + 1] = Copied(inp, k)
        /\ \A m \in Kept(inp, Len(inp)) : NewIndex(inp, m) = i => m = k
  BY StandsAtOne DEF KeepOp
<1>2. Final(inp, k) = out.data[i + 1]
  BY <1>1 DEF KeepOp, IsJump, Final, Copied
<1>3. out' = out /\ out \in ArrayOf(Opcode)
  BY DEF KeepOp, IInv, TypeOK
<1>. QED BY <1>1, <1>2, <1>3, SecondPassStep DEF KeepOp

\* The target of a jump that stays is an opcode that does, or the end.
LEMMA RemapStep ==
  ASSUME IInv, Remap
  PROVE  IInv'
<1>. DEFINE old == out.data[i + 1].num
            new == map[old + 1]
<1>1. status = "pass2" /\ i < Len(out.data) /\ IsJump(out.data[i + 1])
  BY DEF Remap
<1>2. PICK k \in Kept(inp, Len(inp)) :
        /\ NewIndex(inp, k) = i
        /\ out.data[i + 1] = Copied(inp, k)
        /\ \A m \in Kept(inp, Len(inp)) : NewIndex(inp, m) = i => m = k
  BY <1>1, StandsAtOne
<1>3. /\ inp \in MatchedCode /\ Len(inp) \in Nat /\ i \in Nat
      /\ out \in ArrayOf(Opcode) /\ out.data \in Seq(Opcode)
      /\ Len(map) = Len(inp) + 1
  BY <1>1 DEF IInv, TypeOK, MatchedCode, MapSoFar, ArrayOf
<1>4. k \in Nat /\ k < Len(inp) /\ IsKept(inp, k)
  BY <1>3, KeptMeaning
<1>5. ~ClearLoopAt(inp, k) /\ out.data[i + 1] = inp[k + 1]
  BY <1>1, <1>2 DEF Copied, IsJump, Op
<1>6. old \in Nat /\ old <= Len(inp) /\ IsKept(inp, old)
  <2>1. IsLoop(inp, k, old) \/ IsLoop(inp, old, k + 1)
    BY <1>1, <1>3, <1>4, <1>5, LoopsOfMatchedCode DEF IsJump
  <2>. QED BY <1>4, <2>1, <1>3 DEF IsLoop
<1>7. new = NewIndex(inp, old) /\ NewIndex(inp, old) \in Nat
  <2>1. old \in 0 .. Len(inp)
    BY <1>3, <1>6
  <2>2. map[old + 1] = NewIndex(inp, old)
    BY <1>1, <1>6, <2>1 DEF IInv, MapSoFar, Passed
  <2>. QED BY <1>6, <2>2, KeptIsFinite
<1>8. Final(inp, k) = [out.data[i + 1] EXCEPT !.num = new]
  BY <1>1, <1>5, <1>7 DEF Final, IsJump
<1>. HIDE DEF old, new
<1>9. ~(old >= Len(map)) /\ new # NOT_MAPPED
  BY <1>3, <1>6, <1>7 DEF NOT_MAPPED
<1>10. /\ out' = [out EXCEPT !.data[i + 1].num = new]
       /\ i' = i + 1 /\ UNCHANGED <<inp, map, status>>
  BY <1>9 DEF Remap, old, new
<1>11. /\ out'.data = [out.data EXCEPT ![i + 1].num = new]
       /\ out'.capacity = out.capacity /\ out' = [data |-> out'.data, capacity |-> out'.capacity]
  BY <1>3, <1>10 DEF ArrayOf
<1>12. out'.data \in Seq(Opcode)
  <2>1. i + 1 \in Int /\ new \in Nat
    BY <1>3, <1>7
  <2>. QED BY <1>3, <1>11, <2>1, PatchedType
<1>13. out' \in ArrayOf(Opcode)
  BY <1>3, <1>11, <1>12 DEF ArrayOf
<1>14. /\ Len(out'.data) = Len(out.data)
       /\ \A t \in DOMAIN out.data :
            out'.data[t] = IF t = i + 1 THEN Final(inp, k) ELSE out.data[t]
  BY <1>3, <1>8, <1>11
<1>. QED BY <1>1, <1>2, <1>10, <1>13, <1>14, SecondPassStep

-----------------------------------------------------------------------------
(* Every step.                                                             *)

LEMMA InitIInv ==
  ASSUME Init
  PROVE  IInv
<1>1. inp \in MatchedCode /\ Len(inp) \in Nat
  BY InputsAssumption DEF Init, MatchedCode
<1>2. Freed \in ArrayOf(Opcode)
  BY FreedType
<1>. QED BY <1>1, <1>2
         DEF Init, IInv, TypeOK, TargetsSurvive, MapIsFreed, Returned, Failures, BeforePasses,
             FirstPass, MapSoFar, SecondPass, AfterPasses

LEMMA AllocMapStep ==
  ASSUME IInv, AllocMap
  PROVE  IInv'
<1>1. /\ status = "entered" /\ i = 0 /\ out = Freed
      /\ inp \in MatchedCode /\ Len(inp) \in Nat
  BY DEF IInv, AllocMap, BeforePasses, TypeOK, MatchedCode
<1>2. CASE /\ map' = [k \in 1 .. (Len(inp) + 1) |-> NOT_MAPPED]
           /\ status' = "pass1" /\ UNCHANGED <<inp, i, out>>
  <2>1. /\ map' \in Seq(Nat \cup {NOT_MAPPED}) /\ Len(map') = Len(inp) + 1
        /\ \A k \in 0 .. Len(inp) : map'[k + 1] = NOT_MAPPED
    <3>1. map' \in [1 .. (Len(inp) + 1) -> Nat \cup {NOT_MAPPED}]
      BY <1>2
    <3>. QED BY <1>1, <1>2, <3>1
  <2>2. TypeOK'
    BY <1>1, <1>2, <2>1 DEF IInv, TypeOK
  <2>3. FirstPass'
    <3>1. IsKept(inp, 0)
      BY DEF IsKept, ClearLoopAt
    <3>2. Kept(inp, 0) = {} /\ NewIndex(inp, 0) = 0
      BY KeptStep, NewIndexStep
    <3>3. out.data = << >>
      BY <1>1 DEF Freed
    <3>. QED BY <1>1, <1>2, <3>1, <3>2, <3>3 DEF FirstPass, Places
  <2>4. MapSoFar'
    BY <1>1, <1>2, <2>1 DEF MapSoFar, Passed
  <2>. QED BY <1>2, <2>2, <2>3, <2>4
           DEF IInv, TargetsSurvive, MapIsFreed, Returned, Failures, BeforePasses,
               SecondPass, AfterPasses
<1>. QED BY <1>2, FailStep DEF AllocMap

LEMMA EndPass1Step ==
  ASSUME IInv, EndPass1
  PROVE  IInv'
<1>1. /\ status = "pass1" /\ i = Len(inp) /\ Len(inp) \in Nat /\ inp \in MatchedCode
      /\ out.data \in Seq(Opcode) /\ Len(out.data) = NewIndex(inp, Len(inp))
      /\ map \in Seq(Nat \cup {NOT_MAPPED}) /\ Len(map) = Len(inp) + 1
      /\ IsKept(inp, Len(inp))
      /\ NewIndex(inp, Len(inp)) \in Nat
  <2>1. status = "pass1" /\ i >= Len(inp) /\ Len(inp) \in Nat
    BY DEF EndPass1, IInv, TypeOK, MatchedCode
  <2>2. i = Len(inp)
    BY <2>1 DEF IInv, TypeOK
  <2>. QED BY <2>1, <2>2, KeptIsFinite DEF IInv, TypeOK, FirstPass, MapSoFar, Places, ArrayOf
<1>2. /\ map' = [map EXCEPT ![Len(inp) + 1] = NewIndex(inp, Len(inp))]
      /\ i' = 0 /\ status' = "pass2" /\ UNCHANGED <<inp, out>>
  BY <1>1 DEF EndPass1
<1>3. /\ map' \in Seq(Nat \cup {NOT_MAPPED}) /\ Len(map') = Len(inp) + 1
      /\ \A k \in 0 .. Len(inp) :
           map'[k + 1] = IF k = Len(inp) THEN NewIndex(inp, k) ELSE map[k + 1]
  BY <1>1, <1>2
<1>4. TypeOK'
  BY <1>1, <1>2, <1>3 DEF IInv, TypeOK
<1>5. SecondPass'
  <2>1. \A k \in Kept(inp, Len(inp)) : NewIndex(inp, k) \in Nat
    BY <1>1, KeptMeaning, KeptIsFinite
  <2>. QED BY <1>1, <1>2, <2>1 DEF IInv, FirstPass, SecondPass
<1>6. MapSoFar'
  <2>. SUFFICES ASSUME NEW k \in 0 .. Len(inp)
                PROVE  map'[k + 1] = IF IsKept(inp, k) THEN NewIndex(inp, k) ELSE NOT_MAPPED
    BY <1>1, <1>2, <1>3 DEF MapSoFar, Passed
  <2>1. map[k + 1] = IF k < Len(inp) /\ IsKept(inp, k) THEN NewIndex(inp, k) ELSE NOT_MAPPED
    BY <1>1 DEF IInv, MapSoFar, Passed
  <2>2. k # Len(inp) => k < Len(inp)
    BY <1>1
  <2>. QED BY <1>1, <1>3, <2>1, <2>2
<1>. QED BY <1>2, <1>4, <1>5, <1>6
         DEF IInv, TargetsSurvive, MapIsFreed, Returned, Failures, BeforePasses,
             FirstPass, AfterPasses

LEMMA ReturnStep ==
  ASSUME IInv, Return
  PROVE  IInv'
<1>1. /\ status = "pass2" /\ i = Len(out.data) /\ Len(out.data) = NewIndex(inp, Len(inp))
      /\ inp \in MatchedCode /\ Len(inp) \in Nat /\ out.data \in Seq(Opcode)
      /\ map' = << >> /\ status' = "ok" /\ UNCHANGED <<inp, i, out>>
  <2>1. status = "pass2" /\ i >= Len(out.data) /\ i <= Len(out.data) /\ i \in Nat
        /\ out.data \in Seq(Opcode)
    BY DEF Return, IInv, SecondPass, TypeOK, ArrayOf
  <2>2. i = Len(out.data)
    BY <2>1
  <2>. QED BY <2>1, <2>2 DEF Return, IInv, SecondPass, Places, TypeOK, MatchedCode
<1>2. TypeOK'
  BY <1>1 DEF IInv, TypeOK
<1>3. Rewritten(inp, out.data)
  <2>1. \A k \in Kept(inp, Len(inp)) : NewIndex(inp, k) < i
    BY <1>1, KeptMeaning, NewIndexIsMonotone
  <2>. QED BY <1>1, <2>1 DEF Rewritten, IInv, SecondPass
<1>. QED BY <1>1, <1>2, <1>3
         DEF IInv, TargetsSurvive, MapIsFreed, Returned, Failures, BeforePasses,
             FirstPass, MapSoFar, SecondPass, AfterPasses

LEMMA NextIInv ==
  ASSUME IInv, [Next]_vars
  PROVE  IInv'
<1>1. inp \in MatchedCode /\ i \in Int /\ i >= 0 /\ Len(inp) \in Nat
  BY DEF IInv, TypeOK, MatchedCode
<1>2. CASE CollapseClear
  <2>1. ClearLoopAt(inp, i)
    BY <1>1, <1>2, ClearLoops DEF CollapseClear
  <2>. QED BY <1>2, <2>1, EmitStep DEF CollapseClear, Copied, Taken
<1>3. CASE CopyOp
  <2>1. ~ClearLoopAt(inp, i)
    BY <1>1, <1>3, ClearLoops DEF CopyOp
  <2>. QED BY <1>3, <2>1, EmitStep DEF CopyOp, Copied, Taken
<1>4. CASE UNCHANGED vars
  BY <1>4 DEF vars, IInv, TypeOK, TargetsSurvive, MapIsFreed, Returned, BeforePasses, FirstPass,
              MapSoFar, Passed, SecondPass, AfterPasses
<1>. QED BY <1>2, <1>3, <1>4, AllocMapStep, EndPass1Step, RemapStep, KeepOpStep, ReturnStep
         DEF Next

LEMMA Invariance == Spec => []IInv
<1>1. Init => IInv
  BY InitIInv
<1>2. IInv /\ [Next]_vars => IInv'
  BY NextIInv
<1>. QED BY <1>1, <1>2, PTL DEF Spec

-----------------------------------------------------------------------------
(* The theorems.                                                           *)

\* The map records exactly the old indexes passed so far that still have an
\* opcode of their own.
LEMMA MapSoFarIsExact ==
  ASSUME IInv
  PROVE  MapIsExact
<1>. SUFFICES ASSUME status \in {"pass1", "pass2"}
              PROVE  MapIsExact
  BY DEF MapIsExact
<1>1. inp \in MatchedCode /\ Len(inp) \in Nat /\ i \in Nat /\ Len(map) = Len(inp) + 1
  BY DEF IInv, TypeOK, MatchedCode, MapSoFar
<1>2. \A k \in Int : Swallowed(k) <=> ~IsKept(inp, k)
  BY <1>1, SwallowedIsNotKept
<1>3. status = "pass1" /\ i < Len(inp) => ~Swallowed(i)
  BY <1>1, <1>2 DEF IInv, FirstPass
<1>4. ASSUME NEW k \in 0 .. Len(inp)
      PROVE  {m \in 0 .. (k - 1) : ~Swallowed(m)} = Kept(inp, k)
  BY <1>2 DEF Kept, IsKept
<1>5. ASSUME NEW k \in 0 .. Len(inp)
      PROVE  IF Passed(k) /\ ~Swallowed(k)
             THEN map[k + 1] = Cardinality({m \in 0 .. (k - 1) : ~Swallowed(m)})
             ELSE map[k + 1] = NOT_MAPPED
  <2>1. map[k + 1] = IF Passed(k) /\ IsKept(inp, k) THEN NewIndex(inp, k) ELSE NOT_MAPPED
    BY DEF IInv, MapSoFar
  <2>2. Swallowed(k) <=> ~IsKept(inp, k)
    BY <1>2
  <2>. QED BY <1>4, <2>1, <2>2 DEF NewIndex
<1>. QED BY <1>1, <1>3, <1>5 DEF MapIsExact

\* Every variable keeps its type: no pass leaves the vector it reads, and the
\* map holds indexes and NOT_MAPPED only.
THEOREM TypeCorrect == Spec => []TypeOK
<1>1. IInv => TypeOK
  BY DEF IInv
<1>. QED BY <1>1, Invariance, PTL

\* Throughout both passes the map is exact: the new index of every opcode that
\* keeps a place, and NOT_MAPPED for every other one.
THEOREM MapExact == Spec => []MapIsExact
<1>1. IInv => MapIsExact
  BY MapSoFarIsExact
<1>. QED BY <1>1, Invariance, PTL

\* On what scanner() returns, neither error of the second pass can happen.
THEOREM NoTargetIsLost == Spec => []TargetsSurvive
<1>1. IInv => TargetsSurvive
  BY DEF IInv
<1>. QED BY <1>1, Invariance, PTL

\* optimize() returns a vector whose jumps are matched.
THEOREM ReturnsMatched == Spec => []ResultIsMatched
<1>1. IInv => ResultIsMatched
  <2>. SUFFICES ASSUME IInv, status = "ok" PROVE Matched(out.data)
    BY DEF ResultIsMatched
  <2>1. inp \in MatchedCode /\ Rewritten(inp, out.data)
    BY DEF IInv, TypeOK, AfterPasses
  <2>. QED BY <2>1, RewrittenIsMatched
<1>. QED BY <1>1, Invariance, PTL

\* optimize() returns its input with every clear loop collapsed and every jump
\* following its target, and nothing else changed.
THEOREM ReturnsOptimised == Spec => []ResultIsOptimised
<1>1. IInv => ResultIsOptimised
  <2>. SUFFICES ASSUME IInv, status = "ok" PROVE out.data = Optimised(inp)
    BY DEF ResultIsOptimised
  <2>1. inp \in MatchedCode /\ Rewritten(inp, out.data)
    BY DEF IInv, TypeOK, AfterPasses
  <2>. QED BY <2>1, RewrittenIsOptimised
<1>. QED BY <1>1, Invariance, PTL

\* On every return the map has been freed.
THEOREM FreesMap == Spec => []MapIsFreed
<1>1. IInv => MapIsFreed
  BY DEF IInv
<1>. QED BY <1>1, Invariance, PTL
=============================================================================
