--------------------------- MODULE Scanner_proofs ----------------------------
(***************************************************************************)
(* What scanner() guarantees for every set of source texts and every       *)
(* initial capacity of its arrays, with proofs that TLAPS checks.          *)
(***************************************************************************)
EXTENDS Scanner, Data_proofs, Texts, FiniteSetTheorems

-----------------------------------------------------------------------------
(* Types.                                                                  *)

\* The opcode of a command without a jump is one of the instruction set.
LEMMA OpOfType ==
  ASSUME NEW ch \in RunCommands \cup {",", "."}
  PROVE  OpOf(ch) \in OpType \ {"op_jf", "op_jt"}
BY DEF OpOf, OpType, RunCommands

\* Emit leaves the vector and the status well typed.
LEMMA EmitType ==
  ASSUME TypeOK,
         NEW vector \in ArrayOf(Opcode), NEW s \in ArrayOf(Nat), NEW op \in Opcode,
         Emit(vector, s, op)
  PROVE  /\ code' \in ArrayOf(Opcode) /\ stk' \in ArrayOf(Nat)
         /\ UNCHANGED <<src, out>>
         /\ status' \in {"scanning", "ok"} \cup Failures
BY PushedType, FreedType DEF Emit, Fail, TypeOK, Failures

\* Fail does too.
LEMMA FailType ==
  ASSUME TypeOK, NEW reason \in Failures, Fail(reason)
  PROVE  /\ code' \in ArrayOf(Opcode) /\ stk' \in ArrayOf(Nat)
         /\ UNCHANGED <<src, out>>
         /\ status' \in {"scanning", "ok"} \cup Failures
BY FreedType DEF Fail

LEMMA InitTypeOK == Init => TypeOK
BY FreedType, SourcesAssumption DEF Init, TypeOK

LEMMA NextTypeOK == TypeOK /\ [Next]_vars => TypeOK'
<1>. SUFFICES ASSUME TypeOK, [Next]_vars PROVE TypeOK'
  OBVIOUS
<1>0. src \in Seq(STRING) /\ Len(src) \in Nat /\ i \in 0 .. Len(src)
  BY DEF TypeOK
<1>1. CASE SkipComment
  BY <1>0, <1>1 DEF SkipComment, Reading, TypeOK
<1>2. CASE ScanRun
  <2>1. PICK cnt \in 1 .. (Len(src) - i) :
          i' = i + cnt /\ Emit(code, stk, Op(OpOf(Cmd), cnt))
    BY <1>2 DEF ScanRun
  <2>2. Op(OpOf(Cmd), cnt) \in Opcode
    <3>1. OpOf(Cmd) \in OpType
      BY <1>2, OpOfType DEF ScanRun
    <3>2. cnt \in Nat
      BY <1>0
    <3>. QED BY <3>1, <3>2 DEF Op, Opcode
  <2>3. i' \in 0 .. Len(src)
    BY <1>0, <2>1
  <2>. QED BY <2>1, <2>2, <2>3, EmitType DEF TypeOK
<1>3. CASE ScanIO
  <2>1. Op(OpOf(Cmd), 0) \in Opcode
    BY <1>3, OpOfType DEF ScanIO, Op, Opcode
  <2>2. i' = i + 1 /\ i < Len(src)
    BY <1>3 DEF ScanIO, Reading
  <2>3. i' \in 0 .. Len(src)
    BY <1>0, <2>2
  <2>. QED BY <1>3, <2>1, <2>3, EmitType DEF ScanIO, TypeOK
<1>4. CASE ScanOpen
  <2>1. Op("op_jf", 0) \in Opcode
    BY DEF Op, Opcode, OpType
  <2>2. Pushed(stk, Len(code.data)) \in ArrayOf(Nat)
    <3>1. stk \in ArrayOf(Nat) /\ Len(code.data) \in Nat
      BY DEF TypeOK, ArrayOf
    <3>. QED BY <3>1, PushedType
  <2>3. i' \in 0 .. Len(src)
    BY <1>0, <1>4 DEF ScanOpen, Reading
  <2>. QED BY <1>4, <2>1, <2>2, <2>3, EmitType, FailType DEF ScanOpen, TypeOK, Failures
<1>5. CASE ScanClose
  <2>1. i' \in 0 .. Len(src)
    BY <1>0, <1>5 DEF ScanClose, Reading
  <2>2. CASE IsEmpty(stk)
    BY <1>5, <2>1, <2>2, FailType DEF ScanClose, TypeOK, Failures
  <2>3. CASE ~IsEmpty(stk)
    <3>. DEFINE jf_idx  == Top(stk)
                patched == [code EXCEPT !.data[jf_idx + 1].num = Len(code.data) + 1]
    <3>1. Emit(patched, Popped(stk), Op("op_jt", jf_idx))
      BY <1>5, <2>3 DEF ScanClose, Close
    <3>2. stk \in ArrayOf(Nat) /\ code \in ArrayOf(Opcode)
      BY DEF TypeOK
    <3>3. Popped(stk) \in ArrayOf(Nat) /\ jf_idx \in Nat
      BY <2>3, <3>2, PoppedType
    <3>4. Op("op_jt", jf_idx) \in Opcode
      BY <3>3 DEF Op, Opcode, OpType
    <3>5. patched \in ArrayOf(Opcode)
      <4>. DEFINE data == [code.data EXCEPT ![jf_idx + 1].num = Len(code.data) + 1]
      <4>1. code.data \in Seq(Opcode) /\ Len(code.data) + 1 \in Nat
        BY <3>2 DEF ArrayOf
      <4>2. data \in Seq(Opcode)
        <5>1. jf_idx + 1 \in Int /\ Len(code.data) + 1 \in Nat /\ code.data \in Seq(Opcode)
          BY <3>3, <4>1
        <5>2. data = [code.data EXCEPT ![jf_idx + 1].num = Len(code.data) + 1]
          OBVIOUS
        <5>. HIDE DEF data, jf_idx
        <5>. QED BY <5>1, <5>2, PatchedType
      <4>3. patched = [code EXCEPT !.data = data]
        BY <3>2 DEF ArrayOf
      <4>. QED BY <3>2, <4>2, <4>3 DEF ArrayOf
    <3>. QED BY <2>1, <3>1, <3>3, <3>4, <3>5, EmitType DEF TypeOK
  <2>. QED BY <2>2, <2>3
<1>6. CASE Finish
  <2>1. CASE Fail("unmatched_open")
    BY <1>6, <2>1, FailType DEF Finish, TypeOK, Failures
  <2>2. CASE ~Fail("unmatched_open")
    BY <1>6, <2>2, FreedType DEF Finish, HandOver, TypeOK
  <2>. QED BY <2>1, <2>2
<1>7. CASE UNCHANGED vars
  BY <1>7 DEF vars, TypeOK
<1>. QED BY <1>1, <1>2, <1>3, <1>4, <1>5, <1>6, <1>7 DEF Next

(***************************************************************************)
(* Whatever the text and whichever allocation fails, the variables of      *)
(* scanner() keep their types: indexes stay in range and every opcode      *)
(* emitted is one of the instruction set.                                  *)
(***************************************************************************)
THEOREM TypeCorrect == Spec => []TypeOK
<1>. QED BY InitTypeOK, NextTypeOK, PTL DEF Spec

-----------------------------------------------------------------------------
(* Every bracket is paired: the inductive invariant, as a statement about  *)
(* an opcode vector c and a stack s of C indexes.                          *)

\* The '[' of c whose target is still the placeholder.
Open(c) == {a \in DOMAIN c : c[a] = Op("op_jf", 0)}

LoopsInside(c) ==
  \A a, k \in DOMAIN c :
     /\ c[a].op = "op_jf" /\ c[k].op = "op_jf"
     /\ a < k /\ k < c[a].num
     => k \notin Open(c) /\ c[k].num < c[a].num

Prefix(c) == OpensPaired(c, Open(c)) /\ ClosesPaired(c) /\ LoopsInside(c)

Stacked(c, s) ==
  /\ \A d, e \in DOMAIN s : d < e => s[d] < s[e]
  /\ {s[d] + 1 : d \in DOMAIN s} = Open(c)

\* An opcode that is not a ']' added at the end, a '[' only as a placeholder,
\* keeps the prefix paired.
LEMMA AppendKeepsPrefix ==
  ASSUME NEW c \in Seq(Opcode), Prefix(c),
         NEW op \in Opcode, op.op # "op_jt", op.op = "op_jf" => op = Op("op_jf", 0),
         NEW d, d = Append(c, op)
  PROVE  /\ Prefix(d)
         /\ Open(d) = IF op.op = "op_jf" THEN Open(c) \cup {Len(c) + 1} ELSE Open(c)
<1>. DEFINE n == Len(c)
<1>1. n \in Nat /\ DOMAIN c = 1 .. n /\ DOMAIN d = 1 .. (n + 1) /\ Len(d) = n + 1
  OBVIOUS
<1>2. (\A j \in 1 .. n : d[j] = c[j]) /\ d[n + 1] = op
  OBVIOUS
<1>. HIDE DEF n
<1>4. Open(d) = IF op.op = "op_jf" THEN Open(c) \cup {n + 1} ELSE Open(c)
  BY <1>1, <1>2 DEF Open, Op
<1>5. \A a \in 1 .. n : a \in Open(d) <=> a \in Open(c)
  BY <1>1, <1>4
<1>6. ASSUME NEW a \in 1 .. (n + 1), a \notin Open(d), d[a].op = "op_jf"
      PROVE  a \in 1 .. n /\ d[a].num \in (a + 1) .. n /\ Paired(d, a, d[a].num)
  <2>1. a \in 1 .. n
    BY <1>1, <1>2, <1>4, <1>6
  <2>2. c[a].op = "op_jf" /\ a \notin Open(c)
    BY <1>2, <1>5, <1>6, <2>1
  <2>3. c[a].num \in (a + 1) .. n /\ Paired(c, a, c[a].num)
    BY <1>1, <2>1, <2>2 DEF Prefix, OpensPaired, n
  <2>. QED BY <1>1, <1>2, <2>1, <2>3 DEF Paired
<1>7. OpensPaired(d, Open(d))
  BY <1>1, <1>6 DEF OpensPaired
<1>8. ASSUME NEW b \in 1 .. (n + 1), d[b].op = "op_jt"
      PROVE  d[b].num + 1 \in 1 .. (b - 1) /\ Paired(d, d[b].num + 1, b)
  <2>1. b \in 1 .. n /\ c[b].op = "op_jt"
    BY <1>1, <1>2, <1>8
  <2>2. c[b].num + 1 \in 1 .. (b - 1) /\ Paired(c, c[b].num + 1, b)
    BY <1>1, <2>1 DEF Prefix, ClosesPaired
  <2>. QED BY <1>1, <1>2, <2>1, <2>2 DEF Paired
<1>9. ClosesPaired(d)
  BY <1>1, <1>8 DEF ClosesPaired
<1>10. ASSUME NEW a \in 1 .. (n + 1), NEW k \in 1 .. (n + 1),
              d[a].op = "op_jf", d[k].op = "op_jf", a < k, k < d[a].num
       PROVE  k \notin Open(d) /\ d[k].num < d[a].num
  <2>1. a \notin Open(d)
    BY <1>1, <1>10 DEF Open, Op
  <2>2. a \in 1 .. n /\ k \in 1 .. n
    BY <1>1, <1>6, <1>10, <2>1
  <2>3. k \notin Open(c) /\ c[k].num < c[a].num
    BY <1>1, <1>2, <1>10, <2>2 DEF Prefix, LoopsInside
  <2>. QED BY <1>2, <1>5, <2>2, <2>3
<1>11. LoopsInside(d)
  BY <1>1, <1>10 DEF LoopsInside
<1>. QED BY <1>4, <1>7, <1>9, <1>11 DEF Prefix, n

\* Patching the innermost open '[', at position j, to the index after a ']'
\* added at the end pairs the two and keeps the rest paired.
LEMMA CloseKeepsPrefix ==
  ASSUME NEW c \in Seq(Opcode), Prefix(c),
         NEW j \in Open(c), \A a \in Open(c) : a <= j,
         NEW e \in Seq(Opcode), Len(e) = Len(c),
         \A k \in DOMAIN c : e[k] = IF k = j THEN Op("op_jf", Len(c) + 1) ELSE c[k],
         NEW d, d = Append(e, Op("op_jt", j - 1))
  PROVE  Prefix(d) /\ Open(d) = Open(c) \ {j}
<1>. DEFINE n == Len(c)
<1>1. n \in Nat /\ DOMAIN c = 1 .. n /\ DOMAIN d = 1 .. (n + 1) /\ Len(d) = n + 1
  OBVIOUS
<1>2. j \in 1 .. n /\ c[j] = Op("op_jf", 0)
  BY <1>1 DEF Open
<1>3. /\ \A k \in 1 .. n : d[k] = IF k = j THEN Op("op_jf", n + 1) ELSE c[k]
      /\ d[n + 1] = Op("op_jt", j - 1)
  <2>1. Op("op_jt", j - 1) \in Opcode
    BY <1>1, <1>2 DEF Op, Opcode, OpType
  <2>2. (\A k \in 1 .. n : d[k] = e[k]) /\ d[n + 1] = Op("op_jt", j - 1)
    BY <2>1
  <2>. QED BY <1>1, <2>2
<1>. HIDE DEF n
<1>4. c[j].op = "op_jf" /\ c[j].num = 0
  BY <1>2 DEF Op
<1>5. d[j].op = "op_jf" /\ d[j].num = n + 1 /\ d[n + 1].op = "op_jt" /\ d[n + 1].num = j - 1
  <2>1. d[j] = Op("op_jf", n + 1)
    BY <1>2, <1>3
  <2>2. d[n + 1] = Op("op_jt", j - 1)
    BY <1>3
  <2>3. d[j].op = "op_jf" /\ d[j].num = n + 1
    BY ONLY <2>1, OpFields
  <2>4. d[n + 1].op = "op_jt" /\ d[n + 1].num = j - 1
    BY ONLY <2>2, OpFields
  <2>. QED BY <2>3, <2>4
<1>6. Open(d) = Open(c) \ {j}
  <2>1. d[n + 1] # Op("op_jf", 0) /\ d[j] # Op("op_jf", 0)
    <3>1. n + 1 # 0
      BY <1>1
    <3>. QED BY ONLY <1>5, <3>1, OpFields
  <2>2. \A k \in 1 .. n : k # j => d[k] = c[k]
    BY <1>3
  <2>3. \A k \in 1 .. (n + 1) : k = n + 1 \/ k \in 1 .. n
    BY <1>1
  <2>4. \A k \in 1 .. (n + 1) : d[k] = Op("op_jf", 0) <=> k \in Open(c) \ {j}
    BY <1>1, <2>1, <2>2, <2>3 DEF Open
  <2>. QED BY <1>1, <2>4 DEF Open
<1>7. ASSUME NEW a \in 1 .. n, a # j, a \notin Open(c), c[a].op = "op_jf"
      PROVE  d[a] = c[a] /\ d[a].num \in (a + 1) .. n /\ Paired(d, a, d[a].num)
  <2>1. c[a].num \in (a + 1) .. n /\ Paired(c, a, c[a].num)
    BY <1>1, <1>7 DEF Prefix, OpensPaired, n
  <2>2. c[a].num # j
    BY <1>4, <2>1 DEF Paired
  <2>. QED BY <1>1, <1>3, <1>7, <2>1, <2>2 DEF Paired
<1>8. ASSUME NEW a \in 1 .. (n + 1), a \notin Open(d), d[a].op = "op_jf"
      PROVE  d[a].num \in (a + 1) .. (n + 1) /\ Paired(d, a, d[a].num)
  <2>1. CASE a = j
    BY <1>1, <1>2, <1>5, <2>1 DEF Paired
  <2>2. CASE a # j
    <3>1. a \in 1 .. n
      BY <1>1, <1>5, <1>8
    <3>2. c[a].op = "op_jf" /\ a \notin Open(c)
      BY <1>3, <1>6, <1>8, <2>2, <3>1
    <3>. QED BY <1>1, <1>7, <2>2, <3>1, <3>2
  <2>. QED BY <2>1, <2>2
<1>9. OpensPaired(d, Open(d))
  BY <1>1, <1>8 DEF OpensPaired
<1>10. ASSUME NEW b \in 1 .. (n + 1), d[b].op = "op_jt"
       PROVE  d[b].num + 1 \in 1 .. (b - 1) /\ Paired(d, d[b].num + 1, b)
  <2>1. CASE b = n + 1
    BY <1>1, <1>2, <1>5, <2>1 DEF Paired
  <2>2. CASE b \in 1 .. n
    <3>1. b # j /\ c[b].op = "op_jt" /\ d[b] = c[b]
      BY <1>3, <1>5, <1>10, <2>2
    <3>2. c[b].num + 1 \in 1 .. (b - 1) /\ Paired(c, c[b].num + 1, b)
      BY <1>1, <2>2, <3>1 DEF Prefix, ClosesPaired
    <3>3. c[b].num + 1 # j
      BY <1>4, <2>2, <3>2 DEF Paired
    <3>. QED BY <1>1, <1>3, <2>2, <3>1, <3>2, <3>3 DEF Paired
  <2>. QED BY <1>1, <2>1, <2>2
<1>11. ClosesPaired(d)
  BY <1>1, <1>10 DEF ClosesPaired
<1>12. ASSUME NEW a \in 1 .. (n + 1), NEW k \in 1 .. (n + 1),
              d[a].op = "op_jf", d[k].op = "op_jf", a < k, k < d[a].num
       PROVE  k \notin Open(d) /\ d[k].num < d[a].num
  <2>1. a \in 1 .. n /\ k \in 1 .. n
    <3>1. a # n + 1 /\ k # n + 1
      BY <1>5, <1>12
    <3>. QED BY <1>1, <3>1
  <2>2. CASE a = j
    <3>1. k \notin Open(c) /\ k # j
      BY <1>2, <1>12, <2>1, <2>2
    <3>2. c[k].op = "op_jf"
      BY <1>3, <1>12, <2>1, <3>1
    <3>3. d[k].num \in (k + 1) .. n
      BY <1>7, <2>1, <3>1, <3>2
    <3>. QED BY <1>1, <1>5, <1>6, <2>1, <2>2, <3>1, <3>3
  <2>3. CASE a # j
    <3>1. d[a] = c[a]
      BY <1>3, <2>1, <2>3
    <3>2. c[k].op = "op_jf"
      BY <1>3, <1>4, <1>12, <2>1
    <3>3. k \notin Open(c) /\ c[k].num < c[a].num
      BY <1>1, <1>12, <2>1, <3>1, <3>2 DEF Prefix, LoopsInside
    <3>4. k # j
      BY <3>3
    <3>. QED BY <1>3, <1>6, <2>1, <3>1, <3>3, <3>4
  <2>. QED BY <2>2, <2>3
<1>13. LoopsInside(d)
  BY <1>1, <1>12 DEF LoopsInside
<1>. QED BY <1>6, <1>9, <1>11, <1>13 DEF Prefix

\* CloseKeepsPrefix for the patch as the code writes it.
LEMMA PatchKeepsPrefix ==
  ASSUME NEW c \in Seq(Opcode), Prefix(c),
         NEW j \in Open(c), \A a \in Open(c) : a <= j,
         NEW e, e = [c EXCEPT ![j] = Op("op_jf", Len(c) + 1)],
         NEW d, d = Append(e, Op("op_jt", j - 1))
  PROVE  e \in Seq(Opcode) /\ Prefix(d) /\ Open(d) = Open(c) \ {j}
<1>1. j \in DOMAIN c /\ Op("op_jf", Len(c) + 1) \in Opcode
  BY DEF Open, Op, Opcode, OpType
<1>2. /\ e \in Seq(Opcode) /\ Len(e) = Len(c)
      /\ \A k \in DOMAIN c : e[k] = IF k = j THEN Op("op_jf", Len(c) + 1) ELSE c[k]
  BY <1>1, ReplacedFields
<1>. QED BY <1>2, CloseKeepsPrefix

\* Pushing the index of the '[' just emitted keeps the stack in step.
LEMMA PushKeepsStacked ==
  ASSUME NEW c \in Seq(Opcode), NEW s \in Seq(Nat), Stacked(c, s),
         NEW d, Open(d) = Open(c) \cup {Len(c) + 1},
         NEW t, t = Append(s, Len(c))
  PROVE  Stacked(d, t)
<1>. DEFINE m == Len(s)
            n == Len(c)
<1>1. m \in Nat /\ n \in Nat /\ DOMAIN s = 1 .. m /\ DOMAIN t = 1 .. (m + 1)
  OBVIOUS
<1>2. (\A k \in 1 .. m : t[k] = s[k] /\ s[k] \in Nat) /\ t[m + 1] = n
  OBVIOUS
<1>3. \A k \in 1 .. m : s[k] < n
  <2>1. \A k \in 1 .. m : s[k] + 1 \in Open(c)
    BY <1>1 DEF Stacked
  <2>2. \A k \in 1 .. m : s[k] + 1 \in 1 .. n
    BY <2>1 DEF Open
  <2>. QED BY <1>1, <1>2, <2>2
<1>. HIDE DEF m, n
<1>4. \A a, b \in DOMAIN t : a < b => t[a] < t[b]
  BY <1>1, <1>2, <1>3 DEF Stacked
<1>5. {t[k] + 1 : k \in DOMAIN t} = {s[k] + 1 : k \in DOMAIN s} \cup {n + 1}
  <2>1. DOMAIN t = DOMAIN s \cup {m + 1}
    BY <1>1
  <2>2. \A k \in DOMAIN s : t[k] + 1 = s[k] + 1
    BY <1>1, <1>2
  <2>3. t[m + 1] + 1 = n + 1
    BY <1>2
  <2>4. ASSUME NEW x
        PROVE  x \in {t[k] + 1 : k \in DOMAIN t}
               <=> x \in {s[k] + 1 : k \in DOMAIN s} \cup {n + 1}
    BY <2>1, <2>2, <2>3
  <2>. QED BY <2>4
<1>. QED BY <1>4, <1>5 DEF Stacked, n

\* The top of the stack is the last '[' still open, and popping it keeps the
\* stack in step with a vector in which it no longer is.
LEMMA PopKeepsStacked ==
  ASSUME NEW c \in Seq(Opcode), NEW s \in Seq(Nat), Stacked(c, s), Len(s) # 0,
         NEW j, j = s[Len(s)] + 1
  PROVE  /\ j \in Open(c) /\ \A a \in Open(c) : a <= j
         /\ \A d, t : Open(d) = Open(c) \ {j} /\ t = SubSeq(s, 1, Len(s) - 1)
                        => Stacked(d, t)
<1>. DEFINE m == Len(s)
<1>1. m \in Nat /\ m # 0 /\ DOMAIN s = 1 .. m /\ j = s[m] + 1
  OBVIOUS
<1>2. \A k \in 1 .. m : s[k] \in Nat
  OBVIOUS
<1>3. Open(c) = {s[k] + 1 : k \in 1 .. m}
  BY <1>1 DEF Stacked
<1>4. \A a, b \in 1 .. m : a < b => s[a] < s[b]
  BY <1>1 DEF Stacked
<1>5. ASSUME NEW t, t = SubSeq(s, 1, m - 1)
      PROVE  DOMAIN t = 1 .. (m - 1) /\ \A k \in 1 .. (m - 1) : t[k] = s[k]
  BY <1>1, <1>5
<1>. HIDE DEF m
<1>6. m \in 1 .. m /\ \A k \in 1 .. m : k # m => k < m
  BY <1>1
<1>7. j \in Open(c)
  BY <1>1, <1>3, <1>6
<1>8. \A k \in 1 .. m : s[k] + 1 <= j
  <2>1. \A k \in 1 .. m : s[k] <= s[m]
    BY ONLY <1>2, <1>4, <1>6
  <2>. QED BY ONLY <1>1, <1>2, <1>6, <2>1
<1>9. ASSUME NEW d, NEW t, Open(d) = Open(c) \ {j}, t = SubSeq(s, 1, m - 1)
      PROVE  Stacked(d, t)
  <2>1. DOMAIN t = 1 .. (m - 1) /\ \A k \in 1 .. (m - 1) : t[k] = s[k]
    BY <1>5, <1>9
  <2>2. 1 .. m = 1 .. (m - 1) \cup {m} /\ 1 .. (m - 1) \subseteq 1 .. m
    BY <1>1
  <2>3. \A k \in 1 .. (m - 1) : s[k] + 1 # j
    BY <1>1, <1>2, <1>4, <2>2
  <2>4. {t[k] + 1 : k \in DOMAIN t} = {s[k] + 1 : k \in 1 .. (m - 1)}
    BY <2>1
  <2>5. {s[k] + 1 : k \in 1 .. (m - 1)} = Open(c) \ {j}
    BY <1>1, <1>3, <2>2, <2>3
  <2>6. \A a, b \in DOMAIN t : a < b => t[a] < t[b]
    BY <1>4, <2>1, <2>2
  <2>. QED BY <1>9, <2>4, <2>5, <2>6 DEF Stacked
<1>. QED BY <1>3, <1>7, <1>8, <1>9 DEF m

-----------------------------------------------------------------------------
(* The inductive invariant of scanner().                                   *)

IInv ==
  /\ TypeOK
  /\ Stacked(code.data, stk.data)
  /\ Prefix(code.data)
  /\ ResultIsMatched

\* It is the conjunction of the invariants of the run MCScanner.
LEMMA IInvIsTheInvariants ==
  ASSUME TypeOK
  PROVE  /\ Stacked(code.data, stk.data) <=> StackIsTheOpenLoops
         /\ IInv => PrefixIsMatched
<1>1. Stacked(code.data, stk.data) <=> StackIsTheOpenLoops
  BY DEF Stacked, StackIsTheOpenLoops, Pending, Open
<1>2. Stacked(code.data, stk.data) => Pending = Open(code.data)
  BY DEF Stacked, Pending
<1>. QED BY <1>1, <1>2 DEF IInv, Prefix, PrefixIsMatched, LoopsInside

\* Nothing is open, and nothing unpaired, in an empty vector.
LEMMA FreedInv == Stacked(Freed.data, Freed.data) /\ Prefix(Freed.data)
BY FreedType DEF Stacked, Prefix, OpensPaired, ClosesPaired, LoopsInside, Open

\* Without a pending '[', what PrefixIsMatched says is Matched.
LEMMA ClosedIsMatched ==
  ASSUME NEW c \in Seq(Opcode), Prefix(c), Open(c) = {}
  PROVE  Matched(c)
BY DEF Prefix, Matched, LoopsInside, LoopsNest

\* A failing step frees everything.
LEMMA FailKeepsIInv ==
  ASSUME IInv, NEW reason \in Failures, Fail(reason), status = "scanning"
  PROVE  Stacked(code'.data, stk'.data) /\ Prefix(code'.data) /\ ResultIsMatched'
BY FreedInv DEF Fail, IInv, ResultIsMatched, Failures

LEMMA InitIInv == Init => IInv
BY InitTypeOK, FreedInv DEF Init, IInv, ResultIsMatched

\* Emitting, in a state to which the invariant applies, a run or ',' or '.'.
LEMMA EmitPlain ==
  ASSUME IInv, status = "scanning",
         NEW op \in Opcode, op.op \notin {"op_jf", "op_jt"}, Emit(code, stk, op)
  PROVE  Stacked(code'.data, stk'.data) /\ Prefix(code'.data) /\ ResultIsMatched'
<1>1. CASE Fail("oom")
  BY <1>1, FailKeepsIInv DEF Failures
<1>2. CASE ~Fail("oom")
  <2>1. code' = Pushed(code, op) /\ stk' = stk /\ UNCHANGED <<src, out, status>>
    BY <1>2 DEF Emit
  <2>2. code \in ArrayOf(Opcode) /\ code.data \in Seq(Opcode)
    BY DEF IInv, TypeOK, ArrayOf
  <2>3. code'.data = Append(code.data, op)
    BY <2>1, <2>2, PushedType
  <2>4. Prefix(code'.data) /\ Open(code'.data) = Open(code.data)
    BY <2>2, <2>3, AppendKeepsPrefix DEF IInv
  <2>5. Stacked(code'.data, stk'.data)
    BY <2>1, <2>4 DEF IInv, Stacked
  <2>6. ResultIsMatched'
    BY <2>1 DEF IInv, ResultIsMatched
  <2>. QED BY <2>4, <2>5, <2>6
<1>. QED BY <1>1, <1>2

LEMMA NextIInv == IInv /\ [Next]_vars => IInv'
<1>. SUFFICES ASSUME IInv, [Next]_vars PROVE IInv'
  OBVIOUS
<1>1. TypeOK /\ TypeOK'
  BY NextTypeOK DEF IInv
<1>2. SUFFICES Stacked(code'.data, stk'.data) /\ Prefix(code'.data) /\ ResultIsMatched'
  BY <1>1 DEF IInv
<1>3. code.data \in Seq(Opcode) /\ stk.data \in Seq(Nat)
      /\ code \in ArrayOf(Opcode) /\ stk \in ArrayOf(Nat)
  BY <1>1 DEF TypeOK, ArrayOf
<1>4. CASE SkipComment
  BY <1>4 DEF SkipComment, IInv, ResultIsMatched
<1>5. CASE ScanRun
  <2>1. PICK cnt \in 1 .. (Len(src) - i) : Emit(code, stk, Op(OpOf(Cmd), cnt))
    BY <1>5 DEF ScanRun
  <2>2. OpOf(Cmd) \in OpType \ {"op_jf", "op_jt"} /\ cnt \in Nat
    <3>1. Cmd \in RunCommands
      BY <1>5 DEF ScanRun
    <3>2. Len(src) \in Nat /\ i \in Nat
      BY <1>1 DEF TypeOK
    <3>3. OpOf(Cmd) \in OpType \ {"op_jf", "op_jt"}
      BY <3>1, OpOfType
    <3>. QED BY <3>2, <3>3
  <2>3. Op(OpOf(Cmd), cnt) \in Opcode /\ Op(OpOf(Cmd), cnt).op \notin {"op_jf", "op_jt"}
    BY <2>2 DEF Op, Opcode
  <2>. QED BY <1>5, <2>1, <2>3, EmitPlain DEF ScanRun, Reading
<1>6. CASE ScanIO
  <2>1. OpOf(Cmd) \in OpType \ {"op_jf", "op_jt"}
    BY <1>6, OpOfType DEF ScanIO
  <2>2. Op(OpOf(Cmd), 0) \in Opcode /\ Op(OpOf(Cmd), 0).op \notin {"op_jf", "op_jt"}
    BY <2>1 DEF Op, Opcode
  <2>. QED BY <1>6, <2>2, EmitPlain DEF ScanIO, Reading
<1>7. CASE ScanOpen
  <2>. DEFINE op == Op("op_jf", 0)
  <2>1. op \in Opcode /\ op.op = "op_jf"
    BY DEF Op, Opcode, OpType
  <2>2. status = "scanning"
    BY <1>7 DEF ScanOpen, Reading
  <2>3. CASE Fail("oom")
    BY <2>2, <2>3, FailKeepsIInv DEF Failures
  <2>4. CASE ~Fail("oom")
    <3>1. code' = Pushed(code, op) /\ stk' = Pushed(stk, Len(code.data))
          /\ UNCHANGED <<src, out, status>>
      BY <1>7, <2>4 DEF ScanOpen, Emit
    <3>2. Len(code.data) \in Nat
      BY <1>3
    <3>3. code'.data = Append(code.data, op) /\ stk'.data = Append(stk.data, Len(code.data))
      BY <1>3, <2>1, <3>1, <3>2, PushedType
    <3>4. Prefix(code'.data) /\ Open(code'.data) = Open(code.data) \cup {Len(code.data) + 1}
      <4>1. Prefix(code.data)
        BY DEF IInv
      <4>2. op = Op("op_jf", 0)
        OBVIOUS
      <4>. HIDE DEF op
      <4>3. /\ Prefix(Append(code.data, op))
            /\ Open(Append(code.data, op)) = Open(code.data) \cup {Len(code.data) + 1}
        BY ONLY <1>3, <2>1, <4>1, <4>2, AppendKeepsPrefix
      <4>. QED BY ONLY <3>3, <4>3
    <3>5. Stacked(code'.data, stk'.data)
      BY <1>3, <3>3, <3>4, PushKeepsStacked DEF IInv
    <3>6. ResultIsMatched'
      BY <3>1 DEF IInv, ResultIsMatched
    <3>. QED BY <3>4, <3>5, <3>6
  <2>. QED BY <2>3, <2>4
<1>8. CASE ScanClose
  <2>1. status = "scanning"
    BY <1>8 DEF ScanClose, Reading
  <2>2. CASE \E reason \in Failures : Fail(reason)
    BY <2>1, <2>2, FailKeepsIInv
  <2>3. CASE ~ \E reason \in Failures : Fail(reason)
    <3>. DEFINE c       == code.data
                j       == Top(stk) + 1
                e       == [c EXCEPT ![j] = Op("op_jf", Len(c) + 1)]
                op      == Op("op_jt", Top(stk))
                patched == [code EXCEPT !.data[j].num = Len(c) + 1]
    <3>1. /\ ~IsEmpty(stk)
          /\ code' = Pushed(patched, op) /\ stk' = Popped(stk)
          /\ UNCHANGED <<src, out, status>>
      BY <1>8, <2>3 DEF ScanClose, Close, Emit, Failures
    <3>2. /\ stk'.data = SubSeq(stk.data, 1, Len(stk.data) - 1)
          /\ Len(stk.data) # 0 /\ Top(stk) \in Nat /\ Top(stk) = stk.data[Len(stk.data)]
      BY <1>3, <3>1, PoppedType DEF Top
    <3>3. /\ j \in Open(c) /\ \A a \in Open(c) : a <= j
          /\ \A d, t : Open(d) = Open(c) \ {j} /\ t = SubSeq(stk.data, 1, Len(stk.data) - 1)
                         => Stacked(d, t)
      BY <1>3, <3>2, PopKeepsStacked DEF IInv
    <3>4. op \in Opcode /\ op = Op("op_jt", j - 1)
      BY <3>2 DEF Op, Opcode, OpType
    <3>5. /\ e \in Seq(Opcode)
          /\ \A d : d = Append(e, op) => Prefix(d) /\ Open(d) = Open(c) \ {j}
      <4>1. c \in Seq(Opcode) /\ Prefix(c)
        BY <1>3 DEF IInv
      <4>. HIDE DEF c, j, op
      <4>. QED BY <3>3, <3>4, <4>1, PatchKeepsPrefix
    <3>6. patched \in ArrayOf(Opcode) /\ patched.data = e
      <4>1. patched = [code EXCEPT !.data = e]
        <5>1. c[j] = Op("op_jf", 0)
          BY <3>3 DEF Open
        <5>2. [c[j] EXCEPT !.num = Len(c) + 1] = Op("op_jf", Len(c) + 1)
          BY <5>1 DEF Op
        <5>. QED BY <5>2
      <4>. HIDE DEF patched, e
      <4>. QED BY <1>3, <3>5, <4>1 DEF ArrayOf
    <3>7. code'.data = Append(e, op)
      <4>. HIDE DEF patched, e, op
      <4>. QED BY <3>1, <3>4, <3>6, PushedType
    <3>8. Prefix(code'.data) /\ Open(code'.data) = Open(c) \ {j}
      BY <3>5, <3>7
    <3>9. Stacked(code'.data, stk'.data)
      BY <3>2, <3>3, <3>8
    <3>10. ResultIsMatched'
      BY <3>1 DEF IInv, ResultIsMatched
    <3>. QED BY <3>8, <3>9, <3>10
  <2>. QED BY <2>2, <2>3
<1>9. CASE Finish
  <2>1. CASE Fail("unmatched_open")
    BY <1>9, <2>1, FailKeepsIInv DEF Finish, Failures
  <2>2. CASE ~Fail("unmatched_open")
    <3>1. IsEmpty(stk) /\ out' = code /\ code' = Freed /\ stk' = Freed /\ status' = "ok"
      BY <1>9, <2>2 DEF Finish, HandOver
    <3>2. stk.data = << >>
      BY <1>3, <3>1 DEF IsEmpty
    <3>3. Open(code.data) = {}
      BY <3>2 DEF IInv, Stacked
    <3>4. Matched(code.data)
      BY <1>3, <3>3, ClosedIsMatched DEF IInv
    <3>. QED BY <3>1, <3>4, FreedInv DEF ResultIsMatched
  <2>. QED BY <2>1, <2>2
<1>10. CASE UNCHANGED vars
  BY <1>10 DEF vars, IInv, ResultIsMatched
<1>. QED BY <1>4, <1>5, <1>6, <1>7, <1>8, <1>9, <1>10 DEF Next

(***************************************************************************)
(* For every text, the stack always lists exactly the '[' still open       *)
(* (compiler.c:50-71).                                                     *)
(***************************************************************************)
THEOREM LoopsCorrect == Spec => []StackIsTheOpenLoops
<1>1. IInv => StackIsTheOpenLoops
  BY IInvIsTheInvariants DEF IInv
<1>. QED BY InitIInv, NextIInv, <1>1, PTL DEF Spec

(***************************************************************************)
(* For every text, every bracket emitted so far but the open ones is       *)
(* paired, and no open one lies in a loop that is closed.                  *)
(***************************************************************************)
THEOREM PrefixCorrect == Spec => []PrefixIsMatched
<1>1. IInv => PrefixIsMatched
  BY IInvIsTheInvariants DEF IInv
<1>. QED BY InitIInv, NextIInv, <1>1, PTL DEF Spec

(***************************************************************************)
(* For every text, what scanner() returns with true has every bracket      *)
(* paired with exactly one other, and a failure returns nothing.           *)
(***************************************************************************)
THEOREM ResultCorrect == Spec => []ResultIsMatched
<1>1. IInv => ResultIsMatched
  BY DEF IInv
<1>. QED BY InitIInv, NextIInv, <1>1, PTL DEF Spec

-----------------------------------------------------------------------------
(* The opcodes of the lambda syntax, which main.c never sees.              *)

NoLambdas == Plain(code.data) /\ Plain(out.data)

LEMMA EmitKeepsPlain ==
  ASSUME NEW vector \in ArrayOf(Opcode), NEW s, NEW op \in Opcode, Emit(vector, s, op),
         NoLambdas, Plain(vector.data), op.op \notin {"op_def_lambda", "op_ret", "op_call"}
  PROVE  NoLambdas'
<1>1. CASE Fail("oom")
  BY <1>1 DEF Fail, NoLambdas, Plain, Freed
<1>2. CASE code' = Pushed(vector, op) /\ out' = out
  <2>1. vector.data \in Seq(Opcode) /\ code'.data = Append(vector.data, op)
    <3>1. vector.data \in Seq(Opcode)
      BY DEF ArrayOf
    <3>2. code'.data = Append(vector.data, op)
      BY <1>2, PushedType
    <3>. QED BY <3>1, <3>2
  <2>2. Plain(code'.data)
    BY ONLY <2>1, op \in Opcode, Plain(vector.data),
            op.op \notin {"op_def_lambda", "op_ret", "op_call"}, AppendedIsPlain
  <2>. QED BY <1>2, <2>2 DEF NoLambdas
<1>. QED BY <1>1, <1>2 DEF Emit

LEMMA NextNoLambdas ==
  ASSUME TypeOK, NoLambdas, [Next]_vars
  PROVE  NoLambdas'
<1>1. /\ code \in ArrayOf(Opcode) /\ code.data \in Seq(Opcode) /\ Len(code.data) \in Nat
      /\ stk \in ArrayOf(Nat) /\ Len(src) \in Nat /\ i \in Nat
  BY DEF TypeOK, ArrayOf
<1>2. ASSUME NEW type \in OpType \ {"op_def_lambda", "op_ret", "op_call"}, NEW n \in Nat
      PROVE  /\ Op(type, n) \in Opcode
             /\ Op(type, n).op \notin {"op_def_lambda", "op_ret", "op_call"}
  BY <1>2 DEF Op, Opcode
<1>3. ASSUME NEW reason, Fail(reason) PROVE NoLambdas'
  BY <1>3 DEF Fail, NoLambdas, Plain, Freed
<1>4. \A ch \in RunCommands \cup {",", "."} :
        OpOf(ch) \in OpType \ {"op_def_lambda", "op_ret", "op_call"}
  BY DEF OpOf, OpType, RunCommands
<1>5. CASE ScanRun
  <2>1. PICK cnt \in 1 .. (Len(src) - i) : Emit(code, stk, Op(OpOf(Cmd), cnt))
    BY <1>5 DEF ScanRun
  <2>2. cnt \in Nat /\ Cmd \in RunCommands
    BY <1>1, <1>5 DEF ScanRun
  <2>. QED BY <1>1, <1>2, <1>4, <2>1, <2>2, EmitKeepsPlain DEF NoLambdas
<1>6. CASE ScanIO
  <2>1. Cmd \in {",", "."} /\ Emit(code, stk, Op(OpOf(Cmd), 0))
    BY <1>6 DEF ScanIO
  <2>. QED BY <1>1, <1>2, <1>4, <2>1, EmitKeepsPlain DEF NoLambdas
<1>7. CASE ScanOpen
  <2>1. "op_jf" \in OpType \ {"op_def_lambda", "op_ret", "op_call"}
    BY DEF OpType
  <2>2. Emit(code, Pushed(stk, Len(code.data)), Op("op_jf", 0)) \/ Fail("oom")
    BY <1>7 DEF ScanOpen
  <2>. QED BY <1>1, <1>2, <1>3, <2>1, <2>2, EmitKeepsPlain DEF NoLambdas
<1>8. CASE ScanClose
  <2>1. CASE Fail("unmatched_close")
    BY <1>3, <2>1
  <2>2. CASE ~IsEmpty(stk) /\ Close(Top(stk), Len(code.data) + 1, Popped(stk))
    <3>. DEFINE data    == [code.data EXCEPT ![Top(stk) + 1].num = Len(code.data) + 1]
                patched == [code EXCEPT !.data[Top(stk) + 1].num = Len(code.data) + 1]
    <3>1. Top(stk) \in Nat
      BY <1>1, <2>2, PoppedType
    <3>2. Top(stk) + 1 \in Int /\ Len(code.data) + 1 \in Nat
      BY <1>1, <3>1
    <3>3. data \in Seq(Opcode) /\ Plain(data)
      <4>1. PICK k \in Int, n \in Nat : k = Top(stk) + 1 /\ n = Len(code.data) + 1
        BY <3>2
      <4>2. data = [code.data EXCEPT ![k].num = n]
        BY <4>1
      <4>3. Plain(code.data) /\ code.data \in Seq(Opcode)
        BY <1>1 DEF NoLambdas
      <4>. HIDE DEF data
      <4>4. data \in Seq(Opcode)
        BY <4>2, <4>3, PatchedType
      <4>5. Plain(data)
        BY <4>2, <4>3, PatchedIsPlain
      <4>. QED BY <4>4, <4>5
    <3>4. patched \in ArrayOf(Opcode) /\ patched.data = data
      <4>1. patched = [code EXCEPT !.data = data]
        OBVIOUS
      <4>. HIDE DEF data, patched
      <4>. QED BY <1>1, <3>3, <4>1 DEF ArrayOf
    <3>5. "op_jt" \in OpType \ {"op_def_lambda", "op_ret", "op_call"}
      BY DEF OpType
    <3>6. Emit(patched, Popped(stk), Op("op_jt", Top(stk)))
      BY <2>2 DEF Close
    <3>. HIDE DEF data, patched
    <3>. QED BY <1>2, <3>1, <3>3, <3>4, <3>5, <3>6, EmitKeepsPlain
  <2>. QED BY <1>8, <2>1, <2>2 DEF ScanClose
<1>9. CASE Finish
  <2>1. CASE HandOver
    BY <2>1 DEF HandOver, NoLambdas, Plain, Freed
  <2>. QED BY <1>3, <1>9, <2>1 DEF Finish
<1>10. CASE SkipComment \/ UNCHANGED vars
  BY <1>10 DEF SkipComment, vars, NoLambdas
<1>. QED BY <1>5, <1>6, <1>7, <1>8, <1>9, <1>10 DEF Next

(***************************************************************************)
(* Whatever the text, scanner() emits none of the opcodes of the lambda    *)
(* syntax, although the opcodes exist and interpreter() handles them.      *)
(***************************************************************************)
THEOREM EmitsNoLambdas == Spec => []NoLambdas
<1>1. Init => TypeOK /\ NoLambdas
  BY InitTypeOK DEF Init, NoLambdas, Plain, Freed
<1>2. (TypeOK /\ NoLambdas) /\ [Next]_vars => (TypeOK /\ NoLambdas)'
  BY NextTypeOK, NextNoLambdas
<1>. QED BY <1>1, <1>2, PTL DEF Spec

-----------------------------------------------------------------------------
(* What happens to memory and to what has been emitted.                    *)

LEMMA NextReleases ==
  ASSUME NothingLeaks, [Next]_vars
  PROVE  NothingLeaks'
<1>1. ASSUME NEW reason, Fail(reason) PROVE NothingLeaks'
  BY <1>1 DEF Fail, NothingLeaks
<1>2. ASSUME NEW vector, NEW s, NEW op, Emit(vector, s, op), status = "scanning"
      PROVE  NothingLeaks'
  BY <1>1, <1>2 DEF Emit, NothingLeaks
<1>3. CASE SkipComment
  BY <1>3 DEF SkipComment, Reading, NothingLeaks
<1>4. CASE ScanRun
  BY <1>2, <1>4 DEF ScanRun, Reading
<1>5. CASE ScanIO
  BY <1>2, <1>5 DEF ScanIO, Reading
<1>6. CASE ScanOpen
  BY <1>1, <1>2, <1>6 DEF ScanOpen, Reading
<1>7. CASE ScanClose
  BY <1>1, <1>2, <1>7 DEF ScanClose, Close, Reading
<1>8. CASE Finish
  BY <1>1, <1>8 DEF Finish, HandOver, NothingLeaks
<1>9. CASE UNCHANGED vars
  BY <1>9 DEF vars, NothingLeaks
<1>. QED BY <1>3, <1>4, <1>5, <1>6, <1>7, <1>8, <1>9 DEF Next

(***************************************************************************)
(* Whichever allocation fails, on return the stack is freed and the vector *)
(* freed or handed over (compiler.c:97-104).                               *)
(***************************************************************************)
THEOREM Releases == Spec => []NothingLeaks
<1>1. Init => NothingLeaks
  BY DEF Init, NothingLeaks
<1>2. NothingLeaks /\ [Next]_vars => NothingLeaks'
  BY NextReleases
<1>. QED BY <1>1, <1>2, PTL DEF Spec

\* What EmittedIsFinal says of a step from vector c to vector d.
Extends(c, d) ==
  \A k \in DOMAIN c :
     \/ d[k] = c[k]
     \/ /\ c[k] = Op("op_jf", 0)
        /\ d[k] = Op("op_jf", Len(d))
        /\ d[Len(d)] = Op("op_jt", k - 1)

\* Appending changes nothing already there.
LEMMA AppendExtends ==
  ASSUME NEW c \in Seq(Opcode), NEW op \in Opcode
  PROVE  Extends(c, Append(c, op))
<1>1. \A k \in DOMAIN c : Append(c, op)[k] = c[k]
  OBVIOUS
<1>. QED BY <1>1 DEF Extends

\* Patching an open '[' and appending the ']' that closes it changes that '[' only.
LEMMA CloseExtends ==
  ASSUME NEW c \in Seq(Opcode), NEW j \in Open(c),
         NEW e \in Seq(Opcode), Len(e) = Len(c),
         \A k \in DOMAIN c : e[k] = IF k = j THEN Op("op_jf", Len(c) + 1) ELSE c[k],
         Op("op_jt", j - 1) \in Opcode
  PROVE  Extends(c, Append(e, Op("op_jt", j - 1)))
<1>. DEFINE d == Append(e, Op("op_jt", j - 1))
<1>1. Len(d) = Len(c) + 1 /\ d[Len(d)] = Op("op_jt", j - 1)
  OBVIOUS
<1>2. \A k \in DOMAIN c : d[k] = e[k]
  OBVIOUS
<1>3. c[j] = Op("op_jf", 0)
  BY DEF Open
<1>. HIDE DEF d
<1>4. \A k \in DOMAIN c : k = j => d[k] = Op("op_jf", Len(d))
  BY <1>1, <1>2
<1>5. \A k \in DOMAIN c : k # j => d[k] = c[k]
  BY <1>2
<1>6. Extends(c, d)
  BY <1>1, <1>3, <1>4, <1>5 DEF Extends
<1>. QED BY <1>6 DEF d

LEMMA NextExtends ==
  IInv /\ [Next]_vars => [status' = "scanning" => Extends(code.data, code'.data)]_vars
<1>. SUFFICES ASSUME IInv, Next, status' = "scanning"
              PROVE  Extends(code.data, code'.data)
  OBVIOUS
<1>1. /\ code \in ArrayOf(Opcode) /\ code.data \in Seq(Opcode)
      /\ stk \in ArrayOf(Nat) /\ stk.data \in Seq(Nat)
  BY DEF IInv, TypeOK, ArrayOf
<1>2. \A reason \in Failures : ~Fail(reason)
  BY DEF Fail, Failures
<1>3. ASSUME NEW op \in Opcode, NEW s, Emit(code, s, op)
      PROVE  Extends(code.data, code'.data)
  <2>1. code' = Pushed(code, op)
    BY <1>2, <1>3 DEF Emit, Failures
  <2>2. code'.data = Append(code.data, op)
    BY <1>1, <2>1, PushedType
  <2>. QED BY <1>1, <2>2, AppendExtends
<1>4. CASE SkipComment
  BY <1>4 DEF SkipComment, Extends
<1>5. CASE ScanRun
  <2>1. PICK cnt \in 1 .. (Len(src) - i) : Emit(code, stk, Op(OpOf(Cmd), cnt))
    BY <1>5 DEF ScanRun
  <2>2. cnt \in Nat
    BY DEF IInv, TypeOK
  <2>3. OpOf(Cmd) \in OpType
    BY <1>5, OpOfType DEF ScanRun
  <2>4. Op(OpOf(Cmd), cnt) \in Opcode
    BY <2>2, <2>3 DEF Op, Opcode
  <2>. QED BY <1>3, <2>1, <2>4
<1>6. CASE ScanIO
  <2>1. OpOf(Cmd) \in OpType
    BY <1>6, OpOfType DEF ScanIO
  <2>2. Op(OpOf(Cmd), 0) \in Opcode
    BY <2>1 DEF Op, Opcode
  <2>. QED BY <1>3, <1>6, <2>2 DEF ScanIO
<1>7. CASE ScanOpen
  <2>1. Op("op_jf", 0) \in Opcode
    BY DEF Op, Opcode, OpType
  <2>. QED BY <1>2, <1>3, <1>7, <2>1 DEF ScanOpen, Failures
<1>8. CASE ScanClose
  <2>. DEFINE c == code.data
              j == Top(stk) + 1
              e == [c EXCEPT ![j] = Op("op_jf", Len(c) + 1)]
              patched == [code EXCEPT !.data[j].num = Len(c) + 1]
  <2>1. ~IsEmpty(stk) /\ code' = Pushed(patched, Op("op_jt", Top(stk)))
    BY <1>2, <1>8 DEF ScanClose, Close, Emit, Failures
  <2>2. Top(stk) \in Nat /\ Top(stk) = stk.data[Len(stk.data)] /\ Len(stk.data) # 0
    BY <1>1, <2>1, PoppedType DEF Top
  <2>3. j \in Open(c)
    BY <1>1, <2>2, PopKeepsStacked DEF IInv
  <2>4. /\ Op("op_jt", j - 1) \in Opcode
        /\ Op("op_jt", Top(stk)) = Op("op_jt", j - 1)
    BY <2>2 DEF Op, Opcode, OpType
  <2>5. /\ e \in Seq(Opcode) /\ Len(e) = Len(c)
        /\ \A k \in DOMAIN c : e[k] = IF k = j THEN Op("op_jf", Len(c) + 1) ELSE c[k]
    <3>1. c \in Seq(Opcode) /\ j \in DOMAIN c
      BY <1>1, <2>3 DEF Open
    <3>. HIDE DEF c, j
    <3>2. Op("op_jf", Len(c) + 1) \in Opcode
      BY <3>1 DEF Op, Opcode, OpType
    <3>. QED BY <3>1, <3>2, ReplacedFields
  <2>6. patched \in ArrayOf(Opcode) /\ patched.data = e
    <3>1. patched = [code EXCEPT !.data = e]
      <4>1. c[j] = Op("op_jf", 0)
        BY <2>3 DEF Open
      <4>2. [c[j] EXCEPT !.num = Len(c) + 1] = Op("op_jf", Len(c) + 1)
        BY <4>1 DEF Op
      <4>. QED BY <4>2
    <3>. HIDE DEF patched, e
    <3>. QED BY <1>1, <2>5, <3>1 DEF ArrayOf
  <2>7. code'.data = Append(e, Op("op_jt", j - 1))
    <3>. HIDE DEF patched, e, j
    <3>. QED BY <2>1, <2>4, <2>6, PushedType
  <2>8. Extends(c, Append(e, Op("op_jt", j - 1)))
    <3>. HIDE DEF c, j, e
    <3>1. c \in Seq(Opcode)
      BY <1>1 DEF c
    <3>. QED BY <2>3, <2>4, <2>5, <3>1, CloseExtends
  <2>. QED BY <2>7, <2>8
<1>9. CASE Finish
  BY <1>2, <1>9 DEF Finish, HandOver, Failures
<1>. QED BY <1>4, <1>5, <1>6, <1>7, <1>8, <1>9 DEF Next

(***************************************************************************)
(* An opcode emitted stays as it is, except that a '[' gets its target     *)
(* once, in the step that emits its ']' (compiler.c:67).                   *)
(***************************************************************************)
THEOREM EmissionIsFinal == Spec => EmittedIsFinal
<1>1. IInv /\ [Next]_vars
        => [status' = "scanning" =>
              \A k \in DOMAIN code.data :
                 \/ code'.data[k] = code.data[k]
                 \/ /\ code.data[k] = Op("op_jf", 0)
                    /\ code'.data[k] = Op("op_jf", Len(code'.data))
                    /\ code'.data[Len(code'.data)] = Op("op_jt", k - 1)]_vars
  BY NextExtends DEF Extends
<1>. QED BY InitIInv, NextIInv, <1>1, PTL DEF Spec, EmittedIsFinal

-----------------------------------------------------------------------------
(* Counting in a text.                                                     *)

LEMMA CountIsNat ==
  ASSUME NEW s, NEW ch, NEW n \in Nat
  PROVE  Count(s, ch, n) \in Nat
<1>1. IsFiniteSet(1 .. n)
  BY FS_Interval
<1>2. IsFiniteSet({k \in 1 .. n : s[k] = ch})
  BY <1>1, FS_Subset
<1>. QED BY <1>2, FS_CardinalityType DEF Count

LEMMA CountStep ==
  ASSUME NEW s, NEW ch, NEW n \in Nat
  PROVE  /\ Count(s, ch, 0) = 0
         /\ Count(s, ch, n + 1) = IF s[n + 1] = ch THEN Count(s, ch, n) + 1 ELSE Count(s, ch, n)
<1>. DEFINE before == {k \in 1 .. n : s[k] = ch}
            after  == {k \in 1 .. (n + 1) : s[k] = ch}
<1>1. {k \in 1 .. 0 : s[k] = ch} = {}
  OBVIOUS
<1>2. IsFiniteSet(before)
  <2>1. IsFiniteSet(1 .. n)
    BY FS_Interval
  <2>. QED BY <2>1, FS_Subset
<1>3. after = IF s[n + 1] = ch THEN before \cup {n + 1} ELSE before
  OBVIOUS
<1>4. n + 1 \notin before
  OBVIOUS
<1>. HIDE DEF before, after
<1>5. Cardinality(before \cup {n + 1}) = Cardinality(before) + 1
  BY <1>2, <1>4, FS_AddElement
<1>. QED BY <1>1, <1>3, <1>5, FS_EmptySet DEF Count, before, after

\* What a character does to the depth.
LEMMA DepthStep ==
  ASSUME NEW s, NEW n \in Nat
  PROVE  /\ Depth(s, n) \in Int /\ Depth(s, 0) = 0
         /\ s[n + 1] = "[" => Depth(s, n + 1) = Depth(s, n) + 1
         /\ s[n + 1] = "]" => Depth(s, n + 1) = Depth(s, n) - 1
         /\ s[n + 1] \notin {"[", "]"} => Depth(s, n + 1) = Depth(s, n)
<1>1. /\ Count(s, "[", n) \in Nat /\ Count(s, "]", n) \in Nat
      /\ Count(s, "[", 0) = 0 /\ Count(s, "]", 0) = 0
  BY CountIsNat, CountStep
<1>2. /\ Count(s, "[", n + 1) = IF s[n + 1] = "[" THEN Count(s, "[", n) + 1 ELSE Count(s, "[", n)
      /\ Count(s, "]", n + 1) = IF s[n + 1] = "]" THEN Count(s, "]", n) + 1 ELSE Count(s, "]", n)
  BY CountStep
<1>. QED BY <1>1, <1>2 DEF Depth

\* Characters that are not brackets do not change it.
LEMMA DepthFlat ==
  ASSUME NEW s, NEW n \in Nat, NEW m \in Nat, n <= m,
         \A k \in (n + 1) .. m : s[k] \notin {"[", "]"}
  PROVE  Depth(s, m) = Depth(s, n)
<1>1. \A ch \in {"[", "]"} : {k \in 1 .. m : s[k] = ch} = {k \in 1 .. n : s[k] = ch}
  <2>1. ASSUME NEW ch \in {"[", "]"}, NEW k
        PROVE  k \in 1 .. m /\ s[k] = ch <=> k \in 1 .. n /\ s[k] = ch
    <3>1. k \in 1 .. m => k \in 1 .. n \/ k \in (n + 1) .. m
      OBVIOUS
    <3>2. k \in 1 .. n => k \in 1 .. m
      OBVIOUS
    <3>. QED BY <3>1, <3>2
  <2>. QED BY <2>1
<1>. QED BY <1>1 DEF Depth, Count

LEMMA StartsFinite ==
  ASSUME NEW s \in Seq(STRING)
  PROVE  Starts(s) \subseteq 1 .. Len(s) /\ Len(s) \in Nat /\ IsFiniteSet(Starts(s))
<1>1. Starts(s) \subseteq 1 .. Len(s) /\ Len(s) \in Nat /\ IsFiniteSet(1 .. Len(s))
  BY FS_Interval DEF Starts
<1>. QED BY <1>1, FS_Subset

LEMMA IndexIsNat ==
  ASSUME NEW s \in Seq(STRING), NEW k
  PROVE  IsFiniteSet({j \in Starts(s) : j < k}) /\ IndexOf(s, k) \in Nat
<1>1. IsFiniteSet({j \in Starts(s) : j < k})
  BY StartsFinite, FS_Subset
<1>. QED BY <1>1, FS_CardinalityType DEF IndexOf

\* The index after a character is one more where an opcode begins.
LEMMA IndexStep ==
  ASSUME NEW s \in Seq(STRING), NEW n \in Nat
  PROVE  /\ IndexOf(s, 1) = 0
         /\ IndexOf(s, n + 1) = IF n \in Starts(s) THEN IndexOf(s, n) + 1 ELSE IndexOf(s, n)
         /\ IndexOf(s, Len(s) + 1) = Cardinality(Starts(s))
<1>0. Starts(s) \subseteq 1 .. Len(s) /\ Len(s) \in Nat
  BY StartsFinite
<1>. DEFINE before(k) == {j \in Starts(s) : j < k}
<1>1. before(1) = {} /\ before(Len(s) + 1) = Starts(s)
  BY <1>0
<1>2. before(n + 1) = IF n \in Starts(s) THEN before(n) \cup {n} ELSE before(n)
  BY <1>0
<1>3. n \notin before(n) /\ IsFiniteSet(before(n))
  BY IndexIsNat
<1>4. \A k : IndexOf(s, k) = Cardinality(before(k))
  BY DEF IndexOf
<1>. HIDE DEF before
<1>5. Cardinality(before(n) \cup {n}) = Cardinality(before(n)) + 1
  BY <1>3, FS_AddElement
<1>. QED BY <1>1, <1>2, <1>4, <1>5, FS_EmptySet

\* Where no opcode begins the index stays.
LEMMA IndexFlat ==
  ASSUME NEW s \in Seq(STRING), NEW n \in Nat, NEW m \in Nat, n <= m,
         \A k \in n .. (m - 1) : k \notin Starts(s)
  PROVE  IndexOf(s, m) = IndexOf(s, n)
<1>1. Starts(s) \subseteq 1 .. Len(s)
  BY StartsFinite
<1>2. ASSUME NEW k \in Starts(s) PROVE k < m <=> k < n
  BY <1>1
<1>3. {k \in Starts(s) : k < m} = {k \in Starts(s) : k < n}
  BY <1>2
<1>. QED BY <1>3 DEF IndexOf

\* Different opcodes have different indexes, in the order of the text.
LEMMA IndexIsMonotone ==
  ASSUME NEW s \in Seq(STRING), NEW k \in Starts(s), NEW m \in Nat, k < m
  PROVE  IndexOf(s, k) < IndexOf(s, m)
<1>. DEFINE before(n) == {j \in Starts(s) : j < n}
<1>1. k \in Nat /\ Starts(s) \subseteq 1 .. Len(s)
  BY StartsFinite
<1>2. before(k) \cup {k} \in SUBSET before(m)
  BY <1>1
<1>3. k \notin before(k)
  BY <1>1
<1>7. \A n : IsFiniteSet(before(n))
  BY IndexIsNat
<1>4. \A n : IndexOf(s, n) = Cardinality(before(n)) /\ IndexOf(s, n) \in Nat
  BY IndexIsNat DEF IndexOf
<1>. HIDE DEF before
<1>5. Cardinality(before(k) \cup {k}) = Cardinality(before(k)) + 1
  BY <1>3, <1>7, FS_AddElement
<1>6. Cardinality(before(k) \cup {k}) <= Cardinality(before(m))
  BY <1>2, <1>7, FS_Subset
<1>. QED BY <1>4, <1>5, <1>6

LEMMA IndexIsInjective ==
  ASSUME NEW s \in Seq(STRING), NEW k \in Starts(s), NEW m \in Starts(s),
         IndexOf(s, k) = IndexOf(s, m)
  PROVE  k = m
<1>1. k \in Nat /\ m \in Nat /\ IndexOf(s, k) \in Nat /\ IndexOf(s, m) \in Nat
  <2>1. k \in Nat /\ m \in Nat
    BY StartsFinite
  <2>. QED BY <2>1, IndexIsNat
<1>2. ~(k < m) /\ ~(m < k)
  BY <1>1, IndexIsMonotone
<1>. QED BY <1>1, <1>2

-----------------------------------------------------------------------------
(* Brackets in a text.                                                     *)

\* The '[' at k is still open after n characters.
Unclosed(s, k, n) == s[k] = "[" /\ \A j \in k .. n : Depth(s, j) >= Depth(s, k)

\* The ']' at m closes it: the predicate of Closer.
Closes(s, k, m) ==
  /\ m \in (k + 1) .. Len(s) /\ s[m] = "]" /\ Depth(s, m) = Depth(s, k) - 1
  /\ \A j \in k .. (m - 1) : Depth(s, j) >= Depth(s, k)

LEMMA DepthIsInt ==
  ASSUME NEW s
  PROVE  \A n \in Nat : Depth(s, n) \in Int
BY DepthStep

\* A '[' raises the depth.
LEMMA OpenRaises ==
  ASSUME NEW s, NEW k \in Nat \ {0}, s[k] = "["
  PROVE  Depth(s, k) = Depth(s, k - 1) + 1 /\ Depth(s, k - 1) \in Int
<1>1. k - 1 \in Nat /\ (k - 1) + 1 = k
  OBVIOUS
<1>. QED BY <1>1, DepthStep

\* Two '[' open at once are open at different depths.
LEMMA OneOpenPerDepth ==
  ASSUME NEW s, NEW n \in Nat, NEW k \in 1 .. n, NEW m \in 1 .. n,
         Unclosed(s, k, n), Unclosed(s, m, n), Depth(s, k) = Depth(s, m)
  PROVE  k = m
<1>1. ASSUME NEW a \in 1 .. n, NEW b \in 1 .. n, Unclosed(s, a, n), s[b] = "[",
             Depth(s, a) = Depth(s, b), a < b
      PROVE  FALSE
  <2>1. b - 1 \in a .. n
    BY <1>1
  <2>2. Depth(s, b - 1) >= Depth(s, a)
    BY <1>1, <2>1 DEF Unclosed
  <2>. QED BY <1>1, <2>2, OpenRaises
<1>. QED BY <1>1 DEF Unclosed

\* A '[' is closed by one ']' only, and a ']' closes one '[' only.
LEMMA OneCloser ==
  ASSUME NEW s, NEW k \in Nat, NEW m, NEW n, Closes(s, k, m), Closes(s, k, n)
  PROVE  m = n
<1>1. m \in Nat /\ n \in Nat /\ k < m /\ k < n /\ Depth(s, k) \in Int
  BY DepthIsInt DEF Closes
<1>2. ~(m < n)
  BY <1>1 DEF Closes
<1>3. ~(n < m)
  BY <1>1 DEF Closes
<1>. QED BY <1>1, <1>2, <1>3

LEMMA OneOpener ==
  ASSUME NEW s, NEW m \in Nat, NEW k \in 1 .. (m - 1), NEW n \in 1 .. (m - 1),
         s[k] = "[", s[n] = "[", Closes(s, k, m), Closes(s, n, m)
  PROVE  k = n
<1>1. m - 1 \in Nat /\ Depth(s, m) \in Int /\ Depth(s, k) \in Int /\ Depth(s, n) \in Int
  BY DepthIsInt
<1>2. Unclosed(s, k, m - 1) /\ Unclosed(s, n, m - 1) /\ Depth(s, k) = Depth(s, n)
  BY <1>1 DEF Closes, Unclosed
<1>. QED BY <1>1, <1>2, OneOpenPerDepth

LEMMA CloserIs ==
  ASSUME NEW s, NEW k \in Nat, NEW m, Closes(s, k, m)
  PROVE  Closer(s, k) = m
<1>1. /\ m \in (k + 1) .. Len(s)
      /\ s[m] = "]" /\ Depth(s, m) = Depth(s, k) - 1
      /\ \A j \in k .. (m - 1) : Depth(s, j) >= Depth(s, k)
  BY DEF Closes
<1>2. Closes(s, k, Closer(s, k))
  BY <1>1 DEF Closes, Closer
<1>. QED BY <1>2, OneCloser

\* In a text where every '[' is closed.
LEMMA OpenerIs ==
  ASSUME NEW s \in Seq(STRING), NEW m \in 1 .. Len(s), NEW k \in 1 .. (m - 1),
         s[k] = "[", Closes(s, k, m),
         \A a \in 1 .. Len(s) : s[a] = "[" => \E b : Closes(s, a, b)
  PROVE  Opener(s, m) = k
<1>1. Closer(s, k) = m
  BY CloserIs
<1>2. ASSUME NEW a \in 1 .. (m - 1), s[a] = "[", Closer(s, a) = m
      PROVE  a = k
  <2>1. a \in Nat /\ a \in 1 .. Len(s)
    OBVIOUS
  <2>2. PICK b : Closes(s, a, b)
    BY <1>2, <2>1
  <2>3. Closes(s, a, m)
    BY <1>2, <2>1, <2>2, CloserIs
  <2>. QED BY <1>2, <2>3, OneOpener
<1>. QED BY <1>1, <1>2 DEF Opener

-----------------------------------------------------------------------------
(* What scanner() has done after n characters of s, as a statement about   *)
(* its vector c and its stack st.                                          *)

ios == {",", "."}

\* op is what stands, after n characters, for the command at k: a '[' gets
\* its target when its ']' has been seen.
Stands(s, n, k, op) ==
  \/ s[k] = "[" /\ Unclosed(s, k, n) /\ op = Op("op_jf", 0)
  \/ s[k] = "[" /\ \E m \in (k + 1) .. n : Closes(s, k, m) /\ op = Op("op_jf", IndexOf(s, m) + 1)
  \/ s[k] = "]" /\ \E o \in 1 .. (k - 1) :
                     s[o] = "[" /\ Closes(s, o, k) /\ op = Op("op_jt", IndexOf(s, o))
  \/ s[k] \in ios /\ op = Op(OpFor[s[k]], 0)
  \/ s[k] \in runs /\ op = Op(OpFor[s[k]], RunLength(s, k))

\* Every opcode emitted stands for the command that begins at its place.
Written(s, n, c) ==
  /\ Len(c) = IndexOf(s, n + 1)
  /\ \A t \in DOMAIN c :
       \E k \in Starts(s) : k <= n /\ IndexOf(s, k) = t - 1 /\ Stands(s, n, k, c[t])

\* The stack has the open '[' of each depth.
Opened(s, n, st) ==
  /\ Len(st) = Depth(s, n)
  /\ \A d \in DOMAIN st :
       \E k \in 1 .. n : Unclosed(s, k, n) /\ Depth(s, k) = d /\ st[d] = IndexOf(s, k)

\* A run is never left in its middle.
WholeRuns(s, n) == n < Len(s) /\ n > 0 /\ s[n + 1] \in runs => s[n] # s[n + 1]

NonNegative(s, n) == \A j \in 0 .. n : Depth(s, j) >= 0

TranslatedTo(s, n, c, st) ==
  WholeRuns(s, n) /\ NonNegative(s, n) /\ Written(s, n, c) /\ Opened(s, n, st)

\* A command stays as it stands unless it is the '[' now closed.
LEMMA StillStands ==
  ASSUME NEW s, NEW n \in Nat, NEW m \in Nat, n <= m, NEW k \in 1 .. n, NEW op,
         Stands(s, n, k, op), Unclosed(s, k, n) => Unclosed(s, k, m)
  PROVE  Stands(s, m, k, op)
<1>1. (k + 1) .. n \subseteq (k + 1) .. m
  OBVIOUS
<1>. QED BY <1>1 DEF Stands

\* Characters without a bracket leave everything open that was.
LEMMA FlatStep ==
  ASSUME NEW s, NEW n \in Nat, NEW m \in Nat, n <= m, NEW st,
         \A k \in (n + 1) .. m : s[k] \notin {"[", "]"},
         NonNegative(s, n), Opened(s, n, st)
  PROVE  /\ NonNegative(s, m) /\ Opened(s, m, st)
         /\ \A k \in 1 .. n : Unclosed(s, k, n) => Unclosed(s, k, m)
<1>1. ASSUME NEW j \in n .. m PROVE Depth(s, j) = Depth(s, n)
  <2>1. j \in Nat /\ n <= j /\ \A k \in (n + 1) .. j : k \in (n + 1) .. m
    OBVIOUS
  <2>. QED BY <2>1, DepthFlat
<1>2. \A j \in 0 .. m : j \in 0 .. n \/ j \in n .. m
  OBVIOUS
<1>3. NonNegative(s, m)
  BY <1>1, <1>2 DEF NonNegative
<1>4. ASSUME NEW k \in 1 .. n, Unclosed(s, k, n) PROVE Unclosed(s, k, m)
  <2>1. n \in k .. n /\ \A j \in k .. m : j \in k .. n \/ j \in n .. m
    OBVIOUS
  <2>. QED BY <1>1, <1>4, <2>1 DEF Unclosed
<1>5. m \in n .. m /\ \A k \in 1 .. n : k \in 1 .. m
  OBVIOUS
<1>6. Opened(s, m, st)
  BY <1>1, <1>4, <1>5 DEF Opened
<1>. QED BY <1>3, <1>4, <1>6

\* Appending the opcode of the command that begins at n + 1 and ends at m.
LEMMA AppendWritten ==
  ASSUME NEW s \in Seq(STRING), NEW n \in Nat, NEW m \in Nat, n < m,
         NEW c \in Seq(Opcode), Len(c) = IndexOf(s, n + 1),
         \A t \in DOMAIN c :
           \E k \in Starts(s) : k <= n /\ IndexOf(s, k) = t - 1 /\ Stands(s, m, k, c[t]),
         n + 1 \in Starts(s), \A k \in (n + 2) .. m : k \notin Starts(s),
         NEW op \in Opcode, Stands(s, m, n + 1, op)
  PROVE  Written(s, m, Append(c, op))
<1>. DEFINE d == Append(c, op)
<1>1. /\ Len(c) \in Nat /\ DOMAIN c = 1 .. Len(c)
      /\ Len(d) = Len(c) + 1 /\ DOMAIN d = 1 .. (Len(c) + 1)
      /\ d[Len(c) + 1] = op /\ \A t \in 1 .. Len(c) : d[t] = c[t]
  OBVIOUS
<1>2. IndexOf(s, m + 1) = IndexOf(s, n + 1) + 1
  <2>1. IndexOf(s, (n + 1) + 1) = IndexOf(s, n + 1) + 1
    <3>1. n + 1 \in Nat
      OBVIOUS
    <3>. QED BY <3>1, IndexStep
  <2>2. IndexOf(s, m + 1) = IndexOf(s, n + 2)
    <3>1. n + 2 \in Nat /\ m + 1 \in Nat /\ n + 2 <= m + 1 /\ (m + 1) - 1 = m
      OBVIOUS
    <3>. QED BY <3>1, IndexFlat
  <2>3. (n + 1) + 1 = n + 2
    OBVIOUS
  <2>. QED BY <2>1, <2>2, <2>3
<1>. HIDE DEF d
<1>3. ASSUME NEW t \in DOMAIN d
      PROVE  \E k \in Starts(s) : k <= m /\ IndexOf(s, k) = t - 1 /\ Stands(s, m, k, d[t])
  <2>1. CASE t = Len(c) + 1
    <3>1. n + 1 <= m /\ IndexOf(s, n + 1) = t - 1
      BY <1>1, <2>1
    <3>. QED BY <1>1, <2>1, <3>1
  <2>2. CASE t \in 1 .. Len(c)
    <3>1. PICK k \in Starts(s) : k <= n /\ IndexOf(s, k) = t - 1 /\ Stands(s, m, k, c[t])
      BY <1>1, <2>2
    <3>2. k <= m
      BY <3>1, StartsFinite
    <3>. QED BY <1>1, <2>2, <3>1, <3>2
  <2>. QED BY <1>1, <2>1, <2>2
<1>4. Len(d) = IndexOf(s, m + 1)
  BY <1>1, <1>2
<1>. QED BY <1>3, <1>4 DEF Written, d

-----------------------------------------------------------------------------
(* The steps of scanner(), as statements about its vector and its stack.   *)

LEMMA CommentTranslated ==
  ASSUME NEW s \in Seq(STRING), NEW n \in 0 .. (Len(s) - 1), s[n + 1] \notin runs \cup singles,
         NEW c, NEW st, TranslatedTo(s, n, c, st)
  PROVE  TranslatedTo(s, n + 1, c, st)
<1>1. n \in Nat /\ n + 1 \in Nat /\ n <= n + 1
  OBVIOUS
<1>7. \A k \in (n + 1) .. (n + 1) : s[k] \notin {"[", "]"}
  <2>1. \A k \in (n + 1) .. (n + 1) : k = n + 1
    OBVIOUS
  <2>. QED BY <2>1 DEF singles
<1>2. /\ NonNegative(s, n + 1) /\ Opened(s, n + 1, st)
      /\ \A k \in 1 .. n : Unclosed(s, k, n) => Unclosed(s, k, n + 1)
  BY <1>1, <1>7, FlatStep DEF TranslatedTo
<1>3. n + 1 \notin Starts(s)
  BY DEF Starts
<1>4. IndexOf(s, (n + 1) + 1) = IndexOf(s, n + 1)
  BY <1>1, <1>3, IndexStep
<1>5. ASSUME NEW t \in DOMAIN c
      PROVE  \E k \in Starts(s) : k <= n + 1 /\ IndexOf(s, k) = t - 1 /\ Stands(s, n + 1, k, c[t])
  <2>1. PICK k \in Starts(s) : k <= n /\ IndexOf(s, k) = t - 1 /\ Stands(s, n, k, c[t])
    BY DEF TranslatedTo, Written
  <2>2. k \in 1 .. n /\ k <= n + 1
    <3>1. k \in 1 .. Len(s)
      BY <2>1, StartsFinite
    <3>. QED BY <1>1, <2>1, <3>1
  <2>3. Stands(s, n + 1, k, c[t])
    BY <1>1, <1>2, <2>1, <2>2, StillStands
  <2>. QED BY <2>1, <2>2, <2>3
<1>6. WholeRuns(s, n + 1)
  BY DEF WholeRuns
<1>. QED BY <1>2, <1>4, <1>5, <1>6 DEF TranslatedTo, Written

\* The rest of the proof that a command without a bracket keeps the invariant.
LEMMA PlainTranslated ==
  ASSUME NEW s \in Seq(STRING), NEW n \in Nat, NEW m \in Nat, n < m,
         \A k \in (n + 1) .. m : s[k] \notin {"[", "]"},
         n + 1 \in Starts(s), \A k \in (n + 2) .. m : k \notin Starts(s),
         WholeRuns(s, m),
         NEW op \in Opcode, Stands(s, m, n + 1, op),
         NEW c \in Seq(Opcode), NEW st, TranslatedTo(s, n, c, st)
  PROVE  TranslatedTo(s, m, Append(c, op), st)
<1>1. /\ NonNegative(s, m) /\ Opened(s, m, st)
      /\ \A k \in 1 .. n : Unclosed(s, k, n) => Unclosed(s, k, m)
  BY FlatStep DEF TranslatedTo
<1>2. ASSUME NEW t \in DOMAIN c
      PROVE  \E k \in Starts(s) : k <= n /\ IndexOf(s, k) = t - 1 /\ Stands(s, m, k, c[t])
  <2>1. PICK k \in Starts(s) : k <= n /\ IndexOf(s, k) = t - 1 /\ Stands(s, n, k, c[t])
    BY DEF TranslatedTo, Written
  <2>2. k \in 1 .. n
    BY <2>1, StartsFinite
  <2>3. Stands(s, m, k, c[t])
    BY <1>1, <2>1, <2>2, StillStands
  <2>. QED BY <2>1, <2>3
<1>3. Len(c) = IndexOf(s, n + 1)
  BY DEF TranslatedTo, Written
<1>4. Written(s, m, Append(c, op))
  BY <1>2, <1>3, AppendWritten
<1>. QED BY <1>1, <1>4 DEF TranslatedTo

\* A run is one opcode with its length.
LEMMA RunTranslated ==
  ASSUME NEW s \in Seq(STRING), NEW n \in 0 .. (Len(s) - 1), s[n + 1] \in runs,
         NEW cnt \in 1 .. (Len(s) - n),
         \A k \in 1 .. cnt : s[n + k] = s[n + 1],
         n + cnt < Len(s) => s[n + cnt + 1] # s[n + 1],
         NEW c \in Seq(Opcode), NEW st, TranslatedTo(s, n, c, st),
         Op(OpFor[s[n + 1]], cnt) \in Opcode
  PROVE  TranslatedTo(s, n + cnt, Append(c, Op(OpFor[s[n + 1]], cnt)), st)
<1>. DEFINE m == n + cnt
<1>1. n \in Nat /\ m \in Nat /\ n < m /\ m <= Len(s) /\ Len(s) \in Nat /\ m - n = cnt
  OBVIOUS
<1>2. ASSUME NEW k \in (n + 1) .. m PROVE s[k] = s[n + 1]
  <2>1. k - n \in 1 .. cnt /\ n + (k - n) = k
    OBVIOUS
  <2>. QED BY <2>1
<1>3. m < Len(s) => s[m + 1] # s[n + 1]
  OBVIOUS
<1>. HIDE DEF m
<1>4. \A k \in (n + 1) .. m : s[k] \notin {"[", "]"} /\ s[k] \notin singles
  BY <1>2 DEF runs, singles
<1>5. n + 1 \in Starts(s)
  <2>1. n + 1 \in 1 .. Len(s) /\ (n + 1 > 1 => n > 0) /\ (n + 1) - 1 = n /\ n < Len(s)
    BY <1>1
  <2>2. n > 0 => s[n] # s[n + 1]
    <3>1. WholeRuns(s, n)
      BY DEF TranslatedTo
    <3>. QED BY ONLY <2>1, <3>1, s[n + 1] \in runs DEF WholeRuns
  <2>. QED BY <2>1, <2>2 DEF Starts
<1>6. ASSUME NEW k \in (n + 2) .. m PROVE k \notin Starts(s)
  <2>1. k \in (n + 1) .. m /\ k - 1 \in (n + 1) .. m /\ k > 1
    BY ONLY <1>1, k \in (n + 2) .. m
  <2>2. s[k] = s[k - 1]
    BY <1>2, <2>1
  <2>. QED BY <1>4, <2>1, <2>2 DEF Starts
<1>7. WholeRuns(s, m)
  <2>1. m \in (n + 1) .. m
    BY <1>1
  <2>2. s[m] = s[n + 1]
    BY <1>2, <2>1
  <2>. QED BY <1>3, <2>2 DEF WholeRuns
<1>8. RunLength(s, n + 1) = cnt
  <2>. DEFINE longer == {b \in (n + 1) .. Len(s) : \A j \in (n + 1) .. b : s[j] = s[n + 1]}
  <2>1. ASSUME NEW b \in (n + 1) .. m PROVE b \in longer
    <3>1. b \in (n + 1) .. Len(s) /\ \A j \in (n + 1) .. b : j \in (n + 1) .. m
      BY <1>1
    <3>. QED BY <1>2, <3>1
  <2>2. ASSUME NEW b \in longer PROVE b \in (n + 1) .. m
    <3>1. CASE b > m
      <4>1. m + 1 \in (n + 1) .. b /\ m < Len(s)
        BY <1>1, <3>1
      <4>. QED BY <1>3, <4>1
    <3>. QED BY <1>1, <3>1
  <2>3. longer = (n + 1) .. m
    BY <2>1, <2>2
  <2>. HIDE DEF longer
  <2>4. Cardinality((n + 1) .. m) = cnt
    <3>1. n + 1 \in Int /\ m \in Int /\ ~(n + 1 > m) /\ m - (n + 1) + 1 = cnt
      BY <1>1
    <3>. QED BY <3>1, FS_Interval
  <2>. QED BY <2>3, <2>4 DEF RunLength, longer
<1>9. Stands(s, m, n + 1, Op(OpFor[s[n + 1]], cnt))
  BY <1>8 DEF Stands
<1>10. TranslatedTo(s, m, Append(c, Op(OpFor[s[n + 1]], cnt)), st)
  BY <1>1, <1>4, <1>5, <1>6, <1>7, <1>9, PlainTranslated
<1>. QED BY <1>10 DEF m

LEMMA IOTranslated ==
  ASSUME NEW s \in Seq(STRING), NEW n \in 0 .. (Len(s) - 1), s[n + 1] \in ios,
         NEW c \in Seq(Opcode), NEW st, TranslatedTo(s, n, c, st),
         Op(OpFor[s[n + 1]], 0) \in Opcode
  PROVE  TranslatedTo(s, n + 1, Append(c, Op(OpFor[s[n + 1]], 0)), st)
<1>. DEFINE m == n + 1
<1>1. n \in Nat /\ m \in 1 .. Len(s) /\ m = n + 1
  OBVIOUS
<1>. HIDE DEF m
<1>2. m \in Nat /\ n < m /\ (\A k \in (n + 1) .. m : k = m) /\ \A k \in (n + 2) .. m : FALSE
  BY ONLY <1>1
<1>3. s[m] \in ios
  BY <1>1
<1>4. m \in Starts(s)
  BY <1>1, <1>3 DEF Starts, singles, ios
<1>5. WholeRuns(s, m)
  BY <1>2, <1>3 DEF WholeRuns, runs, ios
<1>6. Stands(s, m, m, Op(OpFor[s[m]], 0))
  BY <1>3 DEF Stands
<1>7. \A k \in (n + 1) .. m : s[k] \notin {"[", "]"}
  BY <1>2, <1>3 DEF ios
<1>. QED BY <1>1, <1>2, <1>4, <1>5, <1>6, <1>7, PlainTranslated

\* What is open stays open as long as the text does not come back below it.
LEMMA StaysOpen ==
  ASSUME NEW s, NEW n \in Nat, NEW k \in 1 .. n, Unclosed(s, k, n),
         Depth(s, n + 1) >= Depth(s, k)
  PROVE  Unclosed(s, k, n + 1)
<1>1. \A j \in k .. (n + 1) : j \in k .. n \/ j = n + 1
  OBVIOUS
<1>. QED BY <1>1 DEF Unclosed

\* An open '[' is not deeper than the text is now.
LEMMA OpenIsNotDeeper ==
  ASSUME NEW s, NEW n \in Nat, NEW k \in 1 .. n, Unclosed(s, k, n)
  PROVE  Depth(s, k) <= Depth(s, n)
<1>1. n \in k .. n
  OBVIOUS
<1>2. Depth(s, n) >= Depth(s, k)
  BY <1>1 DEF Unclosed
<1>. QED BY <1>2

LEMMA BracketBasics ==
  ASSUME NEW s \in Seq(STRING), NEW n \in 0 .. (Len(s) - 1), s[n + 1] \in {"[", "]"}
  PROVE  /\ n \in Nat /\ n + 1 \in Starts(s) /\ WholeRuns(s, n + 1)
         /\ Depth(s, n) \in Int
         /\ Depth(s, n + 1) = IF s[n + 1] = "[" THEN Depth(s, n) + 1 ELSE Depth(s, n) - 1
         /\ \A m \in 0 .. (n + 1) : m \in 0 .. n \/ m = n + 1
<1>1. n \in Nat /\ n + 1 \in 1 .. Len(s)
  OBVIOUS
<1>2. n + 1 \in Starts(s)
  BY <1>1 DEF Starts, singles
<1>3. WholeRuns(s, n + 1)
  BY DEF WholeRuns, runs
<1>4. \A m \in 0 .. (n + 1) : m \in 0 .. n \/ m = n + 1
  BY <1>1
<1>. QED BY <1>1, <1>2, <1>3, <1>4, DepthStep

\* A '[' is emitted without a target, and its index pushed.
LEMMA OpenTranslated ==
  ASSUME NEW s \in Seq(STRING), NEW n \in 0 .. (Len(s) - 1), s[n + 1] = "[",
         NEW c \in Seq(Opcode), NEW st \in Seq(Nat), TranslatedTo(s, n, c, st)
  PROVE  TranslatedTo(s, n + 1, Append(c, Op("op_jf", 0)), Append(st, Len(c)))
<1>. DEFINE op == Op("op_jf", 0)
            m  == n + 1
            su == Append(st, Len(c))
<1>1. /\ n \in Nat /\ m \in Starts(s) /\ WholeRuns(s, m)
      /\ Depth(s, n) \in Int /\ Depth(s, m) = Depth(s, n) + 1
      /\ \A j \in 0 .. m : j \in 0 .. n \/ j = m
  BY BracketBasics
<1>2. m \in Nat /\ m = n + 1 /\ n < m /\ (\A k \in (n + 2) .. m : FALSE) /\ n \in 0 .. n
  BY <1>1
<1>3. op \in Opcode
  BY DEF Op, Opcode, OpType
<1>4. /\ Len(c) \in Nat /\ Len(st) \in Nat /\ DOMAIN su = 1 .. (Len(st) + 1)
      /\ Len(su) = Len(st) + 1 /\ su[Len(st) + 1] = Len(c)
      /\ \A d \in 1 .. Len(st) : su[d] = st[d] /\ d \in DOMAIN st
  OBVIOUS
<1>5. s[m] = "["
  OBVIOUS
<1>. HIDE DEF m, op, su
<1>6. Len(st) = Depth(s, n) /\ Len(c) = IndexOf(s, m)
  BY <1>2 DEF TranslatedTo, Opened, Written
<1>7. NonNegative(s, m)
  BY <1>1, <1>2 DEF TranslatedTo, NonNegative
<1>8. ASSUME NEW k \in 1 .. n, Unclosed(s, k, n) PROVE Unclosed(s, k, m)
  <2>1. Depth(s, k) <= Depth(s, n) /\ Depth(s, k) \in Int
    BY <1>1, <1>8, OpenIsNotDeeper, DepthIsInt
  <2>. QED BY <1>1, <1>2, <1>8, <2>1, StaysOpen
<1>9. Unclosed(s, m, m)
  <2>1. \A j \in m .. m : j = m
    BY <1>2
  <2>2. Depth(s, m) \in Int
    BY <1>1
  <2>. QED BY <1>5, <2>1, <2>2 DEF Unclosed
<1>10. ASSUME NEW t \in DOMAIN c
       PROVE  \E k \in Starts(s) : k <= n /\ IndexOf(s, k) = t - 1 /\ Stands(s, m, k, c[t])
  <2>1. PICK k \in Starts(s) : k <= n /\ IndexOf(s, k) = t - 1 /\ Stands(s, n, k, c[t])
    BY DEF TranslatedTo, Written
  <2>2. k \in 1 .. n
    <3>1. k \in 1 .. Len(s)
      BY <2>1, StartsFinite
    <3>. QED BY <1>1, <2>1, <3>1
  <2>3. Stands(s, m, k, c[t])
    BY <1>1, <1>2, <1>8, <2>1, <2>2, StillStands
  <2>. QED BY <2>1, <2>3
<1>11. Stands(s, m, m, op)
  BY <1>5, <1>9 DEF Stands, op
<1>12. Written(s, m, Append(c, op))
  BY <1>1, <1>2, <1>3, <1>6, <1>10, <1>11, AppendWritten
<1>13. ASSUME NEW d \in DOMAIN su
       PROVE  \E k \in 1 .. m : Unclosed(s, k, m) /\ Depth(s, k) = d /\ su[d] = IndexOf(s, k)
  <2>1. CASE d = Len(st) + 1
    <3>1. m \in 1 .. m
      BY <1>1, <1>2
    <3>. QED BY <1>1, <1>4, <1>6, <1>9, <2>1, <3>1
  <2>2. CASE d \in 1 .. Len(st)
    <3>1. PICK k \in 1 .. n : Unclosed(s, k, n) /\ Depth(s, k) = d /\ st[d] = IndexOf(s, k)
      BY <1>4, <2>2 DEF TranslatedTo, Opened
    <3>2. k \in 1 .. m
      BY <1>1, <1>2
    <3>. QED BY <1>4, <1>8, <2>2, <3>1, <3>2
  <2>. QED BY <1>4, <2>1, <2>2
<1>14. Opened(s, m, su)
  BY <1>1, <1>4, <1>6, <1>13 DEF Opened
<1>15. TranslatedTo(s, m, Append(c, op), su)
  BY <1>1, <1>7, <1>12, <1>14 DEF TranslatedTo
<1>. QED BY <1>15 DEF m, op, su

LEMMA PoppedFields ==
  ASSUME NEW st \in Seq(Nat), NEW l, l = Len(st), l # 0, NEW su, su = SubSeq(st, 1, l - 1)
  PROVE  /\ l \in Nat \ {0} /\ l \in DOMAIN st /\ st[l] \in Nat
         /\ DOMAIN su = 1 .. (l - 1) /\ Len(su) = l - 1
         /\ \A d \in 1 .. (l - 1) : su[d] = st[d] /\ d \in DOMAIN st
OBVIOUS

\* A ']' gives the innermost open '[' its target, and its index is popped.
LEMMA CloseTranslated ==
  ASSUME NEW s \in Seq(STRING), NEW n \in 0 .. (Len(s) - 1), s[n + 1] = "]",
         NEW c \in Seq(Opcode), NEW st \in Seq(Nat), Len(st) # 0, TranslatedTo(s, n, c, st),
         NEW j, j = st[Len(st)] + 1,
         NEW e, e = [c EXCEPT ![j] = Op("op_jf", Len(c) + 1)]
  PROVE  TranslatedTo(s, n + 1, Append(e, Op("op_jt", j - 1)), SubSeq(st, 1, Len(st) - 1))
<1>. DEFINE op == Op("op_jt", j - 1)
            m  == n + 1
            l  == Len(st)
            su == SubSeq(st, 1, l - 1)
<1>1. /\ n \in Nat /\ m \in Starts(s) /\ WholeRuns(s, m)
      /\ Depth(s, n) \in Int /\ Depth(s, m) = Depth(s, n) - 1
      /\ \A k \in 0 .. m : k \in 0 .. n \/ k = m
  BY BracketBasics
<1>2. m \in Nat /\ m = n + 1 /\ n < m /\ (\A k \in (n + 2) .. m : FALSE) /\ m <= Len(s)
  BY <1>1
<1>3. /\ l \in Nat \ {0} /\ l \in DOMAIN st /\ st[l] \in Nat
      /\ DOMAIN su = 1 .. (l - 1) /\ Len(su) = l - 1
      /\ \A d \in 1 .. (l - 1) : su[d] = st[d] /\ d \in DOMAIN st
  BY PoppedFields
<1>4. s[m] = "]" /\ Len(c) \in Nat
  OBVIOUS
<1>5. j = st[l] + 1
  OBVIOUS
<1>. HIDE DEF m, l, su
<1>6. l = Depth(s, n) /\ Len(c) = IndexOf(s, m)
  BY <1>2 DEF TranslatedTo, Opened, Written, l
<1>7. PICK x \in 1 .. n : Unclosed(s, x, n) /\ Depth(s, x) = l /\ st[l] = IndexOf(s, x)
  BY <1>3 DEF TranslatedTo, Opened
<1>8. Closes(s, x, m)
  <2>1. m \in (x + 1) .. Len(s) /\ m - 1 = n
    BY <1>1, <1>2
  <2>. QED BY <1>1, <1>4, <1>6, <1>7, <2>1 DEF Closes, Unclosed
<1>9. x \in Starts(s) /\ x < m /\ x \in 1 .. (m - 1) /\ m \in (x + 1) .. m
  <2>1. x \in 1 .. Len(s) /\ x < m /\ x \in 1 .. (m - 1) /\ m \in (x + 1) .. m
    BY <1>1, <1>2
  <2>. QED BY <1>7, <2>1 DEF Starts, singles, Unclosed
<1>10. j = IndexOf(s, x) + 1 /\ j \in DOMAIN c /\ j \in Nat
  <2>1. IndexOf(s, x) < IndexOf(s, m)
    BY <1>2, <1>9, IndexIsMonotone
  <2>2. j = IndexOf(s, x) + 1 /\ IndexOf(s, x) \in Nat /\ IndexOf(s, x) < Len(c)
    BY ONLY <1>3, <1>5, <1>6, <1>7, <2>1
  <2>3. j \in Nat /\ j \in 1 .. Len(c)
    BY ONLY <1>4, <2>2
  <2>4. DOMAIN c = 1 .. Len(c)
    OBVIOUS
  <2>. QED BY ONLY <2>2, <2>3, <2>4
<1>11. /\ e \in Seq(Opcode) /\ Len(e) = Len(c) /\ DOMAIN e = DOMAIN c
       /\ e[j] = Op("op_jf", IndexOf(s, m) + 1)
       /\ \A t \in DOMAIN c : t # j => e[t] = c[t]
  <2>1. Op("op_jf", Len(c) + 1) \in Opcode
    BY <1>4 DEF Op, Opcode, OpType
  <2>2. /\ e \in Seq(Opcode) /\ Len(e) = Len(c)
        /\ \A k \in DOMAIN c : e[k] = IF k = j THEN Op("op_jf", Len(c) + 1) ELSE c[k]
    BY <1>10, <2>1, ReplacedFields
  <2>3. DOMAIN e = DOMAIN c
    OBVIOUS
  <2>. QED BY <1>6, <1>10, <2>2, <2>3
<1>12. op \in Opcode
  <2>1. j - 1 \in Nat
    BY ONLY <1>3, <1>5
  <2>. QED BY ONLY <2>1 DEF op, Op, Opcode, OpType
<1>13. Stands(s, m, m, op)
  <2>1. j - 1 = IndexOf(s, x)
    BY ONLY <1>3, <1>5, <1>7
  <2>2. op = Op("op_jt", IndexOf(s, x))
    BY ONLY <2>1 DEF op
  <2>. HIDE DEF op
  <2>. QED BY <1>4, <1>7, <1>8, <1>9, <2>2 DEF Stands, Unclosed
<1>. HIDE DEF op
<1>14. ASSUME NEW k \in 1 .. n, k # x, Unclosed(s, k, n) PROVE Unclosed(s, k, m)
  <2>1. Depth(s, k) <= Depth(s, n) /\ Depth(s, k) \in Int
    BY <1>1, <1>14, OpenIsNotDeeper, DepthIsInt
  <2>2. Depth(s, k) # Depth(s, n)
    BY <1>1, <1>6, <1>7, <1>14, OneOpenPerDepth
  <2>. QED BY <1>1, <1>2, <1>14, <2>1, <2>2, StaysOpen
<1>15. ASSUME NEW t \in DOMAIN e
       PROVE  \E k \in Starts(s) : k <= n /\ IndexOf(s, k) = t - 1 /\ Stands(s, m, k, e[t])
  <2>1. PICK k \in Starts(s) : k <= n /\ IndexOf(s, k) = t - 1 /\ Stands(s, n, k, c[t])
    BY <1>11 DEF TranslatedTo, Written
  <2>2. k \in 1 .. n
    <3>1. k \in 1 .. Len(s)
      BY <2>1, StartsFinite
    <3>. QED BY <1>1, <2>1, <3>1
  <2>3. CASE t = j
    <3>1. IndexOf(s, k) = IndexOf(s, x)
      <4>1. IndexOf(s, x) \in Nat
        BY IndexIsNat
      <4>. QED BY <1>10, <2>1, <2>3, <4>1
    <3>2. k = x
      BY <1>9, <3>1, IndexIsInjective
    <3>3. Stands(s, m, x, e[j])
      BY <1>7, <1>8, <1>9, <1>11 DEF Stands, Unclosed
    <3>. QED BY <2>1, <2>3, <3>2, <3>3
  <2>4. CASE t # j
    <3>1. k # x
      <4>1. IndexOf(s, x) \in Nat
        BY IndexIsNat
      <4>2. t \in 1 .. Len(c)
        BY <1>11
      <4>3. t \in Int
        BY <1>4, <4>2
      <4>. QED BY ONLY <1>10, <2>1, <2>4, <4>1, <4>3
    <3>2. Stands(s, m, k, e[t])
      <4>1. e[t] = c[t] /\ n <= m
        BY <1>1, <1>2, <1>11, <2>4
      <4>2. Unclosed(s, k, n) => Unclosed(s, k, m)
        BY <1>14, <2>2, <3>1
      <4>3. Stands(s, m, k, c[t])
        BY <1>1, <1>2, <2>1, <2>2, <4>1, <4>2, StillStands
      <4>. QED BY <4>1, <4>3
    <3>. QED BY <2>1, <3>2
  <2>. QED BY <2>3, <2>4
<1>16. Written(s, m, Append(e, op))
  BY <1>1, <1>2, <1>6, <1>11, <1>12, <1>13, <1>15, AppendWritten
<1>17. ASSUME NEW d \in DOMAIN su
       PROVE  \E k \in 1 .. m : Unclosed(s, k, m) /\ Depth(s, k) = d /\ su[d] = IndexOf(s, k)
  <2>1. d \in DOMAIN st /\ su[d] = st[d] /\ d # l
    BY <1>3
  <2>2. PICK k \in 1 .. n : Unclosed(s, k, n) /\ Depth(s, k) = d /\ st[d] = IndexOf(s, k)
    BY <2>1 DEF TranslatedTo, Opened
  <2>3. k # x /\ k \in 1 .. m
    BY <1>1, <1>2, <1>7, <2>1, <2>2
  <2>. QED BY <1>14, <2>1, <2>2, <2>3
<1>18. Opened(s, m, su)
  BY <1>1, <1>3, <1>6, <1>17 DEF Opened
<1>19. NonNegative(s, m)
  BY <1>1, <1>3, <1>6 DEF TranslatedTo, NonNegative
<1>20. TranslatedTo(s, m, Append(e, op), su)
  BY <1>1, <1>16, <1>18, <1>19 DEF TranslatedTo
<1>. QED BY <1>20 DEF m, op, su, l

\* With nothing open a ']' is refused, and the text is no program.
LEMMA ExtraCloseIsNoProgram ==
  ASSUME NEW s \in Seq(STRING), NEW n \in 0 .. (Len(s) - 1), s[n + 1] = "]",
         NEW c, NEW st, Len(st) = 0, TranslatedTo(s, n, c, st)
  PROVE  ~NeverNegative(s) /\ ~IsProgram(s)
<1>1. Depth(s, n + 1) = Depth(s, n) - 1
  BY BracketBasics
<1>2. n + 1 \in 1 .. Len(s) /\ Depth(s, n) = 0
  BY DEF TranslatedTo, Opened
<1>3. ~(Depth(s, n + 1) >= 0)
  BY <1>1, <1>2
<1>. QED BY <1>2, <1>3 DEF NeverNegative, IsProgram

\* A text that ends with something open is no program either, but not for
\* want of a '['.
LEMMA MissingCloseIsNoProgram ==
  ASSUME NEW s \in Seq(STRING), NEW c, NEW st, Len(st) # 0, TranslatedTo(s, Len(s), c, st)
  PROVE  NeverNegative(s) /\ ~IsProgram(s)
<1>1. Len(st) = Depth(s, Len(s))
  BY DEF TranslatedTo, Opened
<1>2. \A n \in 1 .. Len(s) : n \in 0 .. Len(s)
  OBVIOUS
<1>3. NeverNegative(s)
  BY <1>2 DEF TranslatedTo, NonNegative, NeverNegative
<1>. QED BY <1>1, <1>3 DEF IsProgram

\* And one that ends with nothing open is, and the vector its translation.
LEMMA EndTranslated ==
  ASSUME NEW s \in Seq(STRING), NEW c \in Seq(Opcode), NEW st, Len(st) = 0,
         TranslatedTo(s, Len(s), c, st)
  PROVE  IsProgram(s) /\ c = Translate(s)
<1>. DEFINE n == Len(s)
<1>1. n \in Nat /\ Depth(s, n) = 0 /\ n + 1 \in Nat
  BY DEF TranslatedTo, Opened
<1>2. IsProgram(s)
  <2>1. \A k \in 1 .. n : k \in 0 .. n
    OBVIOUS
  <2>. QED BY <1>1, <2>1 DEF TranslatedTo, NonNegative, NeverNegative, IsProgram
<1>3. ASSUME NEW k \in 1 .. n PROVE ~Unclosed(s, k, n)
  <2>1. k - 1 \in 0 .. n /\ k \in Nat \ {0} /\ n \in k .. n
    BY <1>1
  <2>2. Depth(s, k - 1) >= 0
    BY <2>1 DEF TranslatedTo, NonNegative
  <2>3. s[k] = "[" => Depth(s, k) = Depth(s, k - 1) + 1 /\ Depth(s, k - 1) \in Int
    BY <2>1, OpenRaises
  <2>. QED BY <1>1, <2>1, <2>2, <2>3 DEF Unclosed
<1>4. /\ Len(c) = Cardinality(Starts(s))
      /\ \A t \in DOMAIN c :
           \E k \in Starts(s) : k <= n /\ IndexOf(s, k) = t - 1 /\ Stands(s, n, k, c[t])
  BY IndexStep DEF TranslatedTo, Written
<1>. HIDE DEF n
<1>5. ASSUME NEW k \in Starts(s) PROVE k \in 1 .. n /\ Stands(s, n, k, c[IndexOf(s, k) + 1])
  <2>. DEFINE t == IndexOf(s, k) + 1
  <2>1. k \in 1 .. n /\ k < n + 1
    <3>1. k \in 1 .. n
      BY StartsFinite DEF n
    <3>. QED BY <1>1, <3>1
  <2>2. t \in DOMAIN c /\ t - 1 = IndexOf(s, k)
    <3>1. IndexOf(s, k) < IndexOf(s, n + 1) /\ IndexOf(s, k) \in Nat
      BY <1>1, <2>1, IndexIsMonotone, IndexIsNat
    <3>2. Len(c) = IndexOf(s, n + 1) /\ DOMAIN c = 1 .. Len(c) /\ Len(c) \in Nat
      BY DEF TranslatedTo, Written, n
    <3>. QED BY <3>1, <3>2
  <2>. HIDE DEF t
  <2>3. PICK m \in Starts(s) : IndexOf(s, m) = t - 1 /\ Stands(s, n, m, c[t])
    BY <1>4, <2>2
  <2>4. m = k
    BY <2>2, <2>3, IndexIsInjective
  <2>. QED BY <2>1, <2>3, <2>4 DEF t
<1>6. \A k \in 1 .. Len(s) : s[k] = "[" => \E m : Closes(s, k, m)
  <2>1. ASSUME NEW k \in 1 .. Len(s), s[k] = "[" PROVE \E m : Closes(s, k, m)
    <3>1. k \in Starts(s)
      BY <2>1 DEF Starts, singles
    <3>. QED BY <1>3, <1>5, <2>1, <3>1 DEF Stands, ios, runs
  <2>. QED BY <2>1
<1>7. ASSUME NEW k \in Starts(s), NEW op, Stands(s, n, k, op) PROVE op = OpcodeAt(s, k)
  <2>1. k \in 1 .. n /\ k \in Nat /\ ~Unclosed(s, k, n)
    BY <1>3, <1>5
  <2>2. CASE s[k] = "["
    <3>1. PICK m : Closes(s, k, m) /\ op = Op("op_jf", IndexOf(s, m) + 1)
      BY <1>7, <2>1, <2>2 DEF Stands, ios, runs
    <3>. QED BY <2>1, <2>2, <3>1, CloserIs DEF OpcodeAt
  <2>3. CASE s[k] = "]"
    <3>1. PICK o \in 1 .. (k - 1) :
            s[o] = "[" /\ Closes(s, o, k) /\ op = Op("op_jt", IndexOf(s, o))
      BY <1>7, <2>3 DEF Stands, ios, runs
    <3>2. Opener(s, k) = o
      BY <1>6, <2>1, <3>1, OpenerIs DEF n
    <3>. QED BY <2>3, <3>1, <3>2 DEF OpcodeAt
  <2>4. CASE s[k] \in ios
    BY <1>7, <2>4 DEF Stands, ios, runs, OpcodeAt
  <2>5. CASE s[k] \in runs
    BY <1>7, <2>5 DEF Stands, ios, runs, OpcodeAt
  <2>. QED BY <1>7, <2>2, <2>3, <2>4, <2>5 DEF Stands
<1>8. ASSUME NEW t \in DOMAIN c
      PROVE  c[t] = OpcodeAt(s, CHOOSE k \in Starts(s) : IndexOf(s, k) = t - 1)
  <2>1. PICK k \in Starts(s) : IndexOf(s, k) = t - 1 /\ Stands(s, n, k, c[t])
    BY <1>4
  <2>2. (CHOOSE m \in Starts(s) : IndexOf(s, m) = t - 1) = k
    BY <2>1, IndexIsInjective
  <2>. QED BY <1>7, <2>1, <2>2
<1>9. c = [t \in 1 .. Len(c) |-> c[t]] /\ DOMAIN c = 1 .. Len(c)
  OBVIOUS
<1>10. c = Translate(s)
  BY <1>4, <1>8, <1>9 DEF Translate
<1>. QED BY <1>2, <1>10

-----------------------------------------------------------------------------
(* The states.                                                             *)

\* The two copies of the reference definitions are one.
LEMMA ReferenceIsTexts ==
  ASSUME NEW s
  PROVE  /\ Reference!NeverNegative(s) <=> NeverNegative(s)
         /\ Reference!IsProgram(s) <=> IsProgram(s)
         /\ Reference!Translate(s) = Translate(s)
<1>1. Reference!NeverNegative(s) <=> NeverNegative(s)
  BY DEF Reference!NeverNegative, Reference!Depth, Reference!Count, Reference!Cardinality,
         NeverNegative, Depth, Count, Cardinality
<1>2. Reference!IsProgram(s) <=> IsProgram(s)
  BY <1>1 DEF Reference!IsProgram, Reference!Depth, Reference!Count, Reference!Cardinality,
              IsProgram, Depth, Count, Cardinality
<1>3. Reference!Translate(s) = Translate(s)
  BY DEF Reference!Translate, Reference!OpcodeAt, Reference!Opener, Reference!Closer,
         Reference!RunLength, Reference!IndexOf, Reference!Starts, Reference!Depth,
         Reference!Count, Reference!Cardinality, Reference!OpFor, Reference!Op, Reference!runs, Reference!singles,
         Translate, OpcodeAt, Opener, Closer, RunLength, IndexOf, Starts, Depth, Count,
         Cardinality, OpFor, Op, runs, singles
<1>. QED BY <1>1, <1>2, <1>3

LEMMA OpForIsOpOf ==
  ASSUME NEW ch \in runs \cup ios
  PROVE  OpFor[ch] = OpOf(ch)
BY DEF OpFor, OpOf, runs, ios

\* What scanner() has done so far, and what it returns.
Translated ==
  /\ status = "scanning" => TranslatedTo(src, i, code.data, stk.data)
  /\ status = "ok" => IsProgram(src) /\ out.data = Translate(src)
  /\ status \in {"unmatched_close", "unmatched_open"} => ~IsProgram(src)

LEMMA NothingTranslated ==
  ASSUME NEW s \in Seq(STRING)
  PROVE  TranslatedTo(s, 0, << >>, << >>)
<1>1. Depth(s, 0) = 0 /\ IndexOf(s, 0 + 1) = 0
  <2>1. Depth(s, 0) = 0
    BY DepthStep
  <2>2. IndexOf(s, 1) = 0
    BY IndexStep
  <2>. QED BY <2>1, <2>2
<1>2. NonNegative(s, 0)
  BY <1>1 DEF NonNegative
<1>3. Written(s, 0, << >>) /\ Opened(s, 0, << >>)
  BY <1>1 DEF Written, Opened
<1>4. WholeRuns(s, 0)
  BY DEF WholeRuns
<1>. QED BY <1>2, <1>3, <1>4 DEF TranslatedTo

LEMMA InitTranslated ==
  ASSUME Init
  PROVE  Translated /\ Reference!Init
<1>1. src \in Seq(STRING) /\ i = 0 /\ code.data = << >> /\ stk.data = << >> /\ out.data = << >>
      /\ status = "scanning"
  BY SourcesAssumption, FreedType DEF Init
<1>. QED BY <1>1, NothingTranslated DEF Translated, Init, Reference!Init

\* A step that fails looks like a refusal, or like running out of memory.
LEMMA FailIsPromised ==
  ASSUME status = "scanning", NEW reason \in Failures, Fail(reason),
         reason = "oom" \/ /\ ~IsProgram(src)
                           /\ reason = IF NeverNegative(src)
                                       THEN "unmatched_open" ELSE "unmatched_close"
  PROVE  Translated' /\ Reference!Next
BY ReferenceIsTexts
DEF Fail, Failures, Translated, Reference!Next, Reference!Reject, Reference!RunOutOfMemory

\* Emitting op after vector, which may have been patched, when that leaves
\* the vector and the stack as they should be.
LEMMA EmitIsPromised ==
  ASSUME status = "scanning", NEW vector \in ArrayOf(Opcode), NEW s, NEW op \in Opcode,
         Emit(vector, s, op),
         TranslatedTo(src, i', Append(vector.data, op), s.data)
  PROVE  Translated' /\ (Reference!Next \/ UNCHANGED <<src, out.data, status>>)
<1>1. CASE Fail("oom")
  BY <1>1, FailIsPromised DEF Failures
<1>2. CASE ~Fail("oom")
  <2>1. code' = Pushed(vector, op) /\ stk' = s /\ UNCHANGED <<src, out, status>>
    BY <1>2 DEF Emit
  <2>2. code'.data = Append(vector.data, op)
    BY <2>1, PushedType
  <2>. QED BY <2>1, <2>2 DEF Translated
<1>. QED BY <1>1, <1>2

LEMMA NextTranslated ==
  ASSUME IInv, Translated, Next
  PROVE  Translated' /\ (Reference!Next \/ UNCHANGED <<src, out.data, status>>)
<1>1. /\ src \in Seq(STRING) /\ Len(src) \in Nat /\ i \in 0 .. Len(src)
      /\ code \in ArrayOf(Opcode) /\ code.data \in Seq(Opcode)
      /\ stk \in ArrayOf(Nat) /\ stk.data \in Seq(Nat) /\ Len(stk.data) \in Nat
      /\ IsEmpty(stk) <=> Len(stk.data) = 0
  BY DEF IInv, TypeOK, ArrayOf, IsEmpty
<1>2. status = "scanning" /\ TranslatedTo(src, i, code.data, stk.data)
  BY DEF Next, SkipComment, ScanRun, ScanIO, ScanOpen, ScanClose, Finish, Reading, Translated
<1>3. Reading => i \in 0 .. (Len(src) - 1)
  BY <1>1 DEF Reading
<1>4. CASE SkipComment
  <2>1. Cmd \notin runs \cup singles /\ i' = i + 1 /\ UNCHANGED <<src, code, stk, out, status>>
    BY <1>4 DEF SkipComment, Commands, RunCommands, SingleCommands, runs, singles
  <2>2. TranslatedTo(src, i + 1, code.data, stk.data)
    BY <1>1, <1>2, <1>3, <1>4, <2>1, CommentTranslated DEF SkipComment, Cmd
  <2>. QED BY <1>2, <2>1, <2>2 DEF Translated
<1>5. CASE ScanRun
  <2>1. PICK cnt \in 1 .. (Len(src) - i) :
          IsRun(cnt) /\ i' = i + cnt /\ Emit(code, stk, Op(OpOf(Cmd), cnt))
    BY <1>5 DEF ScanRun
  <2>2. Cmd \in runs /\ OpFor[Cmd] = OpOf(Cmd) /\ OpOf(Cmd) \in OpType
    <3>1. Cmd \in runs /\ Cmd \in RunCommands
      BY <1>5 DEF ScanRun, RunCommands, runs
    <3>. QED BY <3>1, OpForIsOpOf, OpOfType
  <2>3. Op(OpOf(Cmd), cnt) \in Opcode
    <3>1. cnt \in Nat
      BY <1>1
    <3>. QED BY <2>2, <3>1 DEF Op, Opcode
  <2>4. i \in 0 .. (Len(src) - 1)
    BY <1>3, <1>5 DEF ScanRun
  <2>5. TranslatedTo(src, i + cnt, Append(code.data, Op(OpOf(Cmd), cnt)), stk.data)
    BY <1>1, <1>2, <2>1, <2>2, <2>3, <2>4, RunTranslated DEF IsRun, Cmd
  <2>. QED BY <1>1, <1>2, <2>1, <2>3, <2>5, EmitIsPromised
<1>6. CASE ScanIO
  <2>1. Cmd \in ios /\ OpFor[Cmd] = OpOf(Cmd) /\ OpOf(Cmd) \in OpType
    <3>1. Cmd \in ios /\ Cmd \in RunCommands \cup {",", "."}
      BY <1>6 DEF ScanIO, ios
    <3>. QED BY <3>1, OpForIsOpOf, OpOfType
  <2>2. Op(OpOf(Cmd), 0) \in Opcode
    BY <2>1 DEF Op, Opcode
  <2>3. i \in 0 .. (Len(src) - 1) /\ i' = i + 1 /\ Emit(code, stk, Op(OpOf(Cmd), 0))
    BY <1>3, <1>6 DEF ScanIO
  <2>4. TranslatedTo(src, i + 1, Append(code.data, Op(OpOf(Cmd), 0)), stk.data)
    BY <1>1, <1>2, <2>1, <2>2, <2>3, IOTranslated DEF Cmd
  <2>. QED BY <1>1, <1>2, <2>2, <2>3, <2>4, EmitIsPromised
<1>7. CASE ScanOpen
  <2>. DEFINE op == Op("op_jf", 0)
              st == Pushed(stk, Len(code.data))
  <2>1. i \in 0 .. (Len(src) - 1) /\ i' = i + 1 /\ src[i + 1] = "["
        /\ (Emit(code, st, op) \/ Fail("oom"))
    BY <1>3, <1>7 DEF ScanOpen, Cmd
  <2>2. op \in Opcode
    BY DEF Op, Opcode, OpType
  <2>3. st.data = Append(stk.data, Len(code.data))
    BY <1>1, PushedType
  <2>4. TranslatedTo(src, i + 1, Append(code.data, op), st.data)
    BY <1>1, <1>2, <2>1, <2>3, OpenTranslated
  <2>. HIDE DEF op, st
  <2>5. CASE Emit(code, st, op)
    BY <1>1, <1>2, <2>1, <2>2, <2>4, <2>5, EmitIsPromised
  <2>6. CASE Fail("oom")
    BY <1>2, <2>6, FailIsPromised DEF Failures
  <2>. QED BY <2>1, <2>5, <2>6
<1>8. CASE ScanClose
  <2>1. i \in 0 .. (Len(src) - 1) /\ i' = i + 1 /\ src[i + 1] = "]"
    BY <1>3, <1>8 DEF ScanClose, Cmd
  <2>2. CASE IsEmpty(stk)
    <3>1. Fail("unmatched_close")
      BY <1>8, <2>2 DEF ScanClose
    <3>2. ~NeverNegative(src) /\ ~IsProgram(src)
      BY <1>1, <1>2, <2>1, <2>2, ExtraCloseIsNoProgram
    <3>. QED BY <1>2, <3>1, <3>2, FailIsPromised DEF Failures
  <2>3. CASE ~IsEmpty(stk)
    <3>. DEFINE c  == code.data
                j  == Top(stk) + 1
                e  == [c EXCEPT ![j] = Op("op_jf", Len(c) + 1)]
                op == Op("op_jt", j - 1)
                w  == [code EXCEPT !.data[j].num = Len(c) + 1]
    <3>1. Top(stk) \in Nat /\ Top(stk) = stk.data[Len(stk.data)]
          /\ Popped(stk).data = SubSeq(stk.data, 1, Len(stk.data) - 1)
      BY <1>1, <2>3, PoppedType DEF Top
    <3>2. Emit(w, Popped(stk), op)
      <4>1. j - 1 = Top(stk)
        BY <3>1
      <4>. QED BY <1>8, <2>3, <4>1 DEF ScanClose, Close
    <3>3. j \in DOMAIN c /\ c[j] = Op("op_jf", 0) /\ Len(c) + 1 \in Nat /\ j - 1 \in Nat
      <4>1. j \in Open(c)
        BY <1>1, <2>3, <3>1, PopKeepsStacked DEF IInv
      <4>2. j \in DOMAIN c /\ c[j] = Op("op_jf", 0)
        BY <4>1 DEF Open
      <4>3. Len(c) + 1 \in Nat
        BY <1>1
      <4>4. j - 1 \in Nat
        BY <3>1
      <4>. QED BY <4>2, <4>3, <4>4
    <3>4. op \in Opcode
      BY <3>3 DEF Op, Opcode, OpType
    <3>5. w \in ArrayOf(Opcode) /\ w.data = e
      <4>1. w = [code EXCEPT !.data = e]
        <5>1. [c[j] EXCEPT !.num = Len(c) + 1] = Op("op_jf", Len(c) + 1)
          BY <3>3 DEF Op
        <5>. QED BY <5>1
      <4>2. Op("op_jf", Len(c) + 1) \in Opcode /\ c \in Seq(Opcode)
        BY <1>1, <3>3 DEF Op, Opcode, OpType
      <4>. HIDE DEF w, j
      <4>3. e \in Seq(Opcode)
        BY <3>3, <4>2, ReplacedFields
      <4>. HIDE DEF e
      <4>. QED BY <1>1, <4>1, <4>3 DEF ArrayOf
    <3>6. TranslatedTo(src, i + 1, Append(e, op), Popped(stk).data)
      <4>1. j = stk.data[Len(stk.data)] + 1 /\ Len(stk.data) # 0
        BY <1>1, <2>3, <3>1
      <4>2. c \in Seq(Opcode) /\ TranslatedTo(src, i, c, stk.data)
        BY <1>1, <1>2
      <4>. HIDE DEF c, j
      <4>. QED BY <1>1, <2>1, <3>1, <4>1, <4>2, CloseTranslated
    <3>. HIDE DEF w, e, op
    <3>. QED BY <1>2, <2>1, <3>2, <3>4, <3>5, <3>6, EmitIsPromised
  <2>. QED BY <2>2, <2>3
<1>9. CASE Finish
  <2>1. i = Len(src)
    BY <1>1, <1>9 DEF Finish
  <2>2. CASE ~IsEmpty(stk)
    <3>1. Fail("unmatched_open")
      BY <1>9, <2>2 DEF Finish
    <3>2. NeverNegative(src) /\ ~IsProgram(src)
      BY <1>1, <1>2, <2>1, <2>2, MissingCloseIsNoProgram
    <3>. QED BY <1>2, <3>1, <3>2, FailIsPromised DEF Failures
  <2>3. CASE IsEmpty(stk)
    <3>1. out' = code /\ status' = "ok" /\ src' = src
      BY <1>9, <2>3 DEF Finish, HandOver
    <3>2. IsProgram(src) /\ code.data = Translate(src)
      BY <1>1, <1>2, <2>1, <2>3, EndTranslated
    <3>3. Translated'
      BY <3>1, <3>2 DEF Translated
    <3>4. Reference!Next
      BY <1>2, <3>1, <3>2, ReferenceIsTexts DEF Reference!Next, Reference!Accept
    <3>. QED BY <3>3, <3>4
  <2>. QED BY <2>2, <2>3
<1>. QED BY <1>4, <1>5, <1>6, <1>7, <1>8, <1>9 DEF Next

LEMMA TranslatedInv ==
  ASSUME IInv, Translated, [Next]_vars
  PROVE  Translated' /\ [Reference!Next]_<<src, out.data, status>>
<1>1. CASE Next
  BY <1>1, NextTranslated
<1>2. CASE UNCHANGED vars
  BY <1>2 DEF vars, Translated
<1>. QED BY <1>1, <1>2

(***************************************************************************)
(* For every text, scanner() does what Translation says in one step: what  *)
(* it returns is the translation of the text, every text that is no        *)
(* program is refused, and for the right reason, and no program is         *)
(* refused but for want of memory.                                         *)
(***************************************************************************)
THEOREM Implementation == Spec => ImplementsTranslation
<1>1. IInv /\ Translated /\ [Next]_vars
        => Translated' /\ [Reference!Next]_<<src, out.data, status>>
  BY TranslatedInv
<1>2. Init => Translated /\ Reference!Init
  BY InitTranslated
<1>. QED BY InitIInv, NextIInv, <1>1, <1>2, PTL DEF Spec, ImplementsTranslation, Reference!Spec
=============================================================================
