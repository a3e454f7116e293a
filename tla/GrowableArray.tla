---------------------------- MODULE GrowableArray ----------------------------
(***************************************************************************)
(* The growable arrays of src/util.c.  OpcodeVector, SizeTStack,           *)
(* LambdaStack and CallStack are four copies of the same code at four      *)
(* element types; one set of operators stands for all of them.             *)
(*                                                                         *)
(* An array is [data, capacity]: data is the sequence of its elements      *)
(* (its C field "size" is Len(data)), capacity the number of elements      *)
(* allocated.  capacity = 0 exactly when the C pointer is NULL.            *)
(***************************************************************************)
EXTENDS Integers, Sequences

CONSTANT InitialCapacity    \* elements allocated by the first push: 8 in the code

ASSUME InitialCapacityAssumption == InitialCapacity \in Nat \ {0}

ArrayOf(S) == [data : Seq(S), capacity : Nat]

\* *_init and *_free leave the same state: no allocation, no element.
Freed == [data |-> << >>, capacity |-> 0]

\* The push must call realloc first.
MustGrow(v) == Len(v.data) >= v.capacity

NewCapacity(v) == IF v.capacity = 0 THEN InitialCapacity ELSE v.capacity * 2

\* A push that succeeds.
Pushed(v, x) ==
  [data     |-> Append(v.data, x),
   capacity |-> IF MustGrow(v) THEN NewCapacity(v) ELSE v.capacity]

\* A push fails, leaving the array as it was, exactly when it has to call
\* realloc and realloc finds no memory.
PushCanFail(v) == MustGrow(v)

IsEmpty(v) == Len(v.data) = 0

Top(v) == v.data[Len(v.data)]

Popped(v) == [v EXCEPT !.data = SubSeq(@, 1, Len(@) - 1)]
=============================================================================
