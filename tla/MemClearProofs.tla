--------------------------- MODULE MemClearProofs ---------------------------
(***************************************************************************)
(* What the MEMCLEAR loop clears, for images of every size.                 *)
(***************************************************************************)
EXTENDS MemClear, TLAPS

(* B stays between the two ends until it has passed MC_END, which it can only *)
(* do when the call named an end before its start.                           *)
Bounded ==
  /\ MC_START <= B
  /\ MC_START <= MC_END /\ label # "undefined" => B <= MC_END
  /\ label = "BSK" => B \in Words
  /\ label = "done" => B = MC_END
  /\ label = "undefined" => B = IMAGE

IInv == TypeOK /\ Bounded /\ Correct

USE ImageAssumption, ContentsAssumption

LEMMA InitIInv == Init => IInv
<1> SUFFICES ASSUME Init PROVE IInv
  OBVIOUS
<1>1. TypeOK /\ Bounded
  BY DEF Init, TypeOK, Bounded, Words
<1>2. \A w \in Words : w \notin MC_START .. B - 1
  BY DEF Init, Words
<1>3. mem = [w \in Words |-> mem0[w]]
  BY DEF Init
<1>4. ClearedUpTo(B - 1)
  BY <1>2, <1>3 DEF ClearedUpTo
<1>5. QED
  BY <1>1, <1>4 DEF Init, IInv, Correct, Progress, NoRunaway

LEMMA CLBStep ==
  ASSUME IInv, CLB
  PROVE  IInv'
<1>1. TypeOK' /\ Bounded'
  BY DEF CLB, IInv, TypeOK, Bounded, Words
<1>2. ClearedUpTo(B - 1)
  BY DEF CLB, IInv, Correct, Progress
<1>3. MC_START \in Int /\ B \in Int /\ MC_START <= B
  BY DEF IInv, TypeOK, Bounded, Words
<1>4. \A w \in Words : w \in MC_START .. B <=> (w = B \/ w \in MC_START .. B - 1)
  BY <1>3 DEF Words
<1>5. ClearedUpTo(B)'
  <2>1. mem' = [w \in Words |-> IF w = B THEN 0 ELSE mem[w]]
    BY <1>2 DEF CLB, ClearedUpTo
  <2>2. mem' = [w \in Words |-> IF w \in MC_START .. B THEN 0 ELSE mem0[w]]
    BY <1>2, <1>4, <2>1 DEF ClearedUpTo
  <2>3. QED  BY <2>2 DEF CLB, ClearedUpTo
<1>6. Correct'
  BY <1>5 DEF CLB, Correct, Progress, NoRunaway
<1>7. QED  BY <1>1, <1>6 DEF IInv

LEMMA RunawayStep ==
  ASSUME IInv, Runaway
  PROVE  IInv'
<1>1. B = IMAGE
  BY DEF Runaway, IInv, TypeOK, Words
<1>2. TypeOK' /\ Bounded' /\ NoRunaway'
  BY <1>1 DEF Runaway, IInv, TypeOK, Bounded, NoRunaway, Words
<1>3. ClearedUpTo(B - 1)
  BY DEF Runaway, IInv, Correct, Progress
<1>4. ClearedUpTo(IMAGE - 1)'
  BY <1>1, <1>3 DEF Runaway, ClearedUpTo
<1>5. Progress'
  BY <1>4 DEF Runaway, Progress
<1>6. QED  BY <1>2, <1>5 DEF IInv, Correct

LEMMA BSKStep ==
  ASSUME IInv, BSK
  PROVE  IInv'
<1>1. ClearedUpTo(B) /\ B \in Words
  BY DEF BSK, IInv, Correct, Progress, Bounded
<1>2. CASE B = MC_END
  <2>1. TypeOK' /\ Bounded' /\ NoRunaway'
    BY <1>1, <1>2 DEF BSK, IInv, TypeOK, Bounded, NoRunaway, Words
  <2>2. Progress'
    BY <1>1, <1>2 DEF BSK, Progress, ClearedUpTo
  <2>3. QED  BY <2>1, <2>2 DEF IInv, Correct
<1>3. CASE B # MC_END
  <2>1. TypeOK' /\ Bounded' /\ NoRunaway'
    BY <1>1, <1>3 DEF BSK, IInv, TypeOK, Bounded, NoRunaway, Words
  <2>2. B' - 1 = B
    BY <1>1, <1>3 DEF BSK, Words
  <2>3. ClearedUpTo(B - 1)'
    BY <1>1, <2>2 DEF BSK, ClearedUpTo
  <2>4. Progress'
    BY <1>3, <2>3 DEF BSK, Progress
  <2>5. QED  BY <2>1, <2>4 DEF IInv, Correct
<1>4. QED  BY <1>2, <1>3

LEMMA StutterStep ==
  ASSUME IInv, UNCHANGED vars
  PROVE  IInv'
  BY DEF vars, IInv, TypeOK, Bounded, Correct, Progress, NoRunaway, ClearedUpTo

(* The inductive invariant holds throughout. *)
LEMMA Inductive == Spec => []IInv
<1>1. IInv /\ [Next]_vars => IInv'
  BY CLBStep, RunawayStep, BSKStep, StutterStep DEF Next
<1>2. QED  BY InitIInv, <1>1, PTL DEF Spec

(* Register B stays within the image or one past it (11-syscall.univac:107).  *)
THEOREM MemClearTypes == Spec => []TypeOK
<1>1. IInv => TypeOK
  BY DEF IInv
<1>2. QED  BY Inductive, <1>1, PTL

(* Wherever the loop is, it has cleared the words from MC_START up to the one *)
(* it has reached and no other; when it is over it has cleared MC_START to    *)
(* MC_END, both included; it overruns the image only from a start that lies   *)
(* beyond the end (11-syscall.univac:101-111).                               *)
THEOREM MemClearCorrect == Spec => []Correct
<1>1. IInv => Correct
  BY DEF IInv
<1>2. QED  BY Inductive, <1>1, PTL
=============================================================================
