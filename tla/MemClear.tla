------------------------------ MODULE MemClear ------------------------------
(***************************************************************************)
(* The loop of ECALL_MEMCLEAR (asm/riscv-emu/11-syscall.univac), one UNIVAC *)
(* instruction at a time: CLB clears the word the index register B points   *)
(* at, BSK skips out of the loop when B equals MC_END and otherwise         *)
(* increments B.  RiscvEmu takes the whole loop in one step.                *)
(***************************************************************************)
EXTENDS Integers

CONSTANTS IMAGE,       \* the words of RISCV_PROGRAM are 0 .. IMAGE - 1
          Contents     \* what a word may hold

ASSUME ImageAssumption == IMAGE \in Nat \ {0}
ASSUME ContentsAssumption == Contents \subseteq Nat /\ 0 \in Contents

VARIABLES MC_START, MC_END,   \* word offsets, a0 and a1 halved
          mem,                \* the image
          mem0,               \* the image when the call was made (history)
          B,
          label               \* "CLB", "BSK", "done", or "undefined" outside the image

vars == <<MC_START, MC_END, mem, mem0, B, label>>

Words == 0 .. IMAGE - 1

Init ==
  /\ MC_START \in Words /\ MC_END \in Words
  /\ mem \in [Words -> Contents] /\ mem0 = mem
  /\ B = MC_START
  /\ label = "CLB"

CLB ==
  /\ label = "CLB" /\ B \in Words
  /\ mem' = [mem EXCEPT ![B] = 0]
  /\ label' = "BSK"
  /\ UNCHANGED <<MC_START, MC_END, mem0, B>>

(* Beyond the image the loop runs on through the rest of the machine.         *)
Runaway ==
  /\ label = "CLB" /\ B \notin Words
  /\ label' = "undefined"
  /\ UNCHANGED <<MC_START, MC_END, mem, mem0, B>>

(* Mutants of BSK: the loop counts by two, as register offsets do; it is not  *)
(* closed; B is not incremented.                                             *)
BSK_ByTwo ==
  /\ label = "BSK"
  /\ IF B = MC_END THEN label' = "done" /\ B' = B
                   ELSE label' = "CLB" /\ B' = B + 2
  /\ UNCHANGED <<MC_START, MC_END, mem, mem0>>

BSK_NoLoop ==
  /\ label = "BSK" /\ label' = "done"
  /\ UNCHANGED <<MC_START, MC_END, mem, mem0, B>>

BSK_NoIncrement ==
  /\ label = "BSK"
  /\ label' = IF B = MC_END THEN "done" ELSE "CLB"
  /\ UNCHANGED <<MC_START, MC_END, mem, mem0, B>>

BSK ==
  /\ label = "BSK"
  /\ IF B = MC_END THEN label' = "done" /\ B' = B
                   ELSE label' = "CLB" /\ B' = B + 1
  /\ UNCHANGED <<MC_START, MC_END, mem, mem0>>

Next == CLB \/ Runaway \/ BSK

Spec == Init /\ [][Next]_vars /\ WF_vars(Next)

-----------------------------------------------------------------------------

TypeOK ==
  /\ MC_START \in Words /\ MC_END \in Words
  /\ mem \in [Words -> Contents] /\ mem0 \in [Words -> Contents]
  /\ B \in 0 .. IMAGE
  /\ label \in {"CLB", "BSK", "done", "undefined"}

(* Every word from MC_START up to B has been cleared and no other word has    *)
(* been touched, wherever the loop is interrupted.                           *)
ClearedUpTo(b) == mem = [w \in Words |-> IF w \in MC_START .. b THEN 0 ELSE mem0[w]]

Progress ==
  CASE label = "CLB"       -> ClearedUpTo(B - 1)
    [] label = "BSK"       -> ClearedUpTo(B)
    [] label = "done"      -> ClearedUpTo(MC_END)
    [] label = "undefined" -> ClearedUpTo(IMAGE - 1)

(* The loop leaves the image only when it was called with an end before its   *)
(* start.                                                                    *)
NoRunaway == label = "undefined" => MC_END < MC_START

Correct == Progress /\ NoRunaway

(* The loop comes to an end, at MC_END whenever MC_START does not lie beyond. *)
Terminates == <>(label = IF MC_START <= MC_END THEN "done" ELSE "undefined")
=============================================================================
