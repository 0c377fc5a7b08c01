----------------------------- MODULE LineTable -----------------------------
(***************************************************************************)
(* What the line editor of c/basic promises: a text per line number, at most  *)
(* MAXLINES of them, listed in the order of their numbers.  The line that was *)
(* typed is part of the state, so each one has exactly one outcome.          *)
(***************************************************************************)
EXTENDS Naturals, FiniteSets

CONSTANTS Numbers, Texts, MAXLINES

None == "none"
VARIABLES table,      \* the text of each number, or None
          shown,      \* the lines as they were last listed, by position
          typed,      \* what was typed last: a number and its text, or a command
          answer      \* "OUT OF MEMORY" if that line was refused, or None

Init == /\ table = [n \in Numbers |-> None] /\ shown = [i \in {} |-> None]
        /\ typed = <<None>> /\ answer = None

Used == {n \in Numbers : table[n] # None}
HasRoom(n) == n \in Used \/ Cardinality(Used) < MAXLINES

Put(n, t) == /\ typed' = <<n, t>> /\ UNCHANGED shown
             /\ table' = IF HasRoom(n) THEN [table EXCEPT ![n] = t] ELSE table
             /\ answer' = IF HasRoom(n) THEN None ELSE "OUT OF MEMORY"
Delete(n) == /\ typed' = <<n, None>> /\ answer' = None
             /\ table' = [table EXCEPT ![n] = None] /\ UNCHANGED shown
Nth(i) == CHOOSE n \in Used : Cardinality({m \in Used : m < n}) = i - 1
List == /\ typed' = <<"LIST">> /\ answer' = None
        /\ shown' = [i \in 1 .. Cardinality(Used) |-> [num |-> Nth(i), text |-> table[Nth(i)]]]
        /\ UNCHANGED table
New == /\ typed' = <<"NEW">> /\ answer' = None
       /\ table' = [n \in Numbers |-> None] /\ UNCHANGED shown

Next == \/ \E n \in Numbers : Delete(n) \/ \E t \in Texts : Put(n, t)
        \/ List \/ New
Spec == Init /\ [][Next]_<<table, shown, typed, answer>>
=============================================================================
