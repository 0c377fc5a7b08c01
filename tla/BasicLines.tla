----------------------------- MODULE BasicLines -----------------------------
(***************************************************************************)
(* The line editor of c/basic/main.c: main takes a numbered line, or one of   *)
(* the commands LIST and NEW; store_line keeps the array lines in order by    *)
(* moving its elements.  RUN (module Basic) does not change the lines.        *)
(***************************************************************************)
EXTENDS Naturals, Sequences, SequencesExt, FiniteSetsExt

CONSTANTS Numbers, Texts, MAXLINES

VARIABLES lines,        \* the first nlines elements: number and text
          listed,       \* what LIST printed last
          lbuf,         \* the line typed last: a number and its text, or a command
          answer        \* what store_line printed for it

editor == <<lines, listed, lbuf, answer>>
EditorInit == lines = <<>> /\ listed = <<>> /\ lbuf = <<"none">> /\ answer = "none"

(* Where the first number that is not smaller stands. *)
Point(n) == Cardinality({i \in DOMAIN lines : lines[i].num < n}) + 1
Found(n) == Point(n) <= Len(lines) /\ lines[Point(n)].num = n

(* A number with no text behind it removes the line. *)
RemoveLine(n) ==
  /\ lines' = IF \E i \in DOMAIN lines : lines[i].num = n
              THEN RemoveAt(lines, Min({i \in DOMAIN lines : lines[i].num = n})) ELSE lines
  /\ lbuf' = <<n, "none">> /\ answer' = "none" /\ UNCHANGED listed

(* Mutant: a line that is there keeps its text.                              *)
store_line_Keep(n, t) ==
  /\ lines' = IF ~Found(n) /\ Len(lines) < MAXLINES
              THEN InsertAt(lines, Point(n), [num |-> n, text |-> t]) ELSE lines
  /\ answer' = IF Found(n) \/ Len(lines) < MAXLINES THEN "none" ELSE "OUT OF MEMORY"
  /\ lbuf' = <<n, t>> /\ UNCHANGED listed

(* A new text for the line, or room made for it, or "OUT OF MEMORY". *)
store_line(n, t) ==
  /\ lines' = IF Found(n) THEN [lines EXCEPT ![Point(n)].text = t]
              ELSE IF Len(lines) < MAXLINES
              THEN InsertAt(lines, Point(n), [num |-> n, text |-> t]) ELSE lines
  /\ answer' = IF Found(n) \/ Len(lines) < MAXLINES THEN "none" ELSE "OUT OF MEMORY"
  /\ lbuf' = <<n, t>> /\ UNCHANGED listed

cmd_list == /\ listed' = lines /\ lbuf' = <<"LIST">> /\ answer' = "none" /\ UNCHANGED lines
cmd_new == /\ lines' = <<>> /\ lbuf' = <<"NEW">> /\ answer' = "none" /\ UNCHANGED listed

EditorNext == \/ \E n \in Numbers : RemoveLine(n) \/ \E t \in Texts : store_line(n, t)
        \/ cmd_list \/ cmd_new
EditorSpec == EditorInit /\ [][EditorNext]_editor

ConstantsOK == Numbers \subseteq Nat /\ "none" \notin Texts /\ MAXLINES \in Nat

(* Each line typed does to the array what LineTable says of that line: its     *)
(* number gets its text and no other changes, or, if the number is new and     *)
(* MAXLINES are in use, and only then, it is refused with OUT OF MEMORY; a    *)
(* number alone frees it; LIST prints the lines in order (store_line,         *)
(* cmd_list, cmd_new).                                                       *)
TextOf(n) == LET at == {i \in DOMAIN lines : lines[i].num = n}
             IN  IF at = {} THEN "none" ELSE lines[Max(at)].text
Table == INSTANCE LineTable WITH table <- [n \in Numbers |-> TextOf(n)], shown <- listed, typed <- lbuf
ImplementsTable == Table!Spec
=============================================================================
