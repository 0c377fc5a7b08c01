------------------------------- MODULE Sudoku -------------------------------
(***************************************************************************)
(* c/ocaml-sudoku, the compiled program: reads the rows, then c3191 tries     *)
(* digits from the first square on, calling itself for the square after.      *)
(* Digits are numbers, 0 an empty square; the run-time system is CamlHeap.    *)
(***************************************************************************)
EXTENDS Integers, Sequences, SequencesExt

CONSTANTS N, BOX,     \* 9 and 3 in the source
          Lines       \* for each row, the N digits that may be typed

VARIABLE game

Squares == 0 .. N * N - 1

(* calls: the square and the digit of each call that tries one, the last is     *)
(* the one that runs; at: the square it has come to.                          *)
Init == game = [phase |-> "read", typed |-> <<>>, board |-> <<>>, calls |-> <<>>, at |-> 0]

(* The characters come in a list, last first; it is reversed, measured, put in  *)
(* a string and appended to the board.                                       *)
ConsAll(line, list) == Reverse(line) \o list
reverse(list) == Reverse(list)
ReadLine(line) ==
  /\ game.phase = "read" /\ Len(game.typed) < N * N
  /\ game' = [game EXCEPT !.typed = @ \o reverse(ConsAll(line, <<>>))]
(* A copy of the string is the board. *)
Solving ==
  /\ game.phase = "read" /\ Len(game.typed) = N * N
  /\ game' = [game EXCEPT !.phase = "solve", !.board = [s \in Squares |-> game.typed[s + 1]]]

SameBox(i, j) == i \div (N * BOX) = j \div (N * BOX) /\ (i % N) \div BOX = (j % N) \div BOX

(* Mutant: boxes are not compared. *)
Conflict_NoBox(board, i) ==
  \E j \in Squares : j # i /\ board[j] = board[i] /\ (i \div N = j \div N \/ i % N = j % N)
Conflict(board, i) ==
  \E j \in Squares : j # i /\ board[j] = board[i] /\ (i \div N = j \div N \/ i % N = j % N \/ SameBox(i, j))

(* The whole board: printed, and the program exits.  A given digit: on to the   *)
(* next square.  Else the first digit is tried.                              *)
Come ==
  /\ game.phase = "solve" /\ game.at \in 0 .. N * N
  /\ game' = IF game.at = N * N THEN [game EXCEPT !.phase = "printed"]
             ELSE IF game.board[game.at] # 0 THEN [game EXCEPT !.at = @ + 1]
             ELSE [game EXCEPT !.phase = "try", !.calls = Append(@, [at |-> game.at, digit |-> 1])]

(* The calls before the last, which goes on to its next digit.                 *)
Outer(calls) ==
  LET m == Len(calls) - 1
  IN  [i \in 1 .. m |-> IF i = m THEN [calls[i] EXCEPT !.digit = @ + 1] ELSE calls[i]]

(* The running call puts its digit down: without a conflict it calls for the    *)
(* next square, else it goes on to the next digit.  After the last digit it     *)
(* empties the square and returns to the call before, for its next digit.      *)
Try ==
  /\ game.phase = "try"
  /\ LET n == Len(game.calls)
         call == game.calls[n]
         put == [game.board EXCEPT ![call.at] = IF call.digit > N THEN 0 ELSE call.digit]
     IN  game' = IF call.digit > N
                 THEN [game EXCEPT !.board = put, !.calls = Outer(@), !.phase = IF n = 1 THEN "returned" ELSE @]
                 ELSE IF Conflict(put, call.at) THEN [game EXCEPT !.board = put, !.calls[n].digit = @ + 1]
                 ELSE [game EXCEPT !.board = put, !.phase = "solve", !.at = call.at + 1]

Next == (\E line \in Lines[Len(game.typed) \div N + 1] : ReadLine(line)) \/ Solving \/ Come \/ Try
Spec == Init /\ [][Next]_game

ConstantsOK == /\ N \in Nat \ {0} /\ BOX \in Nat \ {0} /\ N % BOX = 0
               /\ \A row \in 1 .. N : Lines[row] \subseteq [1 .. N -> 0 .. N]

-----------------------------------------------------------------------------
(* The rules: a completion keeps the digits given, and none of those added is   *)
(* in the row, the column or the box of an equal one.                         *)
Units == {{s \in Squares : s \div N = n} : n \in 0 .. N - 1} \cup {{s \in Squares : s % N = n} : n \in 0 .. N - 1}
         \cup {{s \in Squares : (s \div N) \div BOX = r /\ (s % N) \div BOX = c} : r, c \in 0 .. N \div BOX - 1}
Given == {s \in Squares : game.typed[s + 1] # 0}
Completion(board) ==
  /\ \A s \in Squares : board[s] \in 1 .. N /\ (s \in Given => board[s] = game.typed[s + 1])
  /\ \A unit \in Units : \A s \in unit \ Given, t \in unit : s # t => board[s] # board[t]
Filled(digits) == [s \in Squares |-> IF s \in Given THEN game.typed[s + 1] ELSE digits[s]]

(* What is printed completes what was typed; and when the solver comes back     *)
(* without printing, there is no completion and the board is as typed.  In      *)
(* between only the squares of the calls in progress hold digits of its own.    *)
Solved ==
  /\ game.phase = "printed" => Completion(game.board)
  /\ game.phase = "returned" => ~\E digits \in [Squares \ Given -> 1 .. N] : Completion(Filled(digits))
  /\ game.phase \in {"solve", "try", "returned"} =>
       \A s \in Squares : (\A i \in DOMAIN game.calls : game.calls[i].at # s) => game.board[s] = game.typed[s + 1]
=============================================================================
