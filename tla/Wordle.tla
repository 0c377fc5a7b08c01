------------------------------- MODULE Wordle -------------------------------
(***************************************************************************)
(* c/wordle.  A character is its distance from 'A'; the words of words.c are   *)
(* a constant, in the order of their codes.                                  *)
(***************************************************************************)
EXTENDS Integers, Sequences, SequencesExt, Functions, FiniteSets

CONSTANTS LETTERS, LENGTH, LOWER,  \* 26 letters, words of 5, 'a' - 'A'
          GUESS,                   \* size of the guess's buffer, 8 in the source
          GUESSES,                 \* 6 in the source
          all_words, sol_idx,      \* the words; the indices (from 1) of those that may be the answer
          Lines                    \* what may be typed

VARIABLE game

Letters == 0 .. LETTERS - 1
encode(w) == FoldLeft(LAMBDA v, c : v * 32 + c, 0, w)
Codes == [i \in DOMAIN all_words |-> encode(all_words[i])]

(* Of a longer line what fits; the rest is drained. *)
readln(line) == SubSeq(line, 1, IF Len(line) < GUESS - 1 THEN Len(line) ELSE GUESS - 1)
uppercase(w) == [i \in DOMAIN w |-> IF w[i] - LOWER \in Letters THEN w[i] - LOWER ELSE w[i]]
valid(w) == \A i \in DOMAIN w : w[i] \in Letters

(* Between lo and hi. *)
RECURSIVE Between(_, _, _)
Between(v, lo, hi) ==
  LET mid == (lo + hi) \div 2
  IN  /\ lo <= hi
      /\ \/ Codes[mid + 1] = v
         \/ Codes[mid + 1] < v /\ Between(v, mid + 1, hi)
         \/ Codes[mid + 1] > v /\ Between(v, lo, mid - 1)
has_word(v) == Between(v, 0, Len(all_words) - 1)

(* Letters in place first, each taken out of the copy; then, from the left,      *)
(* each other letter takes the first of its kind left in the copy.             *)
Taken == -1
InPlace(guess, answer) == {i \in DOMAIN guess : guess[i] = answer[i]}
Misplace(result, guess, i) ==
  LET at == {j \in DOMAIN guess : result.copy[j] = guess[i]}
      j == CHOOSE j \in at : \A k \in at : j <= k
  IN  IF result.marks[i] = "#" \/ at = {} THEN result
      ELSE [marks |-> [result.marks EXCEPT ![i] = "O"], copy |-> [result.copy EXCEPT ![j] = Taken]]

(* Mutant: letters in place stay in the copy. *)
check_Again(guess, answer) ==
  LET placed == InPlace(guess, answer)
  IN  FoldLeft(LAMBDA result, i : Misplace(result, guess, i),
               [marks |-> [i \in DOMAIN guess |-> IF i \in placed THEN "#" ELSE "-"], copy |-> answer],
               [i \in DOMAIN guess |-> i]).marks

check(guess, answer) ==
  LET placed == InPlace(guess, answer)
  IN  FoldLeft(LAMBDA result, i : Misplace(result, guess, i),
               [marks |-> [i \in DOMAIN guess |-> IF i \in placed THEN "#" ELSE "-"],
                copy |-> [i \in DOMAIN answer |-> IF i \in placed THEN Taken ELSE answer[i]]],
               [i \in DOMAIN guess |-> i]).marks

-----------------------------------------------------------------------------
(* said: the answer to the last line; tried: history, the guesses counted.      *)
Init == game = [phase |-> "new", answer |-> <<>>, guesses |-> 0, alpha |-> Letters,
                guess |-> <<>>, said |-> "", marks |-> <<>>, tried |-> {}]

(* The number typed, or one drawn. *)
NewGame ==
  /\ game.phase = "new"
  /\ \E n \in DOMAIN sol_idx : game' = [game EXCEPT !.phase = "guess", !.answer = all_words[sol_idx[n]]]

Said(guess, said) == [game EXCEPT !.guess = guess, !.said = said]
Guess(line) ==
  LET guess == uppercase(readln(line))
  IN  /\ game.phase = "guess"
      /\ game' = IF Len(guess) # LENGTH \/ ~valid(guess) THEN Said(guess, "5 LETTERS A-Z")
                 ELSE IF ~has_word(encode(guess)) THEN Said(guess, "NOT IN LIST")
                 ELSE IF guess = game.answer THEN [Said(guess, "WIN") EXCEPT !.phase = "won"]
                 ELSE [Said(guess, "MARKS") EXCEPT !.guesses = @ + 1, !.marks = check(guess, game.answer),
                                                   !.alpha = @ \ Range(guess), !.tried = @ \cup {guess},
                                                   !.phase = IF game.guesses + 1 = GUESSES THEN "lost" ELSE @]

Next == NewGame \/ \E line \in Lines : Guess(line)
Spec == Init /\ [][Next]_game

-----------------------------------------------------------------------------
(* The rules.  A word of the list counts, in any case, and nothing else does.   *)
(* In the marks a letter shows as often as guess and answer share it: in place  *)
(* wherever it is, the others from the left.  The alphabet printed has lost     *)
(* exactly the letters tried.                                                *)
Marked ==
  LET Count(s, c) == Cardinality({i \in DOMAIN s : s[i] = c})
      Shown(c) == {i \in DOMAIN game.guess : game.guess[i] = c /\ game.marks[i] # "-"}
      Fewer(m, n) == IF m < n THEN m ELSE n
  IN  /\ game.said # "" => (game.said \in {"WIN", "MARKS"}) = (game.guess \in Range(all_words))
      /\ (game.phase = "won") = (game.said = "WIN") /\ (game.said = "WIN" => game.guess = game.answer)
      /\ game.said = "MARKS" =>
           /\ \A c \in Range(game.guess) : Cardinality(Shown(c)) = Fewer(Count(game.guess, c), Count(game.answer, c))
           /\ \A i \in DOMAIN game.guess : (game.marks[i] = "#") = (game.guess[i] = game.answer[i])
           /\ \A i, j \in DOMAIN game.guess : i < j /\ game.guess[i] = game.guess[j] /\ game.marks[i] = "-" => game.marks[j] # "O"
      /\ game.alpha = Letters \ UNION {Range(w) : w \in game.tried}
      /\ game.answer \notin game.tried
=============================================================================
