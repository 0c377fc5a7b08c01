------------------------------- MODULE Unigma -------------------------------
(***************************************************************************)
(* c/unigma: the Enigma.  One machine writes lines, a second one, set up the   *)
(* same way, is given them.  A character is its distance from 'A'.            *)
(***************************************************************************)
EXTENDS Integers, Sequences, SequencesExt, Functions, TLC

CONSTANTS ALPHABET_SIZE,          \* 26 in the source
          LOWER, SPACE,           \* 'a' - 'A' and ' ' - 'A'
          ROTOR_WIRINGS,          \* 0, 1, 2: rotors I, II, III; 3: the reflector
          NOTCH_POSITIONS_INIT,   \* of rotors I, II, III
          LINE,                   \* size of the line buffers, 1024 in the source
          Positions, Plugboards,  \* what may be typed to set a machine up
          Texts, MAXLINES         \* lines that may be typed, and how many (a bound)

VARIABLE state

Letters == 0 .. ALPHABET_SIZE - 1
Upper(c) == IF c - LOWER \in Letters THEN c - LOWER ELSE c
mod_positive(a) == a % ALPHABET_SIZE

-----------------------------------------------------------------------------
(* A machine: positions[0] is the right rotor, positions[2] the left.          *)

idx(wiring, c) == CHOOSE i \in Letters : wiring[i] = c

(* Mutant: the way back ends before the rotor's position is taken off. *)
encode_through_rotor_Back(k, rotor_index, position, direction) ==
  LET i == mod_positive(k + position)
  IN  IF direction = 0 THEN mod_positive(ROTOR_WIRINGS[rotor_index][i] - position) ELSE idx(ROTOR_WIRINGS[rotor_index], i)

encode_through_rotor(k, rotor_index, position, direction) ==
  LET i == mod_positive(k + position)
  IN  mod_positive((IF direction = 0 THEN ROTOR_WIRINGS[rotor_index][i] ELSE idx(ROTOR_WIRINGS[rotor_index], i)) - position)

(* The first pair with the character in it; what follows a pair is skipped as   *)
(* long as it is a space.                                                    *)
RECURSIVE apply_plugboard(_, _)
apply_plugboard(c, plugboard) ==
  IF Len(plugboard) < 2 THEN c
  ELSE IF c = plugboard[1] THEN plugboard[2]
  ELSE IF c = plugboard[2] THEN plugboard[1]
  ELSE LET rest == SubSeq(plugboard, 3, Len(plugboard))
           first == SelectInSeq(rest, LAMBDA d : d # SPACE)
       IN  apply_plugboard(c, IF first = 0 THEN <<>> ELSE SubSeq(rest, first, Len(rest)))

(* The double step: the middle rotor at its notch takes the left one with it.   *)
step_rotors(positions) ==
  LET On(i) == mod_positive(positions[i] + 1)
      middle == positions[1] = NOTCH_POSITIONS_INIT[1]
      right == positions[0] = NOTCH_POSITIONS_INIT[0]
  IN  (0 :> On(0)) @@ (1 :> IF middle \/ right THEN On(1) ELSE positions[1]) @@ (2 :> IF middle THEN On(2) ELSE positions[2])

(* Rotor III is on the right. *)
Through(c, p) ==
  LET Left(k) == encode_through_rotor(encode_through_rotor(encode_through_rotor(k, 2, p[0], 0), 1, p[1], 0), 0, p[2], 0)
      Back(k) == encode_through_rotor(encode_through_rotor(encode_through_rotor(k, 0, p[2], 1), 1, p[1], 1), 2, p[0], 1)
  IN  Back(ROTOR_WIRINGS[3][Left(c)])

(* Results are [machine, out]; only a letter steps the rotors. *)
encrypt_char(machine, typed) ==
  LET c == Upper(typed)
      p == step_rotors(machine.positions)
  IN  IF c \notin Letters THEN [machine |-> machine, out |-> c]
      ELSE [machine |-> [machine EXCEPT !.positions = p],
            out |-> apply_plugboard(Through(apply_plugboard(c, machine.plugboard), p), machine.plugboard)]

(* fgets: a line comes in pieces of LINE - 1 characters, its newline among      *)
(* them; of a piece LINE - 2 characters are put out, each piece a line.        *)
RECURSIVE Pieces(_)
Pieces(text) ==
  IF Len(text) < LINE - 1 THEN <<text>>
  ELSE <<SubSeq(text, 1, LINE - 2)>> \o Pieces(SubSeq(text, LINE, Len(text)))
Enciphered(machine, piece) ==
  FoldLeft(LAMBDA r, c : LET e == encrypt_char(r.machine, c) IN [machine |-> e.machine, out |-> Append(r.out, e.out)],
           [machine |-> machine, out |-> <<>>], piece)
run_enigma(machine, text) ==
  FoldLeft(LAMBDA r, piece : LET e == Enciphered(r.machine, piece) IN [machine |-> e.machine, out |-> Append(r.out, e.out)],
           [machine |-> machine, out |-> <<>>], Pieces(text))

-----------------------------------------------------------------------------
(* Nothing typed leaves AAA.  Letters are tested in upper case and stored as    *)
(* they were typed; the plugboard is stored in upper case.                    *)

init_enigma == [positions |-> [i \in 0 .. 2 |-> 0], plugboard |-> <<>>]
Accepted(typed) == Len(typed) = 3 /\ \A i \in DOMAIN typed : Upper(typed[i]) \in Letters
set_rotor_positions(machine, typed) == [machine EXCEPT !.positions = [i \in 0 .. 2 |-> typed[3 - i]]]
set_plugboard(machine, typed) == [machine EXCEPT !.plugboard = [i \in DOMAIN typed |-> Upper(typed[i])]]

Init == state = [phase |-> "config", sender |-> init_enigma, receiver |-> init_enigma,
                 typed |-> <<>>, written |-> <<>>, read |-> <<>>]

interactive_config(typed, pairs) ==
  LET machine == set_plugboard(IF typed = <<>> THEN init_enigma ELSE set_rotor_positions(init_enigma, typed), pairs)
  IN  /\ state.phase = "config"
      /\ state' = IF typed # <<>> /\ ~Accepted(typed) THEN [state EXCEPT !.phase = "exit"]
                  ELSE [state EXCEPT !.phase = "run", !.sender = machine, !.receiver = machine]

(* typed keeps the pieces that are put out. *)
Send(text) ==
  /\ state.phase = "run" /\ Len(state.typed) < MAXLINES
  /\ LET r == run_enigma(state.sender, text)
     IN  state' = [state EXCEPT !.sender = r.machine, !.typed = @ \o Pieces(text), !.written = @ \o r.out]
Receive ==
  /\ state.phase = "run" /\ Len(state.read) < Len(state.written)
  /\ LET r == run_enigma(state.receiver, state.written[Len(state.read) + 1])
     IN  state' = [state EXCEPT !.receiver = r.machine, !.read = @ \o r.out]

Next ==
  \/ \E typed \in Positions, pairs \in Plugboards : interactive_config(typed, pairs)
  \/ \E text \in Texts : Send(text)
  \/ Receive
Spec == Init /\ [][Next]_state

-----------------------------------------------------------------------------
(* Pairs of letters, each letter in one of them. *)
Proper(plugboard) ==
  LET letters == SelectSeq(plugboard, LAMBDA c : c # SPACE)
  IN  IsInjective(letters) /\ \A i \in DOMAIN letters : letters[i] \in Letters
                                /\ (i % 2 = 1 => i < Len(letters) /\ \E n \in DOMAIN plugboard :
                                      n < Len(plugboard) /\ plugboard[n] = letters[i] /\ plugboard[n + 1] = letters[i + 1])

(* A machine set up the same way reads what was typed, in upper case, line for   *)
(* line and in step however the rotors stand and whatever case they were set    *)
(* in; and no letter is enciphered as itself.                                  *)
Reciprocal ==
  Proper(state.sender.plugboard) =>
    /\ \A n \in DOMAIN state.read : state.read[n] = [i \in DOMAIN state.typed[n] |-> Upper(state.typed[n][i])]
    /\ Len(state.read) = Len(state.written) => state.receiver = state.sender
    /\ \A n \in DOMAIN state.written : \A i \in DOMAIN state.written[n] :
         state.written[n][i] \in Letters => state.written[n][i] # Upper(state.typed[n][i])
=============================================================================
