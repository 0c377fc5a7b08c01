------------------------------ MODULE Bahlsen ------------------------------
(***************************************************************************)
(* c/bahlsen: given what an Enigma without a plugboard wrote and a part of     *)
(* what was typed, finds how its rotors stood.  It has rotors of its own;      *)
(* the Enigma that writes is that of Unigma.  Characters are as there.         *)
(***************************************************************************)
EXTENDS Integers, Sequences, SequencesExt, TLC

CONSTANTS ALPHABET_SIZE, LOWER, SPACE,
          R, N,              \* rotors I, II, III and the reflector; notches
          NEWLINE,           \* as a character
          BUFFER,            \* size of the line buffers, 80 in the source
          Messages           \* [positions, text, crib]: how the Enigma stood, what was typed there, what is known of it

VARIABLE cracker

Letters == 0 .. ALPHABET_SIZE - 1
mod(a) == a % ALPHABET_SIZE
idx(wiring, c) == CHOOSE i \in Letters : wiring[i] = c
map(k, r, p, d) ==
  LET i == mod(k + p)
  IN  mod((IF d = 0 THEN R[r][i] ELSE idx(R[r], i)) - p)

has_crib(txt, crib) ==
  \E i \in DOMAIN txt : i + Len(crib) - 1 <= Len(txt) /\ \A j \in DOMAIN crib : txt[i + j - 1] = crib[j]

(* Letters up to the newline, in upper case.  When the buffer is full the next  *)
(* character is taken and lost, and the rest of the line is left.              *)
RECURSIVE Line(_, _)
Line(got, input) ==
  LET c == IF Head(input) - LOWER \in Letters THEN Head(input) - LOWER ELSE Head(input)
  IN  IF Head(input) = NEWLINE \/ Len(got) >= BUFFER - 1 THEN [got |-> got, rest |-> Tail(input)]
      ELSE Line(IF c \in Letters THEN Append(got, c) ELSE got, Tail(input))

Step(t) ==
  LET On(i) == mod(t[i] + 1)
  IN  (0 :> On(0)) @@ (1 :> IF t[1] = N[1] \/ t[0] = N[0] THEN On(1) ELSE t[1]) @@ (2 :> IF t[1] = N[1] THEN On(2) ELSE t[2])
Path(c, t) ==
  LET left == map(map(map(c, 2, t[0], 0), 1, t[1], 0), 0, t[2], 0)
  IN  map(map(map(R[3][left], 0, t[2], 1), 1, t[1], 1), 2, t[0], 1)
Decrypted(t, cipher) ==
  FoldLeft(LAMBDA r, c : LET s == Step(r.t) IN [t |-> s, plain |-> Append(r.plain, Path(c, s))], [t |-> t, plain |-> <<>>], cipher)

-----------------------------------------------------------------------------
Enigma == INSTANCE Unigma WITH state <- cracker, ROTOR_WIRINGS <- R, NOTCH_POSITIONS_INIT <- N, LINE <- 1024,
                               Positions <- {}, Plugboards <- {}, Texts <- {}, MAXLINES <- 0
Machine(positions) == Enigma!set_rotor_positions(Enigma!init_enigma, positions)
Written(message) == Enigma!Enciphered(Machine(message.positions), message.text).out

Init == cracker = [phase |-> "input", message |-> <<>>, cipher |-> <<>>, crib |-> <<>>, at |-> <<0, 0, 0>>,
                   t_p |-> [i \in 0 .. 2 |-> 0], plain |-> <<>>]

Enter(message) ==
  LET cipher == Line(<<>>, Written(message) \o <<NEWLINE>> \o message.crib \o <<NEWLINE>>)
  IN  /\ cracker.phase = "input"
      /\ cracker' = [cracker EXCEPT !.phase = "search", !.message = message, !.cipher = cipher.got,
                                    !.crib = Line(<<>>, cipher.rest).got]

(* Mutant: the rotors go on from where the last attempt left them. *)
Reset_Kept(t_p, at) == t_p
(* at: left, middle, right. *)
Reset(t_p, at) == [i \in 0 .. 2 |-> at[3 - i]]
(* The right rotor turns fastest. *)
Turned(at) ==
  IF at[3] + 1 \in Letters THEN <<at[1], at[2], at[3] + 1>>
  ELSE IF at[2] + 1 \in Letters THEN <<at[1], at[2] + 1, 0>> ELSE <<at[1] + 1, 0, 0>>

Attempt ==
  /\ cracker.phase = "search"
  /\ LET r == Decrypted(Reset(cracker.t_p, cracker.at), cracker.cipher)
         next == Turned(cracker.at)
     IN  cracker' = IF has_crib(r.plain, cracker.crib) THEN [cracker EXCEPT !.phase = "found", !.t_p = r.t, !.plain = r.plain]
                    ELSE IF next[1] \notin Letters THEN [cracker EXCEPT !.phase = "none", !.t_p = r.t, !.plain = r.plain]
                    ELSE [cracker EXCEPT !.t_p = r.t, !.plain = r.plain, !.at = next]

Next == (\E message \in Messages : Enter(message)) \/ Attempt
Spec == Init /\ [][Next]_cracker

-----------------------------------------------------------------------------
(* An Enigma set to what was found reads the cipher as the text printed, and     *)
(* the crib is in it; and nothing is found only if the crib is not in what was  *)
(* typed.  For lines that fit the buffers.                                    *)
LettersOf(text) ==
  SelectSeq([i \in DOMAIN text |-> IF text[i] - LOWER \in Letters THEN text[i] - LOWER ELSE text[i]], LAMBDA c : c \in Letters)
Cracked ==
  LET text == LettersOf(cracker.message.text)
      crib == LettersOf(cracker.message.crib)
  IN  cracker.phase \in {"found", "none"} /\ Len(text) < BUFFER /\ Len(crib) < BUFFER =>
        IF cracker.phase = "found"
        THEN /\ Enigma!Enciphered(Machine(cracker.at), LettersOf(Written(cracker.message))).out = cracker.plain
             /\ \E before, after \in 0 .. Len(cracker.plain) :
                  before + after <= Len(cracker.plain) /\ SubSeq(cracker.plain, before + 1, Len(cracker.plain) - after) = crib
        ELSE ~has_crib(text, crib)
=============================================================================
