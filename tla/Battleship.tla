----------------------------- MODULE Battleship -----------------------------
(***************************************************************************)
(* c/battleship: two navies and the hunt-and-target engine.  A square is the  *)
(* number encode_coord gives it.  Chance is a choice; what is printed is left *)
(* out.                                                                      *)
(***************************************************************************)
EXTENDS Integers, SequencesExt, FiniteSets

CONSTANTS BOARD_SIZE,   \* 10 in the source
          Lengths,      \* of the ships, in order: 5, 4, 3, 3, 2 in the source
          Placements,   \* pairs of squares that may be typed for a ship
          Shots         \* squares that may be fired at; one not on the board is typed wrong

VARIABLE game

WATER == "water"
HIT == "hit"
MISS == "miss"
SHIP_PIECE == "ship"
Squares == 0 .. BOARD_SIZE * BOARD_SIZE - 1
Row(s) == s \div BOARD_SIZE
Col(s) == s % BOARD_SIZE
NoShot == -1

init_battlefield == [s \in Squares |-> WATER]
init_player == [arena |-> init_battlefield, ships |-> <<>>]

(* Odd squares of even rows, and the squares before the odd ones of odd rows. *)
create_targets ==
  [targets |-> Squares,
   hunts |-> {IF Row(s) % 2 = 0 THEN s ELSE s - 1 : s \in {s \in Squares : s % 2 = 1}}]
init_intermediate_ai ==
  [targets |-> create_targets.targets, hunts |-> create_targets.hunts, targets_fired |-> <<>>,
   is_targeting |-> FALSE, previous_shot |-> NoShot]

Init == game = [phase |-> "place", human |-> init_player, ai_player |-> init_player,
                ai_engine |-> init_intermediate_ai]

-----------------------------------------------------------------------------
(* Placing.  A ship is the set of squares it still holds.                     *)

Segment(a, b) == {s \in Squares : Row(a) <= Row(s) /\ Row(s) <= Row(b) /\ Col(a) <= Col(s) /\ Col(s) <= Col(b)}
is_crossing(arena, ship) == \E s \in ship : arena[s] = SHIP_PIECE
(* To the left and to the right only. *)
is_touching(arena, ship) ==
  \E s \in ship, t \in Squares : Row(s) = Row(t) /\ Col(t) - Col(s) \in {-1, 1} /\ arena[t] = SHIP_PIECE
is_correct_coordinates(arena, a, b, length) ==
  /\ Row(a) = Row(b) \/ Col(a) = Col(b)
  /\ Cardinality(Segment(a, b)) = length
  /\ ~is_crossing(arena, Segment(a, b)) /\ ~is_touching(arena, Segment(a, b))

store_ship_placement(p, ship) ==
  [arena |-> [s \in Squares |-> IF s \in ship THEN SHIP_PIECE ELSE p.arena[s]], ships |-> Append(p.ships, ship)]
(* Rows and columns are put in order, each by itself. *)
normalize_coordinates(a, b) ==
  LET Least(i, j) == IF i < j THEN i ELSE j
      Most(i, j) == IF i < j THEN j ELSE i
  IN  <<Least(Row(a), Row(b)) * BOARD_SIZE + Least(Col(a), Col(b)), Most(Row(a), Row(b)) * BOARD_SIZE + Most(Col(a), Col(b))>>

PlaceShip(typed) ==
  LET p == game.human
      ends == normalize_coordinates(typed[1], typed[2])
  IN  /\ game.phase = "place" /\ Len(p.ships) < Len(Lengths)
      /\ typed[1] \in Squares /\ typed[2] \in Squares
      /\ is_correct_coordinates(p.arena, ends[1], ends[2], Lengths[Len(p.ships) + 1])
      /\ game' = [game EXCEPT !.human = store_ship_placement(p, Segment(ends[1], ends[2]))]

(* Tried at random until a place is right. *)
ai_place_ship ==
  LET p == game.ai_player
  IN  /\ game.phase = "place" /\ Len(game.human.ships) = Len(Lengths) /\ Len(p.ships) < Len(Lengths)
      /\ \E a \in Squares : \E b \in {s \in Squares : s >= a} :
           /\ is_correct_coordinates(p.arena, a, b, Lengths[Len(p.ships) + 1])
           /\ LET placed == store_ship_placement(p, Segment(a, b))
              IN  game' = [game EXCEPT !.ai_player = placed,
                                       !.phase = IF Len(placed.ships) = Len(Lengths) THEN "fire" ELSE @]

-----------------------------------------------------------------------------
(* A hit: the piece leaves its ship, and the ship the navy with its last.      *)

is_hit(p, s) == s \in Squares /\ p.arena[s] = SHIP_PIECE
is_miss(p, s) == s \notin Squares \/ p.arena[s] = WATER
place_piece(p, s, piece) == IF s \in Squares THEN [p EXCEPT !.arena[s] = piece] ELSE p
is_navy_sunken(p) == p.ships = <<>>

part_of(p, s) == CHOOSE i \in DOMAIN p.ships : s \in p.ships[i]
remove_ship_part(p, s) == [p.ships EXCEPT ![part_of(p, s)] = @ \ {s}]
without_part(p, s) ==
  IF p.ships[part_of(p, s)] = {s} THEN RemoveAt(p.ships, part_of(p, s)) ELSE remove_ship_part(p, s)

(* Mutant: the ship keeps the piece that was hit. *)
manage_ship_hit_Kept(p, s) ==
  [place_piece(p, s, HIT) EXCEPT !.ships = IF p.ships[part_of(p, s)] = {s} THEN RemoveAt(@, part_of(p, s)) ELSE @]

manage_ship_hit(p, s) == [place_piece(p, s, HIT) EXCEPT !.ships = without_part(p, s)]

(* The engine aims once its own ship is hit, and no more once one is sunk. *)
ai_manage_ship_hit(g, s) ==
  LET p == manage_ship_hit(g.ai_player, s)
  IN  [g EXCEPT !.ai_player = p, !.ai_engine.is_targeting = (Len(p.ships) = Len(g.ai_player.ships))]

Fire(s) ==
  /\ game.phase = "fire"
  /\ LET g == IF is_hit(game.ai_player, s) THEN ai_manage_ship_hit(game, s)
              ELSE IF is_miss(game.ai_player, s) THEN [game EXCEPT !.ai_player = place_piece(@, s, MISS)]
              ELSE game
     IN  game' = [g EXCEPT !.phase = IF is_navy_sunken(g.ai_player) THEN "won" ELSE "answer"]

-----------------------------------------------------------------------------
(* The engine.  A salvo is [ai, at].                                          *)

Salvo(ai, s) == [ai |-> [ai EXCEPT !.targets = @ \ {s}, !.hunts = @ \ {s}, !.previous_shot = s], at |-> s]
hunt_squares(ai) ==
  {Salvo([ai EXCEPT !.targets_fired = <<>>], s) : s \in IF ai.hunts # {} THEN ai.hunts ELSE ai.targets}

(* The squares around the start that are targets and not on the stack go on it, *)
(* north, south, east and west.                                              *)
Push(stack, s, allowed) == IF s \in allowed /\ s \notin Range(stack) THEN Append(stack, s) ELSE stack
East(start) == IF start < 0 \/ start % BOARD_SIZE # BOARD_SIZE - 1 THEN start + 1 ELSE NoShot
West(start) == IF start % BOARD_SIZE # 0 THEN start - 1 ELSE NoShot
Aim(stack, start, allowed) ==
  Push(Push(Push(Push(stack, start - BOARD_SIZE, allowed), start + BOARD_SIZE, allowed),
            East(start), allowed), West(start), allowed)

(* Its top is fired at; without one the engine hunts. *)
Pop(ai, stack) ==
  IF stack = <<>> THEN hunt_squares(ai)
  ELSE {Salvo([ai EXCEPT !.targets_fired = Front(stack)], Last(stack))}

(* Mutant: a square that is on the stack is put there again. *)
target_ship_Again(ai, start) ==
  Pop(ai, ai.targets_fired \o SelectSeq(<<start - BOARD_SIZE, start + BOARD_SIZE, East(start), West(start)>>,
                                         LAMBDA s : s \in ai.targets))

target_ship(ai, start) == Pop(ai, Aim(ai.targets_fired, start, ai.targets))

(* Before the first shot previous_shot is empty and encode_coord leaves its    *)
(* column to chance: any start, of which those near the board matter.  (With   *)
(* NULL for the random state the hunt takes the word at 0; chance all the same.) *)
encode_coord(shot) == IF shot = NoShot THEN -BOARD_SIZE .. BOARD_SIZE * (BOARD_SIZE + 1) - 1 ELSE {shot}
ai_fire_salvo(ai) ==
  IF ai.is_targeting THEN UNION {target_ship(ai, start) : start \in encode_coord(ai.previous_shot)} ELSE hunt_squares(ai)

Answer ==
  /\ game.phase = "answer"
  /\ \E salvo \in ai_fire_salvo(game.ai_engine) :
       LET p == IF is_hit(game.human, salvo.at) THEN manage_ship_hit(game.human, salvo.at)
                ELSE IF is_miss(game.human, salvo.at) THEN place_piece(game.human, salvo.at, MISS)
                ELSE game.human
       IN  game' = [game EXCEPT !.human = p, !.ai_engine = salvo.ai,
                                !.phase = IF is_navy_sunken(p) THEN "lost" ELSE "fire"]

Next == (\E typed \in Placements : PlaceShip(typed)) \/ ai_place_ship \/ (\E s \in Shots : Fire(s)) \/ Answer
Spec == Init /\ [][Next]_game

-----------------------------------------------------------------------------
(* A board with squares, and ships with parts. *)
ConstantsOK == BOARD_SIZE \in Nat \ {0} /\ Lengths \in Seq(Nat \ {0})

(* The engine never fires at a square twice, wherever aiming and hunting take  *)
(* it: its targets are the squares of the other board nobody fired at, its     *)
(* hunts and its stack are among them, the stack without repetition.  So it    *)
(* always has a square to fire at, and wins at the latest when none is left.   *)
Unspent ==
  LET ai == game.ai_engine
  IN  /\ ai.targets = {s \in Squares : game.human.arena[s] \in {WATER, SHIP_PIECE}}
      /\ ai.hunts \subseteq ai.targets
      /\ Range(ai.targets_fired) \subseteq ai.targets /\ IsInjective(ai.targets_fired)
      /\ game.phase \in {"fire", "answer"} => ai.targets # {}

(* The boards and the lists of ships tell the same: the ships afloat hold the   *)
(* pieces not hit, each at least one and none of another's, and the game is    *)
(* over exactly when a navy has no piece left on its board.                   *)
Afloat(p) ==
  LET pieces == {s \in Squares : p.arena[s] = SHIP_PIECE}
  IN  /\ pieces = UNION Range(p.ships) /\ {} \notin Range(p.ships)
      /\ \A i, j \in DOMAIN p.ships : i # j => p.ships[i] \cap p.ships[j] = {}
Boards ==
  /\ Afloat(game.human) /\ Afloat(game.ai_player)
  /\ (game.phase = "won") = (game.phase # "place" /\ SHIP_PIECE \notin Range(game.ai_player.arena))
  /\ (game.phase = "lost") = (game.phase # "place" /\ SHIP_PIECE \notin Range(game.human.arena))
=============================================================================
