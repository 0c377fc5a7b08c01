-------------------------------- MODULE Games --------------------------------
(***************************************************************************)
(* Four programs of one player, as the machine runs them: whichever is on the *)
(* tape has the memory.  MCSoftware loads the others beside them.             *)
(***************************************************************************)
EXTENDS Integers

CONSTANTS BOARD_SIZE, Lengths, Placements, Shots,                                      \* battleship
          player_roster, Typed, TEAM_SIZE, MAX_INNINGS, MAXUP, MAXINNINGS,             \* baseball
          TOTAL_DISTANCE, MOUNTAINS, BLUE_MOUNTAINS, LAST_TURN, Purchases, Spend, Journeys, \* oregon
          N, BOX, Lines                                                                \* sudoku

VARIABLES tape,   \* the program that is loaded,
          app     \* and its state

Ships == INSTANCE Battleship WITH game <- app
Ball == INSTANCE Baseball WITH game <- app
Trail == INSTANCE Oregon WITH game <- app
Puzzle == INSTANCE Sudoku WITH game <- app

ASSUME GamesConstants ==
  Ships!ConstantsOK /\ Ball!ConstantsOK /\ Trail!ConstantsOK /\ Puzzle!ConstantsOK

GameInit == \/ tape = "battleship" /\ Ships!Init
            \/ tape = "baseball" /\ Ball!Init
            \/ tape = "oregon" /\ Trail!Init
            \/ tape = "sudoku" /\ Puzzle!Init
GameNext == \/ tape = "battleship" /\ Ships!Next
            \/ tape = "baseball" /\ Ball!Next
            \/ tape = "oregon" /\ Trail!Next
            \/ tape = "sudoku" /\ Puzzle!Next
GameSpec == GameInit /\ [][GameNext /\ UNCHANGED tape]_<<tape, app>>

-----------------------------------------------------------------------------
(* The engine fires at no square twice (ai_engine.c). *)
Unspent == tape = "battleship" => Ships!Unspent
(* The boards and the lists of ships agree (player.c, ship.c). *)
Boards == tape = "battleship" => Ships!Boards
(* Every batter of a half inning is accounted for (baseball.c). *)
Accounted == tape = "baseball" => Ball!Accounted
(* A journey ends in one way, and who travels on can (oregon-trail/main.c). *)
Decided == tape = "oregon" => Trail!Decided
(* What is printed is a solution, and one is printed if there is one (c3191). *)
Solved == tape = "sudoku" => Puzzle!Solved
=============================================================================
