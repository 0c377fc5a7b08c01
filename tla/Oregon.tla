------------------------------- MODULE Oregon -------------------------------
(***************************************************************************)
(* c/oregon-trail: a journey in turns.  A step is a turn, from one decision   *)
(* of the player to the next; what is drawn and typed in between is chosen,   *)
(* so the functions of the source become sets of outcomes.  Probabilities     *)
(* are left out, and of a number drawn only the least and the greatest count. *)
(***************************************************************************)
EXTENDS Integers, FiniteSets

CONSTANTS TOTAL_DISTANCE, MOUNTAINS, BLUE_MOUNTAINS, \* miles: 2040, 950 and 1700 in the source
          LAST_TURN,                  \* 20
          Purchases,                  \* what may be bought at the start
          Spend,                      \* what may be spent on an item at a fort
          Journeys                    \* per turn, what may come: a set of [riders, event, level]

VARIABLE game

AVAILABLE_MONEY == 700
ILLNESS == "illness"
INJURY == "injury"

(* Outcomes: over is "no" as long as nobody has called exit. *)
Then(outcomes, F(_)) == UNION {IF g.over = "no" THEN F(g) ELSE {g} : g \in outcomes}
Draw(min, max) == {min, max}
Miles(g, n) == [g EXCEPT !.miles = @ + n]
handle_death(g, cause) == [g EXCEPT !.over = cause]

(* init_game, setup_initial_purchases: bought again until the money suffices. *)
Spent(p) == p.oxen + p.food + p.ammo + p.clothing + p.misc
Init ==
  \E p \in Purchases, skill \in {1, 5}, journey \in Journeys :
    /\ p.oxen \in 200 .. 300 /\ Spent(p) <= AVAILABLE_MONEY
    /\ game = [food |-> p.food, bullets |-> p.ammo * 50, clothing |-> p.clothing, misc |-> p.misc,
               cash |-> AVAILABLE_MONEY - Spent(p), oxen |-> p.oxen, miles |-> 0, previous |-> 0,
               turn |-> 0, skill |-> skill, eating |-> 0, flags |-> {}, passes |-> {},
               fort |-> TRUE, journey |-> journey, over |-> "no"]

-----------------------------------------------------------------------------
(* Hunting and illness *)

(* The word is typed right or wrong. *)
shooting_minigame(g) == {IF g.skill > 3 THEN g.skill - 2 ELSE 1, 9}

Bagged(g) == {[g EXCEPT !.food = @ + 52 + f, !.bullets = @ - 10 - b] : f \in Draw(0, 6), b \in Draw(0, 4)}
Missed(g, shot) ==
  LET missed == [g EXCEPT !.bullets = @ - (10 + 3 * shot)]
  IN  {missed} \cup (IF 13 * shot < 100 THEN {[missed EXCEPT !.food = @ + 48 - 2 * shot]} ELSE {})
go_hunting(g) == UNION {IF shot <= 1 THEN Bagged(g) ELSE Missed(g, shot) : shot \in shooting_minigame(g)}

handle_illness(g) ==
  LET ill == {[Miles(g, -5) EXCEPT !.misc = @ - 2],
              [g EXCEPT !.misc = @ - 10, !.flags = @ \cup {ILLNESS}]}
  IN  {IF h.misc < 0 THEN handle_death(h, "disease") ELSE h : h \in ill}

check_eating_and_health(g, level) ==
  LET ate == IF g.food < 8 + 5 * level THEN [g EXCEPT !.food = @ - 13, !.eating = 1]
             ELSE [g EXCEPT !.food = @ - (8 + 5 * level), !.eating = level]
  IN  {ate} \cup handle_illness(ate)


-----------------------------------------------------------------------------
(* Riders *)

Friendly(g) ==
  {[Miles(g, 15) EXCEPT !.oxen = @ - 10], [Miles(g, -5) EXCEPT !.bullets = @ - 100], g, Miles(g, -20)}

Attack(g) ==
  {LET h == [g EXCEPT !.bullets = @ - (shot * 40 + 80)]
   IN  IF shot <= 4 THEN h ELSE [h EXCEPT !.flags = @ \cup {INJURY}] : shot \in shooting_minigame(g)}
Hostile(g) ==
  {[Miles(g, 20) EXCEPT !.misc = @ - 15, !.bullets = @ - 150, !.oxen = @ - 40],
   [g EXCEPT !.bullets = @ - 150, !.misc = @ - 15]}
  \cup Attack(g)
  \cup {[Miles(g, -25) EXCEPT !.bullets = @ - (shot * 30 + 80)] : shot \in shooting_minigame(g)}

(* Nobody comes, or hostile riders pass by, or there is an encounter. *)
check_for_riders(g) ==
  {g} \cup {IF h.bullets < 0 THEN handle_death(h, "massacre") ELSE h : h \in Friendly(g) \cup Hostile(g)}

-----------------------------------------------------------------------------
(* Events, by their place in event_probabilities.  The numbers above the last *)
(* place leave event_index at 0, so the sixteenth event never comes.         *)

BANDITS_ATTACK(g) ==
  {LET h == [g EXCEPT !.bullets = @ - 20 * shot]
   IN  IF h.bullets < 0 THEN [h EXCEPT !.cash = @ \div 3]
       ELSE IF shot <= 1 THEN h
       ELSE [h EXCEPT !.flags = @ \cup {INJURY}, !.misc = @ - 5, !.oxen = @ - 20]
   : shot \in shooting_minigame(g)}

WILD_ANIMALS_ATTACK(g) ==
  IF g.bullets < 40 THEN handle_illness([g EXCEPT !.flags = @ \cup {INJURY}])
  ELSE {[g EXCEPT !.bullets = @ - 20 * shot, !.clothing = @ - 4 * shot, !.food = @ - 8 * shot]
        : shot \in shooting_minigame(g)}

POISONOUS_SNAKE(g) ==
  LET h == [g EXCEPT !.bullets = @ - 10, !.misc = @ - 5]
  IN  IF h.misc < 0 THEN handle_death(h, "snakebite") ELSE h

COLD_WEATHER(g) ==
  IF g.miles <= MOUNTAINS THEN {g}
  ELSE UNION {IF g.clothing > 22 + 4 * n THEN {g} ELSE handle_illness(g) : n \in Draw(1, 4)}

WAGON_BREAKDOWN(g) == {[Miles(g, -(15 + 5 * n)) EXCEPT !.misc = @ - 8] : n \in Draw(1, 5)}
OX_INJURY(g) == {[Miles(g, -25) EXCEPT !.oxen = @ - 20]}
DAUGHTER_BREAKS_ARM(g) ==
  {[Miles(g, -(5 + 4 * n)) EXCEPT !.misc = @ - (2 + 3 * m)] : n \in Draw(1, 4), m \in Draw(1, 3)}
OX_WANDERS_OFF(g) == {Miles(g, -17)}
SON_GETS_LOST(g) == {Miles(g, -10)}
UNSAFE_WATER(g) == {Miles(g, -(10 * n + 2)) : n \in Draw(1, 10)}
HEAVY_RAINS(g) ==
  IF g.miles > MOUNTAINS THEN {g}
  ELSE {[Miles(g, -(10 * n + 5)) EXCEPT !.food = @ - 10, !.bullets = @ - 500, !.misc = @ - 15] : n \in Draw(1, 10)}
FIRE_IN_WAGON(g) ==
  {[Miles(g, -15) EXCEPT !.food = @ - 40, !.bullets = @ - 400, !.misc = @ - (8 * n + 3)] : n \in Draw(1, 8)}
LOSE_WAY_IN_FOG(g) == {Miles(g, -(10 + 5 * n)) : n \in Draw(1, 5)}
WAGON_SWAMPED_FORDING(g) ==
  {[Miles(g, -(20 + 20 * n)) EXCEPT !.food = @ - 30, !.clothing = @ - 20] : n \in Draw(1, 20)}
HAIL_STORM(g) ==
  {[Miles(g, -(5 + 10 * n)) EXCEPT !.bullets = @ - 200, !.misc = @ - (4 + 3 * m)] : n \in Draw(1, 10), m \in Draw(1, 3)}

handle_event(g, event) ==
  CASE event = 0  -> WAGON_BREAKDOWN(g)
    [] event = 1  -> OX_INJURY(g)
    [] event = 2  -> DAUGHTER_BREAKS_ARM(g)
    [] event = 3  -> OX_WANDERS_OFF(g)
    [] event = 4  -> SON_GETS_LOST(g)
    [] event = 5  -> UNSAFE_WATER(g)
    [] event = 6  -> HEAVY_RAINS(g)
    [] event = 7  -> BANDITS_ATTACK(g)
    [] event = 8  -> FIRE_IN_WAGON(g)
    [] event = 9  -> LOSE_WAY_IN_FOG(g)
    [] event = 10 -> {POISONOUS_SNAKE(g)}
    [] event = 11 -> WAGON_SWAMPED_FORDING(g)
    [] event = 12 -> WILD_ANIMALS_ATTACK(g)
    [] event = 13 -> COLD_WEATHER(g)
    [] event = 14 -> HAIL_STORM(g)

-----------------------------------------------------------------------------
(* Mountains *)

Blizzard(g) ==
  UNION {LET h == [Miles(g, -(30 + 40 * n)) EXCEPT !.food = @ - 25, !.misc = @ - 10, !.bullets = @ - 300]
         IN  IF h.clothing < 18 + 2 * m THEN handle_illness(h) ELSE {h} : n \in Draw(1, 40), m \in Draw(1, 2)}
check_mountain_events(g) ==
  Blizzard(g)
  \cup (IF "south" \in g.passes THEN {} ELSE {[g EXCEPT !.passes = @ \cup {"south"}]})
  \cup (IF g.miles < BLUE_MOUNTAINS \/ "blue" \in g.passes THEN {} ELSE {[g EXCEPT !.passes = @ \cup {"blue"}]})

mountain_travel(g) ==
  IF g.miles <= MOUNTAINS THEN {g}
  ELSE {g} \cup Then({Miles(g, -60), Miles(g, -45), Miles(g, -95)}
                     \cup {[Miles(g, -(20 + 30 * n)) EXCEPT !.misc = @ - 5, !.bullets = @ - 200] : n \in Draw(1, 30)},
                     check_mountain_events)

-----------------------------------------------------------------------------
(* A turn *)

(* C division drops the fraction. *)
Quotient(a, b) == IF a < 0 THEN -((-a) \div b) ELSE a \div b
Onward(g) == {Miles(g, 200 + Quotient(g.oxen - 220, 3) + 10 * n) : n \in Draw(1, 10)}
Met(g, day) == LET on == Then(check_eating_and_health(g, day.level), Onward)
               IN  IF day.riders THEN Then(on, check_for_riders) ELSE on
travel_segment(g) ==
  IF g.food < 13 THEN {handle_death(g, "starvation")}
  ELSE UNION {LET process_random_events(h) == handle_event(h, day.event)
              IN  Then(Then(Met(g, day), process_random_events), mountain_travel)
              : day \in g.journey[g.turn]}

(* An amount beyond the cash is an amount of 0. *)
get_purchase_amount(g) == {IF amount > g.cash THEN 0 ELSE amount : amount \in Spend}
visit_fort(g) ==
  LET Paid(h, a) == [h EXCEPT !.cash = @ - a]
      Food(h) == {[Paid(h, a) EXCEPT !.food = @ + (2 * a) \div 3] : a \in get_purchase_amount(h)}
      Ammunition(h) == {[Paid(h, a) EXCEPT !.bullets = @ + 50 * ((2 * a) \div 3)] : a \in get_purchase_amount(h)}
      Clothing(h) == {[Paid(h, a) EXCEPT !.clothing = @ + (2 * a) \div 3] : a \in get_purchase_amount(h)}
      Supplies(h) == {[Paid(h, a) EXCEPT !.misc = @ + (2 * a) \div 3] : a \in get_purchase_amount(h)}
  IN  Then(Then(Then(Food(g), Ammunition), Clothing), Supplies)

(* A hunt without bullets ends the turn. *)
Stop(g) == {Miles(h, -45) : h \in visit_fort(g)}
Hunt(g) == {Miles(h, -45) : h \in go_hunting(g)}
handle_turn_choice(g) ==
  travel_segment(g)
  \cup (IF g.fort THEN Then(Stop(g), travel_segment) ELSE {})
  \cup (IF g.bullets < 40 THEN {g} ELSE Then(Hunt(g), travel_segment))

NonNegative(n) == IF n < 0 THEN 0 ELSE n
validate_resources(g) ==
  [g EXCEPT !.food = NonNegative(@), !.bullets = NonNegative(@), !.clothing = NonNegative(@), !.misc = NonNegative(@)]

(* Mutant: the bill of a wounded and ill family is paid, and stays open. *)
pay_doctor_bill_Open(g) ==
  IF g.flags = {} THEN g
  ELSE IF g.cash < 20 THEN handle_death([g EXCEPT !.cash = 0], "disease")
  ELSE [g EXCEPT !.cash = @ - 20, !.flags = IF ILLNESS \in @ THEN @ \ {ILLNESS} ELSE {}]

pay_doctor_bill(g) ==
  IF g.flags = {} THEN g
  ELSE IF g.cash < 20 THEN handle_death([g EXCEPT !.cash = 0], "disease")
  ELSE [g EXCEPT !.cash = @ - 20, !.flags = {}]

(* process_turn up to the decision, which the state then shows. *)
BeginTurn(g) ==
  pay_doctor_bill(validate_resources([g EXCEPT !.turn = @ + 1, !.previous = g.miles]))

(* main_game_loop *)
Start == game.turn = 0 /\ game' = BeginTurn(game)
process_turn ==
  /\ game.over = "no" /\ game.turn \in DOMAIN game.journey
  /\ \E g \in handle_turn_choice(game) :
       LET end == [g EXCEPT !.fort = ~@]
       IN  game' = CASE g.over # "no" -> g
                     [] g.over = "no" /\ g.miles >= TOTAL_DISTANCE -> [validate_resources(end) EXCEPT !.over = "arrived"]
                     [] g.over = "no" /\ g.miles < TOTAL_DISTANCE /\ g.turn >= LAST_TURN -> handle_death(end, "winter")
                     [] OTHER -> BeginTurn(end)
Next == Start \/ process_turn
Spec == Init /\ [][Next]_game

(* Of any length; a day in it brings what can come. *)
Days(journey) == \A t \in DOMAIN journey : \A day \in journey[t] : day.event \in 0 .. 14 /\ day.level \in Int
ConstantsOK ==
  /\ TOTAL_DISTANCE \in Nat \ {0} /\ MOUNTAINS \in Int /\ BLUE_MOUNTAINS \in Int /\ LAST_TURN \in Nat \ {0}
  /\ \A p \in Purchases : p.oxen \in Nat /\ p.food \in Nat /\ p.ammo \in Nat /\ p.clothing \in Nat /\ p.misc \in Nat
  /\ Spend \subseteq Nat
  /\ \A journey \in Journeys : Days(journey)

-----------------------------------------------------------------------------
(* Whenever the family decides how to go on it owes nothing, its wounds and   *)
(* illness are paid for, and no supply is below zero, whatever the last turn   *)
(* took; it is on its way and winter has not come.  A family that arrives is   *)
(* there before winter too, and shows no supply below zero.                  *)
Supplied == /\ game.food >= 0 /\ game.bullets >= 0 /\ game.clothing >= 0 /\ game.misc >= 0
            /\ game.cash >= 0 /\ game.turn <= LAST_TURN
Decided ==
  /\ game.over = "no" => Supplied /\ game.flags = {} /\ game.miles < TOTAL_DISTANCE
  /\ game.over = "arrived" => Supplied /\ game.miles >= TOTAL_DISTANCE
=============================================================================
