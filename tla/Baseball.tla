------------------------------ MODULE Baseball ------------------------------
(***************************************************************************)
(* c/baseball: two line-ups and a game of innings.  Chance is a choice, texts *)
(* and the random variants they are printed with are left out.               *)
(***************************************************************************)
EXTENDS Integers, Sequences, FiniteSets, Functions

CONSTANTS player_roster,   \* [name, team, j_num, batting_avg]
          Typed,           \* what may be typed for a player: a name, or a number and a team
          TEAM_SIZE, MAX_INNINGS,
          MAXUP, MAXINNINGS  \* bounds: batters in a half inning, innings

VARIABLE game

Tally == [score |-> 0, hits |-> 0, errors |-> 0]
NoHalf == [runs |-> 0, up |-> 0, lost |-> 0]
Clear == {}

(* bases: the occupied ones; side: who bats; half: runs of the half inning,   *)
(* and history: batters that came up, and runners that a play forgot (gone,   *)
(* neither out nor in), less those it put out and left on a base.            *)
Init == game = [phase |-> "visitors", visitors |-> <<>>, home |-> <<>>, inning |-> 1, side |-> "visitors",
                outs |-> 0, bases |-> Clear, current_batter |-> 0, half |-> NoHalf,
                total |-> [side \in {"visitors", "home"} |-> Tally]]

-----------------------------------------------------------------------------
(* Line-ups *)

First(P(_)) == LET is == {i \in DOMAIN player_roster : P(player_roster[i])}
               IN  IF is = {} THEN 0 ELSE CHOOSE i \in is : \A j \in is : i <= j
(* A number of 0 is taken for a name, which nobody has.  What is typed with a   *)
(* hyphen is cut there; no name of the roster has one.                       *)
find_player(typed) ==
  LET Named(p) == p.name = typed.name
      Wears(p) == typed.j_num > 0 /\ p.j_num = typed.j_num /\ p.team = typed.team
  IN  IF typed.name # "" THEN First(Named) ELSE First(Wears)

select_visiting_team(typed) ==
  LET player == find_player(typed)
  IN  /\ game.phase = "visitors" /\ player # 0 /\ player \notin Range(game.visitors)
      /\ game' = [game EXCEPT !.visitors = Append(@, player),
                              !.phase = IF Len(game.visitors) + 1 = TEAM_SIZE THEN "home" ELSE @]

select_home_team ==
  /\ game.phase = "home"
  /\ \E player \in (DOMAIN player_roster) \ (Range(game.visitors) \cup Range(game.home)) :
       game' = [game EXCEPT !.home = Append(@, player),
                            !.phase = IF Len(game.home) + 1 = TEAM_SIZE THEN "play" ELSE @]

-----------------------------------------------------------------------------
(* Plays *)

calculate_runs_scored(g, advance) == Cardinality({b \in g.bases : b + advance > 3})
advance_runners(bases, advance) == {b + advance : b \in {b \in bases : b + advance <= 3}}
Score(g, runs) == [g EXCEPT !.total[g.side].score = @ + runs, !.half.runs = @ + runs]
Out(g, n) == [g EXCEPT !.outs = @ + n]
Lost(g, n) == [g EXCEPT !.half.lost = @ + n]

Hit(g, bases) == [Score(g, calculate_runs_scored(g, bases)) EXCEPT
                    !.bases = advance_runners(@, bases) \cup {bases}, !.total[g.side].hits = @ + 1]
HOME_RUN(g) == [Score(g, 1 + Cardinality(g.bases)) EXCEPT !.bases = Clear, !.total[g.side].hits = @ + 1]
ERROR(g) == [Score(g, calculate_runs_scored(g, 1)) EXCEPT
               !.bases = advance_runners(@, 1) \cup {1}, !.total[g.side].errors = @ + 1]

WALK(g) ==
  IF g.bases = {1, 2, 3} THEN Score(g, 1)
  ELSE [g EXCEPT !.bases = @ \cup {1} \cup (IF {1, 2} \subseteq @ THEN {3} ELSE IF 1 \in @ THEN {2} ELSE {})]

(* Mutant: the runner is put out, the batter is not.                          *)
DOUBLE_PLAY_OneOut(g) == Lost([Out(g, 1) EXCEPT !.bases = Clear], Cardinality(g.bases \ {1}))

(* Double and triple plays clear the bases: of a double play the runners of     *)
(* second and third are forgotten, of a triple play the one of third.          *)
DOUBLE_PLAY(g) == Lost([Out(g, 2) EXCEPT !.bases = Clear], Cardinality(g.bases \ {1}))
TRIPLE_PLAY(g) == Lost([Out(g, 3) EXCEPT !.bases = Clear], Cardinality(g.bases \ {1, 2}))

(* All runners advance and the batter is on first, so nobody who was on first   *)
(* or second is off the bases for the out; one on third just goes.            *)
FIELDERS_CHOICE(g) == Lost([Out(g, 1) EXCEPT !.bases = advance_runners(@, 1) \cup {1}],
                           IF 3 \in g.bases THEN 0 ELSE -1)
SACRIFICE_FLY(g) == Score([Out(g, 1) EXCEPT !.bases = @ \ {3}], IF 3 \in g.bases THEN 1 ELSE 0)

(* determine_play_result and execute_play: one of the plays that the roll may  *)
(* give, for a batter who may or may not fail.                               *)
Plays(g, fails) ==
  {Hit(g, 1), Hit(g, 2), Hit(g, 3), HOME_RUN(g)} \cup
  IF ~fails THEN {}
  ELSE {Out(g, 1), WALK(g), ERROR(g)}
       \cup (IF 1 \in g.bases /\ g.outs < 2 THEN {DOUBLE_PLAY(g)} ELSE {})
       \cup (IF g.bases \cap {2, 3} # {} /\ g.outs < 2 THEN {SACRIFICE_FLY(g)} ELSE {})
       \cup (IF 1 \in g.bases THEN {FIELDERS_CHOICE(g)} ELSE {})
       \cup (IF {1, 2} \subseteq g.bases /\ g.outs = 0 THEN {TRIPLE_PLAY(g)} ELSE {})

(* Stealing, before the at-bat: with runners on first and second the one on    *)
(* second is gone.                                                          *)
Steals(g) ==
  IF 1 \notin g.bases \/ g.outs >= 2 THEN {}
  ELSE {[Out(g, 1) EXCEPT !.bases = @ \ {1}]}
       \cup (IF 2 \notin g.bases THEN {[g EXCEPT !.bases = (@ \ {1}) \cup {2}]} ELSE {})
       \cup (IF 2 \in g.bases /\ 3 \notin g.bases THEN {Lost([g EXCEPT !.bases = @ \ {1}], 1)} ELSE {})

(* A runner caught for the third out ends the at-bat before it begins.       *)
play_at_bat(g, fails) ==
  UNION {IF h.outs >= 3 THEN {h} ELSE Plays([h EXCEPT !.half.up = @ + 1], fails) : h \in {g} \cup Steals(g)}

-----------------------------------------------------------------------------
(* play_game: both teams share current_batter. *)
Batter(g) == player_roster[(IF g.side = "home" THEN g.home ELSE g.visitors)[g.current_batter + 1]]
AtBat ==
  /\ game.phase = "play" /\ game.outs < 3 /\ game.half.up < MAXUP
  /\ \E g \in play_at_bat(game, Batter(game).batting_avg + 50 < 1000) :
       game' = [g EXCEPT !.current_batter = (@ + 1) % TEAM_SIZE]

EndHalf ==
  /\ game.phase = "play" /\ game.outs >= 3 /\ game.inning <= MAXINNINGS
  /\ LET next == [game EXCEPT !.outs = 0, !.bases = Clear, !.half = NoHalf]
         tied == game.total["visitors"].score = game.total["home"].score
     IN  game' = IF game.side = "visitors" THEN [next EXCEPT !.side = "home"]
                 ELSE IF game.inning >= MAX_INNINGS /\ ~tied THEN [game EXCEPT !.phase = "over", !.inning = @ + 1]
                 ELSE [next EXCEPT !.side = "visitors", !.inning = @ + 1]

Next == select_home_team \/ AtBat \/ EndHalf \/ \E typed \in Typed : select_visiting_team(typed)
Spec == Init /\ [][Next]_game

ConstantsOK == MAX_INNINGS \in Nat

-----------------------------------------------------------------------------
(* Every batter who came up in a half inning is out, has scored or stands on a *)
(* base, but for the runners that four branches of the code lose or keep, one   *)
(* by one: a double play forgets those of second and third, a triple play the   *)
(* one of third, a steal of second the one who stood there; after a fielder's   *)
(* choice with third base empty as many runners as before stand on bases       *)
(* although one of them is out.  Every other play accounts for everybody.  No   *)
(* half inning has a fourth out, the game ends only with a winner, and nobody   *)
(* plays twice or for both teams (execute_play, play_at_bat, play_game).      *)
Accounted ==
  LET h == game.half
      there == h.runs + Cardinality(game.bases)
  IN  /\ game.outs <= 3 /\ there <= h.up
      /\ h.up = game.outs + there + h.lost
      /\ game.phase = "over" => /\ game.inning > MAX_INNINGS
                                /\ game.total["visitors"].score # game.total["home"].score
      /\ IsInjective(game.visitors \o game.home)
=============================================================================
