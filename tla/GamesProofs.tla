----------------------------- MODULE GamesProofs -----------------------------
(***************************************************************************)
(* Battleship, baseball, Oregon Trail and the sudoku, whatever their data: the *)
(* lists of ships tell what the boards tell and the engine never fires at a    *)
(* square twice; every batter is accounted for; a family that goes on can; and *)
(* the solver finds a solution if there is one.                              *)
(***************************************************************************)
EXTENDS Games, SequenceTheorems, FiniteSetTheorems, TLAPS

(* What the programs count with is what the theorems of the library count with. *)
LEMMA Cardinals ==
  ASSUME NEW S
  PROVE  Ball!Cardinality(S) = Cardinality(S) /\ Ships!Cardinality(S) = Cardinality(S)
  BY DEF Ball!Cardinality, Ships!Cardinality, Cardinality

-----------------------------------------------------------------------------
(* Battleship.  *)

Pieces == {Ships!WATER, Ships!HIT, Ships!MISS, Ships!SHIP_PIECE}
Players == [arena : [Ships!Squares -> Pieces], ships : Seq(SUBSET Ships!Squares)]
Engines == [targets : SUBSET Ships!Squares, hunts : SUBSET Ships!Squares, targets_fired : Seq(Ships!Squares),
            is_targeting : BOOLEAN, previous_shot : Ships!Squares \cup {Ships!NoShot}]
Battles == [phase : {"place", "fire", "answer", "won", "lost"}, human : Players, ai_player : Players,
          ai_engine : Engines]

(* The squares of a board nobody fired at. *)
Open(arena) == {s \in Ships!Squares : arena[s] \in {Ships!WATER, Ships!SHIP_PIECE}}
Stacked(stack, open) == stack \in Seq(Ships!Squares) /\ Ships!Range(stack) \subseteq open /\ Ships!IsInjective(stack)
Aimed(ai, open) ==
  /\ ai.targets = open
  /\ ai.hunts \subseteq open
  /\ Stacked(ai.targets_fired, open)

(* The inductive invariant.  Nobody fires while ships are placed, and the game  *)
(* ends with the last ship of a list.                                        *)
Battle ==
  /\ app \in Battles
  /\ Ships!Afloat(app.human) /\ Ships!Afloat(app.ai_player)
  /\ Aimed(app.ai_engine, Open(app.human.arena))
  /\ app.phase = "place" => app.ai_engine.targets = Ships!Squares
  /\ (app.phase = "won") = (app.phase # "place" /\ app.ai_player.ships = <<>>)
  /\ (app.phase = "lost") = (app.phase # "place" /\ app.human.ships = <<>>)

-----------------------------------------------------------------------------
(* Boards and lists of ships *)

(* A list without its ship i. *)
LEMMA RemoveAtElements ==
  ASSUME NEW S, NEW s \in Seq(S), NEW i \in 1 .. Len(s)
  PROVE  /\ Ships!RemoveAt(s, i) \in Seq(S)
         /\ Len(Ships!RemoveAt(s, i)) = Len(s) - 1
         /\ \A j \in 1 .. Len(s) - 1 : Ships!RemoveAt(s, i)[j] = IF j < i THEN s[j] ELSE s[j + 1]
<1> DEFINE before == SubSeq(s, 1, i - 1)
           after  == SubSeq(s, i + 1, Len(s))
<1>1. Len(s) \in Nat /\ i \in Nat /\ \A j \in 1 .. Len(s) : s[j] \in S
  OBVIOUS
<1>2. before \in Seq(S) /\ Len(before) = i - 1 /\ \A j \in 1 .. i - 1 : before[j] = s[j]
  <2>1. \A j \in 1 .. i - 1 : s[j] \in S
    BY <1>1
  <2>2. QED  BY <1>1, <2>1, SubSeqProperties
<1>3. after \in Seq(S) /\ Len(after) = Len(s) - i /\ \A j \in 1 .. Len(s) - i : after[j] = s[i + j]
  <2>1. \A j \in i + 1 .. Len(s) : s[j] \in S
    BY <1>1
  <2>2. QED  BY <1>1, <2>1, SubSeqProperties
<1> HIDE DEF before, after
<1>4. /\ before \o after \in Seq(S) /\ Len(before \o after) = Len(s) - 1
      /\ \A j \in 1 .. Len(s) - 1 : (before \o after)[j] = IF j < i THEN before[j] ELSE after[j - i + 1]
  <2>1. /\ before \o after \in Seq(S)
        /\ Len(before \o after) = Len(before) + Len(after)
        /\ \A j \in 1 .. Len(before) + Len(after) :
             (before \o after)[j] = IF j <= Len(before) THEN before[j] ELSE after[j - Len(before)]
    BY <1>2, <1>3, ConcatProperties
  <2>2. \A j \in 1 .. Len(s) - 1 : (j <= i - 1) = (j < i) /\ j - (i - 1) = j - i + 1
    BY <1>1
  <2>3. Len(before) + Len(after) = Len(s) - 1
    BY <1>1, <1>2, <1>3
  <2>4. QED  BY <1>2, <2>1, <2>2, <2>3
<1>5. Ships!RemoveAt(s, i) = before \o after
  BY DEF Ships!RemoveAt, before, after
<1>6. ASSUME NEW j \in 1 .. Len(s) - 1
      PROVE  Ships!RemoveAt(s, i)[j] = IF j < i THEN s[j] ELSE s[j + 1]
  <2>1. CASE j < i
    BY <1>1, <1>2, <1>4, <1>5, <2>1
  <2>2. CASE ~(j < i)
    <3>1. j - i + 1 \in 1 .. Len(s) - i /\ i + (j - i + 1) = j + 1
      BY <1>1, <2>2
    <3>2. QED  BY <1>3, <1>4, <1>5, <2>2, <3>1
  <2>3. QED  BY <2>1, <2>2
<1>7. QED  BY <1>4, <1>5, <1>6

(* Lists of ships without a part in common. *)
Disjoint(ships) == \A i, j \in DOMAIN ships : i # j => ships[i] \cap ships[j] = {}

(* A ship placed on water holds the squares it now covers. *)
LEMMA StoreAfloat ==
  ASSUME NEW p \in Players, Ships!Afloat(p), NEW ship \in SUBSET Ships!Squares, ship # {}, ~Ships!is_crossing(p.arena, ship)
  PROVE  /\ Ships!store_ship_placement(p, ship) \in Players
         /\ Ships!Afloat(Ships!store_ship_placement(p, ship))
         /\ Len(Ships!store_ship_placement(p, ship).ships) = Len(p.ships) + 1
<1> DEFINE q == Ships!store_ship_placement(p, ship)
<1>1. q \in Players
  BY DEF Ships!store_ship_placement, Players, Pieces
<1>2. /\ p.ships \in Seq(SUBSET Ships!Squares) /\ q.ships = Append(p.ships, ship)
      /\ q.arena = [s \in Ships!Squares |-> IF s \in ship THEN Ships!SHIP_PIECE ELSE p.arena[s]]
  BY DEF Ships!store_ship_placement, Players
<1>3. /\ DOMAIN q.ships = 1 .. Len(p.ships) + 1 /\ DOMAIN p.ships = 1 .. Len(p.ships)
      /\ Len(p.ships) \in Nat /\ Len(q.ships) = Len(p.ships) + 1
      /\ \A i \in 1 .. Len(p.ships) : q.ships[i] = p.ships[i]
      /\ q.ships[Len(p.ships) + 1] = ship
  BY <1>2
<1>4. Ships!Range(q.ships) = Ships!Range(p.ships) \cup {ship}
  BY <1>3 DEF Ships!Range
<1>5. {s \in Ships!Squares : q.arena[s] = Ships!SHIP_PIECE} = {s \in Ships!Squares : p.arena[s] = Ships!SHIP_PIECE} \cup ship
  BY <1>2
<1>6. ship \cap UNION Ships!Range(p.ships) = {}
  BY DEF Ships!is_crossing, Ships!Afloat
<1>7. \A i \in DOMAIN p.ships : p.ships[i] \subseteq UNION Ships!Range(p.ships)
  BY DEF Ships!Range
<1>8. Disjoint(q.ships)
  <2> SUFFICES ASSUME NEW i \in DOMAIN q.ships, NEW j \in DOMAIN q.ships, i # j
               PROVE  q.ships[i] \cap q.ships[j] = {}
    BY DEF Disjoint
  <2>1. CASE i \in DOMAIN p.ships /\ j \in DOMAIN p.ships
    BY <1>3, <2>1 DEF Ships!Afloat
  <2>2. CASE i = Len(p.ships) + 1
    BY <1>3, <1>6, <1>7, <2>2
  <2>3. CASE j = Len(p.ships) + 1
    BY <1>3, <1>6, <1>7, <2>3
  <2>4. QED  BY <1>3, <2>1, <2>2, <2>3
<1>9. Ships!Afloat(q)
  BY <1>4, <1>5, <1>8 DEF Ships!Afloat, Disjoint
<1>10. QED  BY <1>1, <1>3, <1>9

LEMMA MissAfloat ==
  ASSUME NEW p \in Players, Ships!Afloat(p), NEW s, Ships!is_miss(p, s)
  PROVE  /\ Ships!place_piece(p, s, Ships!MISS) \in Players
         /\ Ships!Afloat(Ships!place_piece(p, s, Ships!MISS))
         /\ Ships!place_piece(p, s, Ships!MISS).ships = p.ships
         /\ s \in Ships!Squares => Ships!place_piece(p, s, Ships!MISS).arena = [p.arena EXCEPT ![s] = Ships!MISS]
<1>1. CASE s \notin Ships!Squares
  BY <1>1 DEF Ships!place_piece
<1>2. CASE s \in Ships!Squares
  <2> DEFINE q == Ships!place_piece(p, s, Ships!MISS)
  <2>1. q = [p EXCEPT !.arena = [p.arena EXCEPT ![s] = Ships!MISS]]
    BY <1>2 DEF Ships!place_piece, Players
  <2>2. q \in Players /\ q.ships = p.ships /\ q.arena = [p.arena EXCEPT ![s] = Ships!MISS]
    BY <2>1 DEF Players, Pieces
  <2>3. {t \in Ships!Squares : q.arena[t] = Ships!SHIP_PIECE} = {t \in Ships!Squares : p.arena[t] = Ships!SHIP_PIECE}
    BY <1>2, <2>2 DEF Ships!is_miss, Players, Ships!WATER, Ships!MISS, Ships!SHIP_PIECE
  <2>4. Ships!Afloat(q)
    BY <2>2, <2>3 DEF Ships!Afloat
  <2>5. QED  BY <2>2, <2>4
<1>3. QED  BY <1>1, <1>2

LEMMA RangeUnion ==
  ASSUME NEW f
  PROVE  /\ \A t : t \in UNION Ships!Range(f) <=> \E i \in DOMAIN f : t \in f[i]
         /\ {} \in Ships!Range(f) <=> \E i \in DOMAIN f : f[i] = {}
  BY DEF Ships!Range

(* A square hit leaves the one ship that held it, and a ship that held no other *)
(* leaves the list.                                                          *)
LEMMA HitAfloat ==
  ASSUME NEW p \in Players, Ships!Afloat(p), NEW s, Ships!is_hit(p, s)
  PROVE  /\ s \in Ships!Squares
         /\ Ships!manage_ship_hit(p, s) \in Players
         /\ Ships!Afloat(Ships!manage_ship_hit(p, s))
         /\ Ships!manage_ship_hit(p, s).arena = [p.arena EXCEPT ![s] = Ships!HIT]
<1> DEFINE q     == Ships!manage_ship_hit(p, s)
           k     == Ships!part_of(p, s)
           ships == Ships!without_part(p, s)
<1>1. s \in Ships!Squares /\ p.arena[s] = Ships!SHIP_PIECE
  BY DEF Ships!is_hit
<1>2. /\ p.ships \in Seq(SUBSET Ships!Squares) /\ p.arena \in [Ships!Squares -> Pieces]
      /\ Len(p.ships) \in Nat /\ DOMAIN p.ships = 1 .. Len(p.ships)
  BY DEF Players
<1>3. /\ k \in DOMAIN p.ships /\ s \in p.ships[k]
      /\ \A i \in DOMAIN p.ships : i # k => s \notin p.ships[i]
  <2>1. \E i \in DOMAIN p.ships : s \in p.ships[i]
    BY <1>1, RangeUnion DEF Ships!Afloat
  <2>2. k \in DOMAIN p.ships /\ s \in p.ships[k]
    BY <2>1 DEF Ships!part_of
  <2>3. QED  BY <2>2 DEF Ships!Afloat
<1>4. /\ q.arena = [p.arena EXCEPT ![s] = Ships!HIT] /\ q.ships = ships
      /\ q = [arena |-> q.arena, ships |-> q.ships]
  <2>1. Ships!place_piece(p, s, Ships!HIT) = [arena |-> [p.arena EXCEPT ![s] = Ships!HIT], ships |-> p.ships]
    BY <1>1 DEF Ships!place_piece, Players
  <2>2. q = [arena |-> [p.arena EXCEPT ![s] = Ships!HIT], ships |-> ships]
    BY <2>1 DEF Ships!manage_ship_hit
  <2>3. QED  BY <2>2
(* The list: its ships are the old ones without s, none of them empty. *)
<1>5. /\ ships \in Seq(SUBSET Ships!Squares)
      /\ \A i \in DOMAIN ships : ships[i] # {} /\ s \notin ships[i]
      /\ \A i \in DOMAIN ships, j \in DOMAIN ships : i # j => ships[i] \cap ships[j] = {}
      /\ \A i \in DOMAIN ships : \E j \in DOMAIN p.ships : ships[i] \subseteq p.ships[j]
      /\ \A j \in DOMAIN p.ships : \A t \in p.ships[j] : t # s => \E i \in DOMAIN ships : t \in ships[i]
  <2>1. CASE p.ships[k] = {s}
    <3> DEFINE old(i) == IF i < k THEN i ELSE i + 1
    <3>1. ships = Ships!RemoveAt(p.ships, k)
      BY <2>1 DEF Ships!without_part
    <3>2. /\ ships \in Seq(SUBSET Ships!Squares) /\ DOMAIN ships = 1 .. Len(p.ships) - 1
          /\ \A i \in DOMAIN ships : ships[i] = p.ships[old(i)]
      <4> k \in 1 .. Len(p.ships)
        BY <1>2, <1>3
      <4>1. /\ Ships!RemoveAt(p.ships, k) \in Seq(SUBSET Ships!Squares)
            /\ Len(Ships!RemoveAt(p.ships, k)) = Len(p.ships) - 1
            /\ \A j \in 1 .. Len(p.ships) - 1 : Ships!RemoveAt(p.ships, k)[j] = IF j < k THEN p.ships[j] ELSE p.ships[j + 1]
        <5> HIDE DEF k
        <5>1. QED  BY <1>2, RemoveAtElements
      <4>2. DOMAIN ships = 1 .. Len(p.ships) - 1
        BY <3>1, <4>1
      <4>3. QED  BY <3>1, <4>1, <4>2
    <3>3. k \in 1 .. Len(p.ships)
      BY <1>2, <1>3
    <3>4. \A i \in DOMAIN ships : old(i) \in DOMAIN p.ships /\ old(i) # k
      BY <1>2, <3>2, <3>3
    <3>5. \A i \in DOMAIN ships, j \in DOMAIN ships : i # j => old(i) # old(j)
      BY <1>2, <3>2, <3>3
    <3>6. ASSUME NEW j \in DOMAIN p.ships, j # k PROVE \E i \in DOMAIN ships : old(i) = j
      <4>1. CASE j < k
        BY <1>2, <3>2, <3>3, <4>1
      <4>2. CASE j > k
        <5>1. j - 1 \in DOMAIN ships /\ old(j - 1) = j
          BY <1>2, <3>2, <3>3, <4>2
        <5>2. QED  BY <5>1
      <4>3. QED  BY <1>2, <3>3, <3>6, <4>1, <4>2
    <3> HIDE DEF old
    <3>7. \A i \in DOMAIN p.ships : p.ships[i] # {}
      BY RangeUnion DEF Ships!Afloat
    <3>8. \A i \in DOMAIN ships : ships[i] # {} /\ s \notin ships[i]
      BY <1>3, <3>2, <3>4, <3>7
    <3>9. \A i \in DOMAIN ships, j \in DOMAIN ships : i # j => ships[i] \cap ships[j] = {}
      BY <3>2, <3>4, <3>5 DEF Ships!Afloat
    <3>10. \A j \in DOMAIN p.ships : \A t \in p.ships[j] : t # s => \E i \in DOMAIN ships : t \in ships[i]
      BY <2>1, <3>2, <3>6
    <3>11. \A i \in DOMAIN ships : \E j \in DOMAIN p.ships : ships[i] \subseteq p.ships[j]
      BY <3>2, <3>4
    <3>12. QED  BY <3>2, <3>8, <3>9, <3>10, <3>11
  <2>2. CASE p.ships[k] # {s}
    <3>1. ships = [p.ships EXCEPT ![k] = p.ships[k] \ {s}]
      BY <1>2, <1>3, <2>2 DEF Ships!without_part, Ships!remove_ship_part
    <3>2. /\ ships \in Seq(SUBSET Ships!Squares) /\ DOMAIN ships = DOMAIN p.ships
          /\ ships[k] = p.ships[k] \ {s}
          /\ \A i \in DOMAIN ships : i # k => ships[i] = p.ships[i]
      BY <1>2, <1>3, <3>1
    <3>3. \A i \in DOMAIN p.ships : p.ships[i] # {}
      BY RangeUnion DEF Ships!Afloat
    <3>4. \A i \in DOMAIN ships : ships[i] # {} /\ s \notin ships[i]
      BY <1>3, <2>2, <3>2, <3>3
    <3>5. \A i \in DOMAIN ships, j \in DOMAIN ships : i # j => ships[i] \cap ships[j] = {}
      BY <3>2 DEF Ships!Afloat
    <3>6. \A i \in DOMAIN ships : \E j \in DOMAIN p.ships : ships[i] \subseteq p.ships[j]
      BY <3>2
    <3>7. \A j \in DOMAIN p.ships : \A t \in p.ships[j] : t # s => \E i \in DOMAIN ships : t \in ships[i]
      BY <3>2
    <3>8. QED  BY <3>2, <3>4, <3>5, <3>6, <3>7
  <2>3. QED  BY <2>1, <2>2
<1> HIDE DEF q, k, ships
<1>6. q \in Players
  BY <1>1, <1>2, <1>4, <1>5 DEF Players, Pieces
<1>7. UNION Ships!Range(ships) = (UNION Ships!Range(p.ships)) \ {s}
  <2>1. ASSUME NEW t PROVE t \in UNION Ships!Range(ships) <=> t \in UNION Ships!Range(p.ships) /\ t # s
    <3>1. t \in UNION Ships!Range(ships) <=> \E i \in DOMAIN ships : t \in ships[i]
      BY RangeUnion
    <3>2. t \in UNION Ships!Range(p.ships) <=> \E i \in DOMAIN p.ships : t \in p.ships[i]
      BY RangeUnion
    <3>3. QED  BY <1>5, <3>1, <3>2
  <2>2. QED  BY <2>1, Zenon
<1>8. {t \in Ships!Squares : q.arena[t] = Ships!SHIP_PIECE} = {t \in Ships!Squares : p.arena[t] = Ships!SHIP_PIECE} \ {s}
  BY <1>1, <1>2, <1>4 DEF Ships!HIT, Ships!SHIP_PIECE
<1>9. {} \notin Ships!Range(ships)
  <2>1. {} \in Ships!Range(ships) <=> \E i \in DOMAIN ships : ships[i] = {}
    BY RangeUnion
  <2>2. QED  BY <1>5, <2>1
<1>10. Ships!Afloat(q)
  BY <1>4, <1>5, <1>7, <1>8, <1>9 DEF Ships!Afloat
<1>11. QED  BY <1>1, <1>4, <1>6, <1>10 DEF q

-----------------------------------------------------------------------------
(* The engine *)

(* Whatever is asked of Push, only an open square that is not yet there is added. *)
LEMMA PushStacked ==
  ASSUME NEW open \in SUBSET Ships!Squares, NEW stack, Stacked(stack, open), NEW s
  PROVE  Stacked(Ships!Push(stack, s, open), open)
<1>1. CASE s \in open /\ s \notin Ships!Range(stack)
  <2>1. Ships!Push(stack, s, open) = Append(stack, s) /\ stack \in Seq(Ships!Squares) /\ s \in Ships!Squares
    BY <1>1 DEF Ships!Push, Stacked
  <2>2. /\ Append(stack, s) \in Seq(Ships!Squares) /\ DOMAIN Append(stack, s) = 1 .. Len(stack) + 1
        /\ Len(stack) \in Nat /\ DOMAIN stack = 1 .. Len(stack)
        /\ \A i \in 1 .. Len(stack) : Append(stack, s)[i] = stack[i]
        /\ Append(stack, s)[Len(stack) + 1] = s
    BY <2>1
  <2>3. \A i \in 1 .. Len(stack) : stack[i] \in open /\ stack[i] # s
    BY <1>1, <2>2 DEF Stacked, Ships!Range
  <2>4. Ships!IsInjective(Append(stack, s))
    BY <2>2, <2>3 DEF Ships!IsInjective, Stacked
  <2>5. Ships!Range(Append(stack, s)) \subseteq open
    BY <1>1, <2>2, <2>3 DEF Ships!Range
  <2>6. QED  BY <2>1, <2>2, <2>4, <2>5 DEF Stacked
<1>2. CASE ~(s \in open /\ s \notin Ships!Range(stack))
  BY <1>2 DEF Ships!Push
<1>3. QED  BY <1>1, <1>2

(* Firing at an open square closes it everywhere. *)
LEMMA SalvoAimed ==
  ASSUME NEW open \in SUBSET Ships!Squares, NEW ai \in Engines, Aimed(ai, open), NEW s \in open,
         s \notin Ships!Range(ai.targets_fired)
  PROVE  /\ Ships!Salvo(ai, s).at = s
         /\ Ships!Salvo(ai, s).ai \in Engines
         /\ Aimed(Ships!Salvo(ai, s).ai, open \ {s})
<1> DEFINE next == [ai EXCEPT !.targets = @ \ {s}, !.hunts = @ \ {s}, !.previous_shot = s]
<1>1. Ships!Salvo(ai, s).at = s /\ Ships!Salvo(ai, s).ai = next
  BY DEF Ships!Salvo
<1>2. /\ next \in Engines /\ next.targets = ai.targets \ {s} /\ next.hunts = ai.hunts \ {s}
      /\ next.targets_fired = ai.targets_fired
  BY DEF Engines
<1>3. Aimed(next, open \ {s})
  BY <1>2 DEF Aimed, Stacked
<1>4. QED  BY <1>1, <1>2, <1>3

(* A shot: it is at an open square, and only that square is spent. *)
Shot(salvo, open) ==
  /\ salvo.at \in open
  /\ salvo.ai \in Engines
  /\ Aimed(salvo.ai, open \ {salvo.at})

LEMMA HuntShot ==
  ASSUME NEW open \in SUBSET Ships!Squares, NEW ai \in Engines, Aimed(ai, open), NEW salvo \in Ships!hunt_squares(ai)
  PROVE  Shot(salvo, open)
<1> DEFINE cleared == [ai EXCEPT !.targets_fired = <<>>]
<1>1. /\ cleared \in Engines /\ cleared.targets = ai.targets /\ cleared.hunts = ai.hunts
      /\ cleared.targets_fired = <<>>
  <2>1. <<>> \in Seq(Ships!Squares)
    OBVIOUS
  <2>2. cleared = [targets |-> ai.targets, hunts |-> ai.hunts, targets_fired |-> <<>>,
                   is_targeting |-> ai.is_targeting, previous_shot |-> ai.previous_shot]
    BY DEF Engines
  <2>3. QED  BY <2>1, <2>2 DEF Engines
<1>2. Ships!Range(cleared.targets_fired) = {} /\ Ships!IsInjective(cleared.targets_fired)
  BY <1>1 DEF Ships!Range, Ships!IsInjective
<1>3. Aimed(cleared, open)
  BY <1>1, <1>2 DEF Aimed, Stacked, Engines
<1>4. PICK s \in IF ai.hunts # {} THEN ai.hunts ELSE ai.targets : salvo = Ships!Salvo(cleared, s)
  BY DEF Ships!hunt_squares
<1>5. s \in open
  BY <1>4 DEF Aimed
<1> HIDE DEF cleared
<1>6. s \notin Ships!Range(cleared.targets_fired)
  BY <1>2
<1>7. /\ Ships!Salvo(cleared, s).at = s /\ Ships!Salvo(cleared, s).ai \in Engines
      /\ Aimed(Ships!Salvo(cleared, s).ai, open \ {s})
  BY <1>1, <1>3, <1>5, <1>6, SalvoAimed
<1>8. QED  BY <1>4, <1>5, <1>7 DEF Shot

LEMMA PopShot ==
  ASSUME NEW open \in SUBSET Ships!Squares, NEW ai \in Engines, Aimed(ai, open),
         NEW stack, Stacked(stack, open), NEW salvo \in Ships!Pop(ai, stack)
  PROVE  Shot(salvo, open)
<1>1. CASE stack = <<>>
  BY <1>1, HuntShot DEF Ships!Pop
<1>2. CASE stack # <<>>
  <2> DEFINE rest == [ai EXCEPT !.targets_fired = Ships!Front(stack)]
             s == Ships!Last(stack)
  <2>1. salvo = Ships!Salvo(rest, s)
    BY <1>2 DEF Ships!Pop
  <2>2. stack \in Seq(Ships!Squares) /\ Len(stack) \in Nat \ {0} /\ DOMAIN stack = 1 .. Len(stack)
    BY <1>2 DEF Stacked
  <2>3. /\ Ships!Front(stack) \in Seq(Ships!Squares) /\ DOMAIN Ships!Front(stack) = 1 .. Len(stack) - 1
        /\ \A i \in 1 .. Len(stack) - 1 : Ships!Front(stack)[i] = stack[i]
    BY <2>2 DEF Ships!Front
  <2>4. s = stack[Len(stack)] /\ \A i \in 1 .. Len(stack) : stack[i] \in open
    BY <2>2 DEF Ships!Last, Stacked, Ships!Range
  <2>5. s \in open /\ s \notin Ships!Range(Ships!Front(stack)) /\ Stacked(Ships!Front(stack), open)
    BY <2>2, <2>3, <2>4 DEF Stacked, Ships!Range, Ships!IsInjective
  <2>6. /\ rest \in Engines /\ rest.targets = ai.targets /\ rest.hunts = ai.hunts
        /\ rest.targets_fired = Ships!Front(stack)
    BY <2>3 DEF Engines
  <2>7. Aimed(rest, open)
    BY <2>5, <2>6 DEF Aimed
  <2> HIDE DEF rest, s
  <2>8. s \notin Ships!Range(rest.targets_fired)
    BY <2>5, <2>6
  <2>9. Ships!Salvo(rest, s).at = s /\ Ships!Salvo(rest, s).ai \in Engines /\ Aimed(Ships!Salvo(rest, s).ai, open \ {s})
    BY <2>5, <2>6, <2>7, <2>8, SalvoAimed
  <2>10. QED  BY <2>1, <2>5, <2>9 DEF Shot
<1>3. QED  BY <1>1, <1>2

LEMMA FireShot ==
  ASSUME NEW open \in SUBSET Ships!Squares, NEW ai \in Engines, Aimed(ai, open), NEW salvo \in Ships!ai_fire_salvo(ai)
  PROVE  Shot(salvo, open)
<1>1. CASE ~ai.is_targeting
  BY <1>1, HuntShot DEF Ships!ai_fire_salvo
<1>2. CASE ai.is_targeting
  <2>1. PICK start \in Ships!encode_coord(ai.previous_shot) : salvo \in Ships!target_ship(ai, start)
    BY <1>2 DEF Ships!ai_fire_salvo
  <2>2. Stacked(ai.targets_fired, open) /\ ai.targets = open
    BY DEF Aimed
  <2>3. Stacked(Ships!Aim(ai.targets_fired, start, open), open)
    BY <2>2, PushStacked DEF Ships!Aim
  <2>4. QED  BY <2>1, <2>2, <2>3, PopShot DEF Ships!target_ship
<1>3. QED  BY <1>1, <1>2

-----------------------------------------------------------------------------
(* The steps *)

LEMMA BattleBegins == ASSUME Ships!ConstantsOK, Ships!Init PROVE Battle
<1>1. Ships!Squares \subseteq Nat
  BY DEF Ships!Squares, Ships!ConstantsOK
<1>2. Ships!create_targets.hunts \subseteq Ships!Squares
  <2> SUFFICES ASSUME NEW s \in Ships!Squares, s % 2 = 1 PROVE s - 1 \in Ships!Squares
    BY DEF Ships!create_targets
  <2>1. s \in Nat /\ s # 0
    BY <1>1
  <2>2. s - 1 \in Nat /\ s - 1 <= s
    BY <2>1
  <2>3. BOARD_SIZE * BOARD_SIZE \in Int
    BY DEF Ships!ConstantsOK
  <2>4. QED  BY <2>1, <2>2, <2>3 DEF Ships!Squares
<1>3. /\ app.phase = "place" /\ app.human = Ships!init_player /\ app.ai_player = Ships!init_player
      /\ app.ai_engine = Ships!init_intermediate_ai
  BY DEF Ships!Init
<1>4. <<>> \in Seq(Ships!Squares) /\ <<>> \in Seq(SUBSET Ships!Squares)
  OBVIOUS
<1>5. Ships!init_player \in Players /\ Ships!init_intermediate_ai \in Engines
  BY <1>2, <1>4 DEF Ships!init_player, Ships!init_battlefield, Players, Pieces, Ships!init_intermediate_ai, Ships!create_targets, Engines
<1>6. app \in Battles
  BY <1>5 DEF Ships!Init, Battles
<1>7. Ships!Range(<<>>) = {} /\ Ships!IsInjective(<<>>)
  BY DEF Ships!Range, Ships!IsInjective
<1>8. Ships!Afloat(Ships!init_player)
  BY <1>7 DEF Ships!init_player, Ships!init_battlefield, Ships!Afloat, Ships!WATER, Ships!SHIP_PIECE
<1>9. Open(Ships!init_player.arena) = Ships!Squares
  BY DEF Open, Ships!init_player, Ships!init_battlefield
<1>10. Aimed(Ships!init_intermediate_ai, Ships!Squares) /\ Ships!init_intermediate_ai.targets = Ships!Squares
  BY <1>2, <1>4, <1>7 DEF Aimed, Stacked, Ships!init_intermediate_ai, Ships!create_targets
<1>11. QED
  BY <1>3, <1>6, <1>8, <1>9, <1>10 DEF Battle

(* A ship that may be placed covers squares. *)
LEMMA ShipCovers ==
  ASSUME Ships!ConstantsOK, NEW p \in Players, Len(p.ships) < Len(Lengths), NEW a, NEW b,
         Ships!is_correct_coordinates(p.arena, a, b, Lengths[Len(p.ships) + 1])
  PROVE  /\ Ships!Segment(a, b) \in SUBSET Ships!Squares
         /\ Ships!Segment(a, b) # {}
         /\ ~Ships!is_crossing(p.arena, Ships!Segment(a, b))
<1>1. Lengths[Len(p.ships) + 1] \in Nat \ {0}
  BY DEF Ships!ConstantsOK, Players
<1>2. Cardinality(Ships!Segment(a, b)) # 0
  BY <1>1, Cardinals DEF Ships!is_correct_coordinates
<1>3. Ships!Segment(a, b) # {}
  BY <1>2, FS_EmptySet
<1>4. QED  BY <1>3 DEF Ships!Segment, Ships!is_correct_coordinates

(* Placing opens no square and closes none. *)
LEMMA StoreOpen ==
  ASSUME NEW p \in Players, NEW ship \in SUBSET Ships!Squares, Open(p.arena) = Ships!Squares
  PROVE  Open(Ships!store_ship_placement(p, ship).arena) = Ships!Squares
  BY DEF Open, Ships!store_ship_placement

LEMMA PlaceShipStep == ASSUME Ships!ConstantsOK, Battle, NEW typed, Ships!PlaceShip(typed) PROVE Battle'
<1> DEFINE p == app.human
<1>1. app.phase = "place" /\ p \in Players /\ Len(p.ships) < Len(Lengths)
  BY DEF Ships!PlaceShip, Battle, Battles
<1>2. PICK a, b : /\ Ships!is_correct_coordinates(p.arena, a, b, Lengths[Len(p.ships) + 1])
                  /\ app' = [app EXCEPT !.human = Ships!store_ship_placement(p, Ships!Segment(a, b))]
  BY DEF Ships!PlaceShip
<1> DEFINE q == Ships!store_ship_placement(p, Ships!Segment(a, b))
<1>3. q \in Players /\ Ships!Afloat(q) /\ Len(q.ships) = Len(p.ships) + 1
  BY <1>1, <1>2, ShipCovers, StoreAfloat DEF Battle
<1>4. Open(p.arena) = Ships!Squares
  BY <1>1 DEF Battle, Aimed
<1>5. Open(q.arena) = Ships!Squares
  BY <1>1, <1>2, <1>4, ShipCovers, StoreOpen
<1> HIDE DEF q
<1>6. /\ app' \in Battles /\ app'.phase = "place" /\ app'.human = q /\ app'.ai_player = app.ai_player
      /\ app'.ai_engine = app.ai_engine
  BY <1>1, <1>2, <1>3 DEF q, Battle, Battles
<1>7. QED  BY <1>1, <1>3, <1>4, <1>5, <1>6 DEF Battle

LEMMA AiPlaceShipStep == ASSUME Ships!ConstantsOK, Battle, Ships!ai_place_ship PROVE Battle'
<1> DEFINE p == app.ai_player
<1>1. /\ app.phase = "place" /\ p \in Players /\ Len(p.ships) < Len(Lengths)
      /\ Len(app.human.ships) = Len(Lengths)
  BY DEF Ships!ai_place_ship, Battle, Battles
<1>2. PICK a, b : /\ Ships!is_correct_coordinates(p.arena, a, b, Lengths[Len(p.ships) + 1])
                  /\ app' = [app EXCEPT !.ai_player = Ships!store_ship_placement(p, Ships!Segment(a, b)),
                                          !.phase = IF Len(Ships!store_ship_placement(p, Ships!Segment(a, b)).ships) = Len(Lengths)
                                                    THEN "fire" ELSE @]
  BY DEF Ships!ai_place_ship
<1> DEFINE q == Ships!store_ship_placement(p, Ships!Segment(a, b))
<1>3. q \in Players /\ Ships!Afloat(q) /\ Len(q.ships) = Len(p.ships) + 1
  BY <1>1, <1>2, ShipCovers, StoreAfloat DEF Battle
<1> HIDE DEF q
<1>4. /\ app' \in Battles /\ app'.phase \in {"place", "fire"} /\ app'.human = app.human /\ app'.ai_player = q
      /\ app'.ai_engine = app.ai_engine
  BY <1>1, <1>2, <1>3 DEF q, Battle, Battles
<1>5. q.ships # <<>> /\ app.human.ships # <<>>
  <2>1. Len(p.ships) \in Nat /\ Len(<<>>) = 0
    BY <1>1 DEF Players
  <2>2. QED  BY <1>1, <1>3, <2>1
<1>6. QED  BY <1>1, <1>3, <1>4, <1>5 DEF Battle

(* What a shot at a board may leave of its player. *)
LEMMA ShotAt ==
  ASSUME NEW p \in Players, Ships!Afloat(p), NEW s
  PROVE  /\ Ships!is_hit(p, s) => /\ s \in Ships!Squares
                                  /\ Ships!manage_ship_hit(p, s) \in Players /\ Ships!Afloat(Ships!manage_ship_hit(p, s))
                                  /\ Open(Ships!manage_ship_hit(p, s).arena) = Open(p.arena) \ {s}
         /\ Ships!is_miss(p, s) => /\ Ships!place_piece(p, s, Ships!MISS) \in Players /\ Ships!Afloat(Ships!place_piece(p, s, Ships!MISS))
                                   /\ Ships!place_piece(p, s, Ships!MISS).ships = p.ships
                                   /\ s \in Ships!Squares => Open(Ships!place_piece(p, s, Ships!MISS).arena) = Open(p.arena) \ {s}
<1>1. CASE Ships!is_hit(p, s)
  <2>1. /\ s \in Ships!Squares /\ Ships!manage_ship_hit(p, s) \in Players /\ Ships!Afloat(Ships!manage_ship_hit(p, s))
        /\ Ships!manage_ship_hit(p, s).arena = [p.arena EXCEPT ![s] = Ships!HIT]
    BY <1>1, HitAfloat
  <2>2. Open(Ships!manage_ship_hit(p, s).arena) = Open(p.arena) \ {s}
    BY <2>1 DEF Open, Players, Ships!HIT, Ships!WATER, Ships!SHIP_PIECE
  <2>3. ~Ships!is_miss(p, s)
    BY <1>1 DEF Ships!is_hit, Ships!is_miss, Ships!WATER, Ships!SHIP_PIECE
  <2>4. QED  BY <2>1, <2>2, <2>3
<1>2. CASE Ships!is_miss(p, s)
  <2>1. /\ Ships!place_piece(p, s, Ships!MISS) \in Players /\ Ships!Afloat(Ships!place_piece(p, s, Ships!MISS))
        /\ Ships!place_piece(p, s, Ships!MISS).ships = p.ships
        /\ s \in Ships!Squares => Ships!place_piece(p, s, Ships!MISS).arena = [p.arena EXCEPT ![s] = Ships!MISS]
    BY <1>2, MissAfloat
  <2>2. s \in Ships!Squares => Open(Ships!place_piece(p, s, Ships!MISS).arena) = Open(p.arena) \ {s}
    BY <2>1 DEF Open, Players, Ships!MISS, Ships!WATER, Ships!SHIP_PIECE
  <2>3. ~Ships!is_hit(p, s)
    BY <1>2 DEF Ships!is_hit, Ships!is_miss, Ships!WATER, Ships!SHIP_PIECE
  <2>4. QED  BY <2>1, <2>2, <2>3
<1>3. QED  BY <1>1, <1>2

LEMMA FireStep == ASSUME Battle, NEW s, Ships!Fire(s) PROVE Battle'
<1> DEFINE p == app.ai_player
           q == IF Ships!is_hit(p, s) THEN Ships!manage_ship_hit(p, s) ELSE IF Ships!is_miss(p, s) THEN Ships!place_piece(p, s, Ships!MISS) ELSE p
<1>1. app.phase = "fire" /\ p \in Players /\ Ships!Afloat(p) /\ app \in Battles /\ app.human.ships # <<>>
  BY DEF Ships!Fire, Battle, Battles
<1>2. q \in Players /\ Ships!Afloat(q)
  BY <1>1, ShotAt
<1>3. PICK aiming \in BOOLEAN :
        app' = [app EXCEPT !.ai_player = q, !.ai_engine.is_targeting = aiming,
                             !.phase = IF Ships!is_navy_sunken(q) THEN "won" ELSE "answer"]
  <2>1. CASE Ships!is_hit(p, s)
    BY <1>1, <2>1 DEF Ships!Fire, Ships!ai_manage_ship_hit, Battles
  <2>2. CASE ~Ships!is_hit(p, s)
    <3>1. app' = [app EXCEPT !.ai_player = q, !.phase = IF Ships!is_navy_sunken(q) THEN "won" ELSE "answer"]
      BY <1>1, <2>2 DEF Ships!Fire, Battles
    <3>2. app.ai_engine.is_targeting \in BOOLEAN
      BY <1>1 DEF Battles, Engines
    <3>3. app.ai_engine = [app.ai_engine EXCEPT !.is_targeting = app.ai_engine.is_targeting]
      BY <1>1 DEF Battles, Engines
    <3>4. QED  BY <1>1, <3>1, <3>2, <3>3 DEF Battles
  <2>3. QED  BY <2>1, <2>2
<1> HIDE DEF q
<1> DEFINE ai == [app.ai_engine EXCEPT !.is_targeting = aiming]
<1>4. /\ ai \in Engines /\ ai.targets = app.ai_engine.targets /\ ai.hunts = app.ai_engine.hunts
      /\ ai.targets_fired = app.ai_engine.targets_fired
  BY <1>1 DEF Battles, Engines
<1>5. /\ app'.phase = IF q.ships = <<>> THEN "won" ELSE "answer"
      /\ app'.human = app.human /\ app'.ai_player = q /\ app'.ai_engine = ai
      /\ app' = [phase |-> app'.phase, human |-> app.human, ai_player |-> q, ai_engine |-> ai]
  BY <1>1, <1>3 DEF Battles, Ships!is_navy_sunken
<1> HIDE DEF ai
<1>6. app' \in Battles
  BY <1>1, <1>2, <1>4, <1>5 DEF Battles
<1>7. Aimed(ai, Open(app.human.arena))
  BY <1>4 DEF Battle, Aimed
<1>8. Ships!Afloat(app.human)
  BY DEF Battle
<1>9. QED  BY <1>1, <1>2, <1>5, <1>6, <1>7, <1>8 DEF Battle

LEMMA AnswerStep == ASSUME Battle, Ships!Answer PROVE Battle'
<1> DEFINE p == app.human
           open == Open(p.arena)
<1>1. app.phase = "answer" /\ p \in Players /\ Ships!Afloat(p) /\ app \in Battles /\ app.ai_player.ships # <<>>
      /\ app.ai_engine \in Engines /\ Aimed(app.ai_engine, open)
  BY DEF Ships!Answer, Battle, Battles
<1>2. PICK salvo \in Ships!ai_fire_salvo(app.ai_engine) :
        LET q == IF Ships!is_hit(p, salvo.at) THEN Ships!manage_ship_hit(p, salvo.at)
                 ELSE IF Ships!is_miss(p, salvo.at) THEN Ships!place_piece(p, salvo.at, Ships!MISS)
                 ELSE p
        IN  app' = [app EXCEPT !.human = q, !.ai_engine = salvo.ai,
                                 !.phase = IF Ships!is_navy_sunken(q) THEN "lost" ELSE "fire"]
  BY DEF Ships!Answer
<1> DEFINE q == IF Ships!is_hit(p, salvo.at) THEN Ships!manage_ship_hit(p, salvo.at)
                ELSE IF Ships!is_miss(p, salvo.at) THEN Ships!place_piece(p, salvo.at, Ships!MISS)
                ELSE p
<1>3. open \in SUBSET Ships!Squares
  BY DEF Open
<1>4. Shot(salvo, open)
  BY <1>1, <1>3, FireShot
<1>5. salvo.at \in Ships!Squares /\ (Ships!is_hit(p, salvo.at) \/ Ships!is_miss(p, salvo.at))
  BY <1>4 DEF Shot, Open, Ships!is_hit, Ships!is_miss
<1>6. q \in Players /\ Ships!Afloat(q) /\ Open(q.arena) = open \ {salvo.at}
  BY <1>1, <1>5, ShotAt
<1>7. app' = [app EXCEPT !.human = q, !.ai_engine = salvo.ai,
                           !.phase = IF Ships!is_navy_sunken(q) THEN "lost" ELSE "fire"]
  BY <1>2
<1> HIDE DEF q, open
<1>8. /\ app'.phase = IF q.ships = <<>> THEN "lost" ELSE "fire"
      /\ app'.human = q /\ app'.ai_player = app.ai_player /\ app'.ai_engine = salvo.ai
      /\ app' = [phase |-> app'.phase, human |-> q, ai_player |-> app.ai_player, ai_engine |-> salvo.ai]
  BY <1>1, <1>7 DEF Battles, Ships!is_navy_sunken
<1>9. salvo.ai \in Engines /\ Aimed(salvo.ai, Open(q.arena))
  BY <1>4, <1>6 DEF Shot
<1>10. app' \in Battles
  BY <1>1, <1>6, <1>8, <1>9 DEF Battles
<1>11. Ships!Afloat(app.ai_player)
  BY DEF Battle
<1>12. QED  BY <1>1, <1>6, <1>8, <1>9, <1>10, <1>11 DEF Battle

LEMMA BattleGoesOn == ASSUME Ships!ConstantsOK, Battle, [Ships!Next]_app PROVE Battle'
<1>1. CASE UNCHANGED app
  BY <1>1 DEF Battle
<1>2. QED
  BY <1>1, PlaceShipStep, AiPlaceShipStep, FireStep, AnswerStep DEF Ships!Next

(* A navy has a piece on its board as long as it has a ship in its list. *)
LEMMA PiecesAndShips ==
  ASSUME NEW p \in Players, Ships!Afloat(p)
  PROVE  p.ships = <<>> <=> Ships!SHIP_PIECE \notin Ships!Range(p.arena)
<1>1. Ships!SHIP_PIECE \in Ships!Range(p.arena) <=> {s \in Ships!Squares : p.arena[s] = Ships!SHIP_PIECE} # {}
  BY DEF Ships!Range, Players
<1>2. CASE p.ships = <<>>
  <2>1. UNION Ships!Range(p.ships) = {}
    BY <1>2 DEF Ships!Range
  <2>2. QED  BY <1>1, <1>2, <2>1 DEF Ships!Afloat
<1>3. CASE p.ships # <<>>
  <2>1. Len(p.ships) \in Nat \ {0} /\ DOMAIN p.ships = 1 .. Len(p.ships)
    BY <1>3 DEF Players
  <2>2. p.ships[1] # {} /\ p.ships[1] \subseteq UNION Ships!Range(p.ships)
    BY <2>1 DEF Ships!Afloat, Ships!Range
  <2>3. QED  BY <1>1, <1>3, <2>2 DEF Ships!Afloat
<1>4. QED  BY <1>2, <1>3

LEMMA BattleTells == ASSUME Battle PROVE Ships!Unspent /\ Ships!Boards
<1>1. Ships!Unspent
  <2>1. ASSUME app.phase \in {"fire", "answer"} PROVE app.ai_engine.targets # {}
    <3>1. app.human \in Players /\ Ships!Afloat(app.human) /\ app.human.ships # <<>>
      BY <2>1 DEF Battle, Battles
    <3>2. Ships!SHIP_PIECE \in Ships!Range(app.human.arena)
      BY <3>1, PiecesAndShips
    <3>3. Open(app.human.arena) # {}
      BY <3>1, <3>2 DEF Open, Ships!Range, Players
    <3>4. QED  BY <3>3 DEF Battle, Aimed
  <2>2. QED  BY <2>1 DEF Battle, Aimed, Stacked, Open, Ships!Unspent
<1>2. Ships!Boards
  <2>1. /\ app.human \in Players /\ Ships!Afloat(app.human)
        /\ app.ai_player \in Players /\ Ships!Afloat(app.ai_player)
    BY DEF Battle, Battles
  <2>2. QED  BY <2>1, PiecesAndShips DEF Battle, Ships!Boards
<1>3. QED  BY <1>1, <1>2

(* While battleship is loaded. *)
LEMMA BattleKept == GameSpec => [](tape = "battleship" => Battle)
<1> DEFINE Held == tape = "battleship" => Battle
<1>1. GameInit => Held
  BY GamesConstants, BattleBegins DEF GameInit
<1>2. Held /\ [GameNext /\ UNCHANGED tape]_<<tape, app>> => Held'
  <2> SUFFICES ASSUME Held, [GameNext /\ UNCHANGED tape]_<<tape, app>>, tape' = "battleship"
               PROVE  Battle'
    OBVIOUS
  <2>1. Battle /\ [Ships!Next]_app
    BY DEF GameNext
  <2>2. QED  BY <2>1, GamesConstants, BattleGoesOn
<1>3. QED  BY <1>1, <1>2, PTL DEF GameSpec

(* On a board of any size the engine fires at no square twice and never runs   *)
(* out of squares: its three lists of squares agree with the other board       *)
(* (ai_engine.c).                                                            *)
THEOREM NeverTwice == GameSpec => []Unspent
<1>1. (tape = "battleship" => Battle) => Unspent
  BY BattleTells DEF Unspent
<1>2. QED  BY <1>1, BattleKept, PTL

(* On a board of any size the lists of ships tell what the boards tell, and the *)
(* game is over when a navy has no piece left on its board (player.c, ship.c). *)
THEOREM BoardsAgree == GameSpec => []Boards
<1>1. (tape = "battleship" => Battle) => Boards
  BY BattleTells DEF Boards
<1>2. QED  BY <1>1, BattleKept, PTL

-----------------------------------------------------------------------------
(* Baseball.  *)

(* What a game is made of. *)
IsGame(g) ==
  /\ DOMAIN g = {"phase", "visitors", "home", "inning", "side", "outs", "bases", "current_batter", "half", "total"}
  /\ DOMAIN g.half = {"runs", "up", "lost"}
Counts(g) == g.outs \in Int /\ g.bases \in SUBSET {1, 2, 3} /\ g.half.runs \in Int /\ g.half.up \in Int /\ g.half.lost \in Int

(* Where the batters of the half inning are. *)
Balanced(g) ==
  LET there == g.half.runs + Ball!Cardinality(g.bases)
  IN  /\ g.outs <= 3 /\ there <= g.half.up
      /\ g.half.up = g.outs + there + g.half.lost

(* A play that one batter comes up for: up is counted before it begins. *)
Owes(g) ==
  LET there == g.half.runs + Ball!Cardinality(g.bases)
  IN  /\ g.outs < 3 /\ there + 1 <= g.half.up
      /\ g.half.up = g.outs + there + g.half.lost + 1

(* What a play leaves alone, and what it does with the half inning. *)
Frame(g, h) == h.phase = g.phase /\ h.visitors = g.visitors /\ h.home = g.home /\ h.inning = g.inning
With(g, h, o, b, r, l) ==
  IsGame(h) /\ Frame(g, h) /\ h.outs = o /\ h.bases = b /\ h.half.runs = r /\ h.half.up = g.half.up /\ h.half.lost = l

-----------------------------------------------------------------------------
(* Runners *)

On(b, bases) == IF b \in bases THEN 1 ELSE 0

LEMMA Runners ==
  ASSUME NEW B \in SUBSET {1, 2, 3}
  PROVE  Ball!Cardinality(B) = On(1, B) + On(2, B) + On(3, B) /\ Ball!Cardinality(B) \in 0 .. 3
<1> DEFINE B1 == IF 1 \in B THEN {} \cup {1} ELSE {}
           B2 == IF 2 \in B THEN B1 \cup {2} ELSE B1
           B3 == IF 3 \in B THEN B2 \cup {3} ELSE B2
<1>1. B = B3
  OBVIOUS
<1>2. IsFiniteSet({}) /\ Cardinality({}) = 0
  BY FS_EmptySet
<1>3. IsFiniteSet(B1) /\ Cardinality(B1) = On(1, B) /\ B1 \subseteq {1}
  BY <1>2, FS_AddElement DEF On
<1>4. IsFiniteSet(B2) /\ Cardinality(B2) = On(1, B) + On(2, B) /\ B2 \subseteq {1, 2}
  <2>1. 2 \notin B1
    BY <1>3
  <2> HIDE DEF B1
  <2>2. QED  BY <1>3, <2>1, FS_AddElement DEF On
<1>5. IsFiniteSet(B3) /\ Cardinality(B3) = On(1, B) + On(2, B) + On(3, B)
  <2>1. 3 \notin B2
    BY <1>4
  <2> HIDE DEF B2
  <2>2. QED  BY <1>4, <2>1, FS_AddElement DEF On
<1> HIDE DEF B3
<1>6. QED  BY <1>1, <1>5, Cardinals DEF On

LEMMA NoRunners == Ball!Cardinality({}) = 0
  BY FS_EmptySet, Cardinals

(* With an advance of n, those who do not come in stay on higher bases than n. *)
LEMMA Advance ==
  ASSUME NEW g, g.bases \in SUBSET {1, 2, 3}, NEW n \in 1 .. 3
  PROVE  /\ Ball!advance_runners(g.bases, n) \cup {n} \in SUBSET {1, 2, 3}
         /\ Ball!calculate_runs_scored(g, n) \in Int
         /\ Ball!calculate_runs_scored(g, n) + Ball!Cardinality(Ball!advance_runners(g.bases, n) \cup {n}) = Ball!Cardinality(g.bases) + 1
         /\ Ball!Cardinality(Ball!advance_runners(g.bases, n) \cup {n}) <= Ball!Cardinality(g.bases) + 1
<1> DEFINE B == g.bases
           in == {b \in B : b + n > 3}
           A == Ball!advance_runners(B, n) \cup {n}
<1>1. B \in SUBSET {1, 2, 3}
  OBVIOUS
<1>2. in \in SUBSET {1, 2, 3} /\ A \in SUBSET {1, 2, 3}
  BY <1>1 DEF Ball!advance_runners
<1>3. /\ On(1, in) = IF 1 \in B /\ 1 + n > 3 THEN 1 ELSE 0
      /\ On(2, in) = IF 2 \in B /\ 2 + n > 3 THEN 1 ELSE 0
      /\ On(3, in) = IF 3 \in B THEN 1 ELSE 0
  BY DEF On
<1>4. /\ n = 1 => On(1, A) = 1 /\ On(2, A) = On(1, B) /\ On(3, A) = On(2, B)
      /\ n = 2 => On(1, A) = 0 /\ On(2, A) = 1 /\ On(3, A) = On(1, B)
      /\ n = 3 => On(1, A) = 0 /\ On(2, A) = 0 /\ On(3, A) = 1
  BY <1>1 DEF On, Ball!advance_runners
<1> HIDE DEF B, in, A
<1>5. /\ Ball!Cardinality(B) = On(1, B) + On(2, B) + On(3, B)
      /\ Ball!Cardinality(in) = On(1, in) + On(2, in) + On(3, in) /\ Ball!Cardinality(in) \in 0 .. 3
      /\ Ball!Cardinality(A) = On(1, A) + On(2, A) + On(3, A)
  BY <1>1, <1>2, Runners
<1>6. Ball!Cardinality(in) + Ball!Cardinality(A) = Ball!Cardinality(B) + 1 /\ Ball!Cardinality(A) <= Ball!Cardinality(B) + 1
  BY <1>3, <1>4, <1>5 DEF On
<1>7. Ball!calculate_runs_scored(g, n) = Ball!Cardinality(in)
  BY DEF Ball!calculate_runs_scored, in, B
<1>8. QED  BY <1>2, <1>5, <1>6, <1>7 DEF A, B
-----------------------------------------------------------------------------
(* Plays *)

Ready(g) == IsGame(g) /\ Counts(g) /\ Owes(g)
Done(g, h) == IsGame(h) /\ Counts(h) /\ Frame(g, h) /\ Balanced(h)

(* A play settles the batter's account: one more is out, in, on a base or lost. *)
LEMMA Settles ==
  ASSUME NEW g, Ready(g), NEW h, NEW o \in Int, NEW b \in SUBSET {1, 2, 3}, NEW r \in Int, NEW l \in Int,
         With(g, h, o, b, r, l), o <= 3, r + Ball!Cardinality(b) <= g.half.runs + Ball!Cardinality(g.bases) + 1,
         o + r + Ball!Cardinality(b) + l = g.outs + g.half.runs + Ball!Cardinality(g.bases) + g.half.lost + 1
  PROVE  Done(g, h)
<1>1. Ball!Cardinality(b) \in Int /\ Ball!Cardinality(g.bases) \in Int
  BY Runners DEF Ready, Counts
<1>2. Counts(h) /\ IsGame(h) /\ Frame(g, h)
  BY DEF Ready, Counts, With
<1>3. Balanced(h)
  BY <1>1 DEF Ready, Counts, Owes, With, Balanced
<1>4. QED  BY <1>2, <1>3 DEF Done

LEMMA ScoreWith ==
  ASSUME NEW g, IsGame(g), NEW n
  PROVE  With(g, Ball!Score(g, n), g.outs, g.bases, g.half.runs + n, g.half.lost)
  BY DEF IsGame, Frame, Ball!Score, With

(* Bases and another tally after the score. *)
LEMMA RunWith ==
  ASSUME NEW g, NEW o, NEW b, NEW r, NEW l, NEW s, With(g, s, o, b, r, l), NEW c, NEW t
  PROVE  With(g, [s EXCEPT !.bases = c, !.total = t], o, c, r, l)
  BY DEF IsGame, Frame, With

LEMMA Advanced ==
  ASSUME NEW g, Ready(g), NEW n \in 1 .. 3
  PROVE  /\ Ball!advance_runners(g.bases, n) \cup {n} \in SUBSET {1, 2, 3} /\ Ball!calculate_runs_scored(g, n) \in Int
         /\ Ball!Cardinality(Ball!advance_runners(g.bases, n) \cup {n}) \in Int /\ Ball!Cardinality(g.bases) \in Int
         /\ Ball!calculate_runs_scored(g, n) + Ball!Cardinality(Ball!advance_runners(g.bases, n) \cup {n}) = Ball!Cardinality(g.bases) + 1
<1> DEFINE b == Ball!advance_runners(g.bases, n) \cup {n}
<1>1. g.bases \in SUBSET {1, 2, 3}
  BY DEF Ready, Counts
<1>2. /\ b \in SUBSET {1, 2, 3} /\ Ball!calculate_runs_scored(g, n) \in Int
      /\ Ball!calculate_runs_scored(g, n) + Ball!Cardinality(b) = Ball!Cardinality(g.bases) + 1
  BY <1>1, Advance
<1> HIDE DEF b
<1>3. Ball!Cardinality(b) \in Int /\ Ball!Cardinality(g.bases) \in Int
  BY <1>1, <1>2, Runners
<1>4. QED  BY <1>2, <1>3 DEF b

(* What comes in and what stays are the runners there were and the batter. *)
LEMMA HitDone ==
  ASSUME NEW g, Ready(g), NEW n \in 1 .. 3
  PROVE  Done(g, Ball!Hit(g, n))
<1> DEFINE b == Ball!advance_runners(g.bases, n) \cup {n}
           m == Ball!calculate_runs_scored(g, n)
<1>1. /\ b \in SUBSET {1, 2, 3} /\ m \in Int /\ Ball!Cardinality(b) \in Int /\ Ball!Cardinality(g.bases) \in Int
      /\ m + Ball!Cardinality(b) = Ball!Cardinality(g.bases) + 1
  BY Advanced
<1>2. With(g, Ball!Hit(g, n), g.outs, b, g.half.runs + m, g.half.lost)
  <2> DEFINE s == Ball!Score(g, m)
  <2>1. With(g, s, g.outs, g.bases, g.half.runs + m, g.half.lost)
    BY ScoreWith DEF Ready
  <2>2. Ball!Hit(g, n) = [s EXCEPT !.bases = Ball!advance_runners(@, n) \cup {n}, !.total[g.side].hits = @ + 1]
    BY DEF Ball!Hit
  <2>3. s.bases = g.bases
    BY <2>1 DEF With
  <2> HIDE DEF s, m
  <2> DEFINE t == [s.total EXCEPT ![g.side].hits = @ + 1]
             x == [s EXCEPT !.bases = b, !.total = t]
  <2>4. Ball!Hit(g, n) = x
    BY <2>2, <2>3
  <2> HIDE DEF b, t
  <2>5. With(g, x, g.outs, b, g.half.runs + m, g.half.lost)
    BY <2>1, RunWith
  <2> HIDE DEF x
  <2>6. QED  BY <2>4, <2>5, Zenon
<1> HIDE DEF b, m
<1>3. g.half.runs + m \in Int /\ g.outs \in Int /\ g.outs <= 3 /\ g.half.lost \in Int /\ g.half.runs \in Int
  BY <1>1 DEF Ready, Counts, Owes
<1>4. /\ g.outs + (g.half.runs + m) + Ball!Cardinality(b) + g.half.lost = g.outs + g.half.runs + Ball!Cardinality(g.bases) + g.half.lost + 1
      /\ g.half.runs + m + Ball!Cardinality(b) <= g.half.runs + Ball!Cardinality(g.bases) + 1
  <2> DEFINE o == g.outs
             r == g.half.runs
             l == g.half.lost
             d == Ball!Cardinality(b)
             c == Ball!Cardinality(g.bases)
  <2>1. /\ o \in Int /\ r \in Int /\ m \in Int /\ d \in Int /\ c \in Int /\ l \in Int
        /\ m + d = c + 1
    BY <1>1, <1>3, Zenon
  <2> HIDE DEF o, r, l, d, c
  <2>2. o + (r + m) + d + l = o + r + c + l + 1 /\ r + m + d <= r + c + 1
    BY <2>1
  <2>3. QED  BY <2>2, Zenon DEF o, r, l, d, c
<1>5. QED  BY <1>1, <1>2, <1>3, <1>4, Settles

LEMMA ErrorDone ==
  ASSUME NEW g, Ready(g)
  PROVE  Done(g, Ball!ERROR(g))
<1> DEFINE b == Ball!advance_runners(g.bases, 1) \cup {1}
           m == Ball!calculate_runs_scored(g, 1)
<1>1. /\ b \in SUBSET {1, 2, 3} /\ m \in Int /\ Ball!Cardinality(b) \in Int /\ Ball!Cardinality(g.bases) \in Int
      /\ m + Ball!Cardinality(b) = Ball!Cardinality(g.bases) + 1
  <2>1. 1 \in 1 .. 3
    OBVIOUS
  <2>2. QED  BY <2>1, Advanced, Zenon
<1>2. With(g, Ball!ERROR(g), g.outs, b, g.half.runs + m, g.half.lost)
  <2> DEFINE s == Ball!Score(g, m)
  <2>1. With(g, s, g.outs, g.bases, g.half.runs + m, g.half.lost)
    BY ScoreWith DEF Ready
  <2>2. Ball!ERROR(g) = [s EXCEPT !.bases = Ball!advance_runners(@, 1) \cup {1}, !.total[g.side].errors = @ + 1]
    BY DEF Ball!ERROR
  <2>3. s.bases = g.bases
    BY <2>1 DEF With
  <2> HIDE DEF s, m
  <2> DEFINE t == [s.total EXCEPT ![g.side].errors = @ + 1]
             x == [s EXCEPT !.bases = b, !.total = t]
  <2>4. Ball!ERROR(g) = x
    BY <2>2, <2>3
  <2> HIDE DEF b, t
  <2>5. With(g, x, g.outs, b, g.half.runs + m, g.half.lost)
    BY <2>1, RunWith
  <2> HIDE DEF x
  <2>6. QED  BY <2>4, <2>5, Zenon
<1> HIDE DEF b, m
<1>3. g.half.runs + m \in Int /\ g.outs \in Int /\ g.outs <= 3 /\ g.half.lost \in Int /\ g.half.runs \in Int
  BY <1>1 DEF Ready, Counts, Owes
<1>4. /\ g.outs + (g.half.runs + m) + Ball!Cardinality(b) + g.half.lost = g.outs + g.half.runs + Ball!Cardinality(g.bases) + g.half.lost + 1
      /\ g.half.runs + m + Ball!Cardinality(b) <= g.half.runs + Ball!Cardinality(g.bases) + 1
  <2> DEFINE o == g.outs
             r == g.half.runs
             l == g.half.lost
             d == Ball!Cardinality(b)
             c == Ball!Cardinality(g.bases)
  <2>1. /\ o \in Int /\ r \in Int /\ m \in Int /\ d \in Int /\ c \in Int /\ l \in Int
        /\ m + d = c + 1
    BY <1>1, <1>3, Zenon
  <2> HIDE DEF o, r, l, d, c
  <2>2. o + (r + m) + d + l = o + r + c + l + 1 /\ r + m + d <= r + c + 1
    BY <2>1
  <2>3. QED  BY <2>2, Zenon DEF o, r, l, d, c
<1>5. QED  BY <1>1, <1>2, <1>3, <1>4, Settles

LEMMA HomeRunDone ==
  ASSUME NEW g, Ready(g)
  PROVE  Done(g, Ball!HOME_RUN(g))
<1> DEFINE m == 1 + Ball!Cardinality(g.bases)
<1>1. m \in Int /\ Ball!Cardinality({}) = 0 /\ Ball!Cardinality(g.bases) \in Int
  BY Runners, NoRunners DEF Ready, Counts
<1>2. With(g, Ball!HOME_RUN(g), g.outs, {}, g.half.runs + m, g.half.lost)
  <2> HIDE DEF m
  <2>1. Ball!HOME_RUN(g) = [Ball!Score(g, m) EXCEPT !.bases = {}, !.total[g.side].hits = @ + 1]
    BY Zenon DEF Ball!HOME_RUN, Ball!Clear, m
  <2>2. QED  BY <2>1 DEF Ready, IsGame, Frame, Ball!Score, With
<1>3. /\ g.half.runs + m \in Int /\ g.outs \in Int /\ g.outs <= 3 /\ g.half.lost \in Int
      /\ g.outs + (g.half.runs + m) + Ball!Cardinality({}) + g.half.lost = g.outs + g.half.runs + Ball!Cardinality(g.bases) + g.half.lost + 1
      /\ g.half.runs + m + Ball!Cardinality({}) <= g.half.runs + Ball!Cardinality(g.bases) + 1
  BY <1>1 DEF Ready, Counts, Owes
<1> HIDE DEF m
<1>4. QED  BY <1>1, <1>2, <1>3, Settles

LEMMA OutDone ==
  ASSUME NEW g, Ready(g)
  PROVE  Done(g, Ball!Out(g, 1))
<1>1. Ball!Cardinality(g.bases) \in Int
  BY Runners DEF Ready, Counts
<1>2. With(g, Ball!Out(g, 1), g.outs + 1, g.bases, g.half.runs, g.half.lost)
  BY DEF Ready, IsGame, Frame, Ball!Out, With
<1>3. /\ g.half.runs \in Int /\ g.outs + 1 \in Int /\ g.outs + 1 <= 3 /\ g.half.lost \in Int /\ g.bases \in SUBSET {1, 2, 3}
      /\ g.outs + 1 + g.half.runs + Ball!Cardinality(g.bases) + g.half.lost = g.outs + g.half.runs + Ball!Cardinality(g.bases) + g.half.lost + 1
      /\ g.half.runs + Ball!Cardinality(g.bases) <= g.half.runs + Ball!Cardinality(g.bases) + 1
  BY <1>1 DEF Ready, Counts, Owes
<1>4. QED  BY <1>2, <1>3, Settles

LEMMA WalkDone ==
  ASSUME NEW g, Ready(g)
  PROVE  Done(g, Ball!WALK(g))
<1>1. g.bases \in SUBSET {1, 2, 3} /\ Ball!Cardinality(g.bases) \in Int
  BY Runners DEF Ready, Counts
<1>2. CASE g.bases = {1, 2, 3}
  <2>1. With(g, Ball!WALK(g), g.outs, g.bases, g.half.runs + 1, g.half.lost)
    BY <1>2 DEF Ready, IsGame, Frame, Ball!WALK, Ball!Score, With
  <2>2. /\ g.half.runs + 1 \in Int /\ g.outs \in Int /\ g.outs <= 3 /\ g.half.lost \in Int
        /\ g.outs + (g.half.runs + 1) + Ball!Cardinality(g.bases) + g.half.lost = g.outs + g.half.runs + Ball!Cardinality(g.bases) + g.half.lost + 1
        /\ g.half.runs + 1 + Ball!Cardinality(g.bases) <= g.half.runs + Ball!Cardinality(g.bases) + 1
    BY <1>1 DEF Ready, Counts, Owes
  <2>3. QED  BY <1>1, <2>1, <2>2, Settles
<1>3. CASE g.bases # {1, 2, 3}
  <2> DEFINE b == g.bases \cup {1} \cup (IF {1, 2} \subseteq g.bases THEN {3} ELSE IF 1 \in g.bases THEN {2} ELSE {})
  <2>1. With(g, Ball!WALK(g), g.outs, b, g.half.runs, g.half.lost)
    BY <1>3 DEF Ready, IsGame, Frame, Ball!WALK, With
  <2>2. b \in SUBSET {1, 2, 3} /\ On(1, b) + On(2, b) + On(3, b) = On(1, g.bases) + On(2, g.bases) + On(3, g.bases) + 1
    BY <1>1, <1>3 DEF On
  <2> HIDE DEF b
  <2>3. /\ Ball!Cardinality(b) = On(1, b) + On(2, b) + On(3, b) /\ Ball!Cardinality(b) \in Int
        /\ Ball!Cardinality(g.bases) = On(1, g.bases) + On(2, g.bases) + On(3, g.bases)
    BY <1>1, <2>2, Runners
  <2>4. /\ g.half.runs \in Int /\ g.outs \in Int /\ g.outs <= 3 /\ g.half.lost \in Int
        /\ g.outs + g.half.runs + Ball!Cardinality(b) + g.half.lost = g.outs + g.half.runs + Ball!Cardinality(g.bases) + g.half.lost + 1
        /\ g.half.runs + Ball!Cardinality(b) <= g.half.runs + Ball!Cardinality(g.bases) + 1
    BY <1>1, <2>2, <2>3 DEF Ready, Counts, Owes
  <2>5. QED  BY <2>1, <2>2, <2>4, Settles
<1>4. QED  BY <1>2, <1>3

LEMMA PlaysDone ==
  ASSUME NEW g, Ready(g), NEW fails, NEW h \in Ball!Plays(g, fails)
  PROVE  Done(g, h)
<1>1. /\ g.bases \in SUBSET {1, 2, 3} /\ g.outs \in Int /\ g.outs < 3 /\ g.half.runs \in Int /\ g.half.lost \in Int
      /\ Ball!Cardinality(g.bases) \in 0 .. 3 /\ Ball!Cardinality({}) = 0
  BY Runners, NoRunners DEF Ready, Counts, Owes
<1>2. CASE 1 \in g.bases /\ g.outs < 2 /\ h = Ball!DOUBLE_PLAY(g)
  <2> DEFINE m == Ball!Cardinality(g.bases \ {1})
  <2>1. With(g, h, g.outs + 2, {}, g.half.runs, g.half.lost + m)
    BY <1>2 DEF Ready, IsGame, Frame, Ball!DOUBLE_PLAY, Ball!Lost, Ball!Out, Ball!Clear, With
  <2>2. m \in Int /\ Ball!Cardinality(g.bases) = m + 1
    <3>1. g.bases \ {1} \in SUBSET {1, 2, 3} /\ On(1, g.bases \ {1}) = 0 /\ On(2, g.bases \ {1}) = On(2, g.bases)
          /\ On(3, g.bases \ {1}) = On(3, g.bases) /\ On(1, g.bases) = 1
      BY <1>1, <1>2 DEF On
    <3>2. QED  BY <1>1, <3>1, Runners DEF On
  <2> HIDE DEF m
  <2>3. g.outs + 2 \in Int /\ g.outs + 2 <= 3 /\ {} \in SUBSET {1, 2, 3} /\ g.half.lost + m \in Int
    BY <1>1, <1>2, <2>2
  <2>4. g.half.runs + Ball!Cardinality({}) <= g.half.runs + Ball!Cardinality(g.bases) + 1
    BY <1>1
  <2>5. g.outs + 2 + g.half.runs + Ball!Cardinality({}) + (g.half.lost + m)
          = g.outs + g.half.runs + Ball!Cardinality(g.bases) + g.half.lost + 1
    <3> DEFINE c == Ball!Cardinality(g.bases)
               e == Ball!Cardinality({})
    <3>1. c = m + 1 /\ e = 0 /\ m \in Int /\ g.outs \in Int /\ g.half.runs \in Int /\ g.half.lost \in Int
      BY <1>1, <2>2
    <3> HIDE DEF c, e
    <3>2. g.outs + 2 + g.half.runs + e + (g.half.lost + m) = g.outs + g.half.runs + c + g.half.lost + 1
      BY <3>1
    <3>3. QED  BY <3>2 DEF c, e
  <2>6. QED  BY <1>1, <2>1, <2>3, <2>4, <2>5, Settles
<1>3. CASE {1, 2} \subseteq g.bases /\ g.outs = 0 /\ h = Ball!TRIPLE_PLAY(g)
  <2> DEFINE m == Ball!Cardinality(g.bases \ {1, 2})
  <2>1. With(g, h, g.outs + 3, {}, g.half.runs, g.half.lost + m)
    BY <1>3 DEF Ready, IsGame, Frame, Ball!TRIPLE_PLAY, Ball!Lost, Ball!Out, Ball!Clear, With
  <2>2. m \in Int /\ Ball!Cardinality(g.bases) = m + 2
    <3>1. g.bases \ {1, 2} \in SUBSET {1, 2, 3} /\ On(1, g.bases \ {1, 2}) = 0 /\ On(2, g.bases \ {1, 2}) = 0
          /\ On(3, g.bases \ {1, 2}) = On(3, g.bases) /\ On(1, g.bases) = 1 /\ On(2, g.bases) = 1
      BY <1>1, <1>3 DEF On
    <3>2. QED  BY <1>1, <3>1, Runners DEF On
  <2> HIDE DEF m
  <2>3. g.outs + 3 \in Int /\ g.outs + 3 <= 3 /\ {} \in SUBSET {1, 2, 3} /\ g.half.lost + m \in Int
    BY <1>1, <1>3, <2>2
  <2>4. g.half.runs + Ball!Cardinality({}) <= g.half.runs + Ball!Cardinality(g.bases) + 1
    BY <1>1
  <2>5. g.outs + 3 + g.half.runs + Ball!Cardinality({}) + (g.half.lost + m)
          = g.outs + g.half.runs + Ball!Cardinality(g.bases) + g.half.lost + 1
    <3> DEFINE c == Ball!Cardinality(g.bases)
               e == Ball!Cardinality({})
    <3>1. c = m + 2 /\ e = 0 /\ m \in Int /\ g.outs \in Int /\ g.half.runs \in Int /\ g.half.lost \in Int
      BY <1>1, <2>2
    <3> HIDE DEF c, e
    <3>2. g.outs + 3 + g.half.runs + e + (g.half.lost + m) = g.outs + g.half.runs + c + g.half.lost + 1
      BY <3>1
    <3>3. QED  BY <3>2 DEF c, e
  <2>6. QED  BY <1>1, <2>1, <2>3, <2>4, <2>5, Settles
<1>4. CASE h = Ball!FIELDERS_CHOICE(g)
  <2> DEFINE b == Ball!advance_runners(g.bases, 1) \cup {1}
             m == IF 3 \in g.bases THEN 0 ELSE -1
  <2>1. With(g, h, g.outs + 1, b, g.half.runs, g.half.lost + m)
    BY <1>4 DEF Ready, IsGame, Frame, Ball!FIELDERS_CHOICE, Ball!Lost, Ball!Out, With
  <2>2. /\ b \in SUBSET {1, 2, 3} /\ m \in Int
        /\ On(1, b) = 1 /\ On(2, b) = On(1, g.bases) /\ On(3, b) = On(2, g.bases) /\ m = On(3, g.bases) - 1
    BY <1>1 DEF On, Ball!advance_runners
  <2> HIDE DEF b, m
  <2>3. Ball!Cardinality(b) \in Int /\ Ball!Cardinality(b) + m = Ball!Cardinality(g.bases) /\ m >= -1
    BY <1>1, <2>2, Runners DEF On
  <2>4. /\ g.outs + 1 \in Int /\ g.outs + 1 <= 3 /\ g.half.lost + m \in Int
        /\ g.half.runs + Ball!Cardinality(b) <= g.half.runs + Ball!Cardinality(g.bases) + 1
        /\ g.outs + 1 + g.half.runs + Ball!Cardinality(b) + (g.half.lost + m)
             = g.outs + g.half.runs + Ball!Cardinality(g.bases) + g.half.lost + 1
    BY <1>1, <2>2, <2>3
  <2>5. QED  BY <1>1, <2>1, <2>2, <2>4, Settles
<1>5. CASE g.outs < 2 /\ h = Ball!SACRIFICE_FLY(g)
  <2> DEFINE b == g.bases \ {3}
             m == On(3, g.bases)
  <2>1. With(g, h, g.outs + 1, b, g.half.runs + m, g.half.lost)
    BY <1>5 DEF Ready, IsGame, Frame, Ball!SACRIFICE_FLY, Ball!Score, Ball!Out, On, With
  <2>2. b \in SUBSET {1, 2, 3} /\ On(1, b) = On(1, g.bases) /\ On(2, b) = On(2, g.bases) /\ On(3, b) = 0 /\ m \in Int
    BY <1>1 DEF On
  <2> HIDE DEF b
  <2>3. Ball!Cardinality(b) \in Int /\ Ball!Cardinality(b) + m = Ball!Cardinality(g.bases)
    BY <1>1, <2>2, Runners DEF On
  <2> HIDE DEF m
  <2>4. /\ g.half.runs + m \in Int /\ g.outs + 1 \in Int /\ g.outs + 1 <= 3
        /\ g.outs + 1 + (g.half.runs + m) + Ball!Cardinality(b) + g.half.lost = g.outs + g.half.runs + Ball!Cardinality(g.bases) + g.half.lost + 1
        /\ g.half.runs + m + Ball!Cardinality(b) <= g.half.runs + Ball!Cardinality(g.bases) + 1
    BY <1>1, <2>2, <2>3
  <2>5. QED  BY <1>1, <2>1, <2>2, <2>4, Settles
<1>6. CASE h \in {Ball!Hit(g, 1), Ball!Hit(g, 2), Ball!Hit(g, 3), Ball!HOME_RUN(g), Ball!Out(g, 1), Ball!WALK(g), Ball!ERROR(g)}
  BY <1>6, HitDone, HomeRunDone, OutDone, WalkDone, ErrorDone
<1>7. QED  BY <1>2, <1>3, <1>4, <1>5, <1>6 DEF Ball!Plays

(* Between two batters. *)
Between(g) == IsGame(g) /\ Counts(g) /\ Balanced(g)

LEMMA Stolen ==
  ASSUME NEW g, Between(g), NEW h \in Ball!Steals(g)
  PROVE  Done(g, h)
<1>1. /\ g.bases \in SUBSET {1, 2, 3} /\ g.outs \in Int /\ g.outs < 2 /\ 1 \in g.bases /\ g.half.runs \in Int
      /\ g.half.up \in Int /\ g.half.lost \in Int
      /\ Ball!Cardinality(g.bases) = On(1, g.bases) + On(2, g.bases) + On(3, g.bases)
  BY Runners DEF Between, Counts, Ball!Steals
<1> DEFINE b == g.bases \ {1}
           c == b \cup {2}
<1>2. /\ b \in SUBSET {1, 2, 3} /\ On(1, b) = 0 /\ On(2, b) = On(2, g.bases) /\ On(3, b) = On(3, g.bases)
      /\ c \in SUBSET {1, 2, 3} /\ On(1, c) = 0 /\ On(2, c) = 1 /\ On(3, c) = On(3, g.bases)
  BY <1>1 DEF On
<1> HIDE DEF b, c
<1>3. Ball!Cardinality(b) = On(1, b) + On(2, b) + On(3, b) /\ Ball!Cardinality(c) = On(1, c) + On(2, c) + On(3, c)
  BY <1>2, Runners
<1>4. CASE h = [Ball!Out(g, 1) EXCEPT !.bases = @ \ {1}]
  <2>1. With(g, h, g.outs + 1, b, g.half.runs, g.half.lost)
    BY <1>4 DEF Between, IsGame, Frame, Ball!Out, With, b
  <2>2. Counts(h) /\ Balanced(h)
    BY <1>1, <1>2, <1>3, <2>1 DEF Between, Counts, Balanced, With, On
  <2>3. QED  BY <2>1, <2>2 DEF Done, With
<1>5. CASE 2 \notin g.bases /\ h = [g EXCEPT !.bases = (@ \ {1}) \cup {2}]
  <2>1. With(g, h, g.outs, c, g.half.runs, g.half.lost)
    BY <1>5 DEF Between, IsGame, Frame, With, b, c
  <2>2. Counts(h) /\ Balanced(h)
    BY <1>1, <1>2, <1>3, <1>5, <2>1 DEF Between, Counts, Balanced, With, On
  <2>3. QED  BY <2>1, <2>2 DEF Done, With
<1>6. CASE 2 \in g.bases /\ h = Ball!Lost([g EXCEPT !.bases = @ \ {1}], 1)
  <2>1. With(g, h, g.outs, b, g.half.runs, g.half.lost + 1)
    BY <1>6 DEF Between, IsGame, Frame, Ball!Lost, With, b
  <2>2. Counts(h)
    BY <1>1, <1>2, <2>1 DEF Between, Counts, With
  <2>3. Ball!Cardinality(b) \in Int /\ Ball!Cardinality(b) + 1 = Ball!Cardinality(g.bases)
    BY <1>1, <1>2, <1>3, <1>6 DEF On
  <2>4. Balanced(h)
    BY <1>1, <2>1, <2>3 DEF Between, Balanced, With
  <2>5. QED  BY <2>1, <2>2, <2>4 DEF Done, With
<1>7. QED  BY <1>1, <1>4, <1>5, <1>6 DEF Ball!Steals

LEMMA AtBatDone ==
  ASSUME NEW g, Between(g), g.outs < 3, NEW fails, NEW h \in Ball!play_at_bat(g, fails)
  PROVE  Done(g, h)
<1>1. PICK k \in {g} \cup Ball!Steals(g) : h \in IF k.outs >= 3 THEN {k} ELSE Ball!Plays([k EXCEPT !.half.up = @ + 1], fails)
  BY DEF Ball!play_at_bat
<1>2. Done(g, k)
  <2>1. Done(g, g)
    BY DEF Between, Done, Frame
  <2>2. QED  BY <1>1, <2>1, Stolen
<1>3. CASE k.outs >= 3
  BY <1>1, <1>2, <1>3
<1>4. CASE ~(k.outs >= 3)
  <2> DEFINE u == [k EXCEPT !.half.up = @ + 1]
  <2>1. h \in Ball!Plays(u, fails)
    BY <1>1, <1>4
  <2>2. /\ IsGame(u) /\ Frame(k, u) /\ u.outs = k.outs /\ u.bases = k.bases
        /\ u.half.runs = k.half.runs /\ u.half.up = k.half.up + 1 /\ u.half.lost = k.half.lost
    BY <1>2 DEF Done, IsGame, Frame
  <2> HIDE DEF u
  <2>3. Ball!Cardinality(k.bases) \in Int
    BY <1>2, Runners DEF Done, Counts
  <2>4. Ready(u)
    BY <1>2, <1>4, <2>2, <2>3 DEF Ready, Done, Counts, Balanced, Owes
  <2>5. Done(u, h)
    BY <2>1, <2>4, PlaysDone
  <2>6. QED  BY <1>2, <2>2, <2>5 DEF Done, Frame
<1>5. QED  BY <1>3, <1>4

-----------------------------------------------------------------------------
(* Line-ups *)

Picked == DOMAIN player_roster \cup {Ball!find_player(typed) : typed \in Typed}

LEMMA NewPlayer ==
  ASSUME NEW S, NEW s \in Seq(S), NEW p \in S, Ball!IsInjective(s), \A i \in 1 .. Len(s) : s[i] # p
  PROVE  Append(s, p) \in Seq(S) /\ Ball!IsInjective(Append(s, p))
<1> DEFINE n == Len(s)
           t == Append(s, p)
<1>1. /\ t \in Seq(S) /\ Len(t) = n + 1 /\ n \in Nat /\ t[n + 1] = p
      /\ \A i \in 1 .. n : t[i] = s[i]
  BY AppendProperties
<1>2. DOMAIN t = 1 .. n + 1 /\ DOMAIN s = 1 .. n
  BY <1>1
<1> HIDE DEF t
<1>3. ASSUME NEW i \in 1 .. n + 1, NEW j \in 1 .. n + 1, t[i] = t[j]
      PROVE  i = j
  <2>1. CASE i \in 1 .. n /\ j \in 1 .. n
    BY <1>1, <1>2, <1>3, <2>1 DEF Ball!IsInjective
  <2>2. CASE i = n + 1 /\ j \in 1 .. n
    BY <1>1, <1>3, <2>2
  <2>3. CASE i \in 1 .. n /\ j = n + 1
    BY <1>1, <1>3, <2>3
  <2>4. QED  BY <1>1, <1>3, <2>1, <2>2, <2>3
<1>4. Ball!IsInjective(t)
  BY <1>2, <1>3 DEF Ball!IsInjective
<1>5. QED  BY <1>1, <1>4 DEF t

LEMMA Alongside ==
  ASSUME NEW S, NEW v \in Seq(S), NEW h \in Seq(S), NEW p \in S,
         \A i \in 1 .. Len(v) : v[i] # p, \A i \in 1 .. Len(h) : h[i] # p
  PROVE  /\ v \o h \in Seq(S) /\ \A i \in 1 .. Len(v \o h) : (v \o h)[i] # p
         /\ v \o Append(h, p) = Append(v \o h, p) /\ Append(h, p) \in Seq(S)
<1>1. /\ v \o h \in Seq(S) /\ Len(v \o h) = Len(v) + Len(h) /\ Len(v) \in Nat /\ Len(h) \in Nat
      /\ \A i \in 1 .. Len(v) + Len(h) : (v \o h)[i] = IF i <= Len(v) THEN v[i] ELSE h[i - Len(v)]
  BY ConcatProperties
<1>2. ASSUME NEW i \in 1 .. Len(v) + Len(h)
      PROVE  (v \o h)[i] # p
  <2>1. CASE i <= Len(v)
    BY <1>1, <2>1
  <2>2. CASE ~(i <= Len(v))
    <3>1. i - Len(v) \in 1 .. Len(h)
      BY <1>1, <2>2
    <3>2. QED  BY <1>1, <2>2, <3>1
  <2>3. QED  BY <2>1, <2>2
<1>3. Append(h, p) = h \o <<p>> /\ Append(v \o h, p) = (v \o h) \o <<p>> /\ <<p>> \in Seq(S) /\ Append(h, p) \in Seq(S)
  BY <1>1, AppendIsConcat, AppendProperties
<1>4. v \o (h \o <<p>>) = (v \o h) \o <<p>>
  BY <1>3, ConcatAssociative
<1>5. QED  BY <1>1, <1>2, <1>3, <1>4

Fielded(g) ==
  /\ g.visitors \in Seq(Picked) /\ g.home \in Seq(Picked) /\ Ball!IsInjective(g.visitors \o g.home)
  /\ g.phase = "visitors" => g.home = <<>>
Won(g) == g.phase = "over" => g.inning > MAX_INNINGS /\ g.total["visitors"].score # g.total["home"].score
Innings == Between(app) /\ Fielded(app) /\ Won(app) /\ app.inning \in Int
           /\ app.phase \in {"visitors", "home", "play", "over"}

LEMMA Visitors ==
  ASSUME Innings, NEW typed \in Typed, Ball!select_visiting_team(typed)
  PROVE  Innings'
<1> DEFINE p == Ball!find_player(typed)
           v == app.visitors
<1>1. p \in Picked
  BY DEF Picked
<1>2. /\ v \in Seq(Picked) /\ app.home = <<>> /\ p \notin Ball!Range(v) /\ Ball!IsInjective(v \o <<>>)
      /\ app.phase = "visitors"
  BY DEF Innings, Fielded, Ball!select_visiting_team
<1>3. v \o <<>> = v /\ \A i \in 1 .. Len(v) : v[i] # p
  BY <1>2 DEF Ball!Range
<1> HIDE DEF p
<1>4. Append(v, p) \in Seq(Picked) /\ Ball!IsInjective(Append(v, p))
  BY <1>1, <1>2, <1>3, NewPlayer
<1>5. Append(v, p) \o <<>> = Append(v, p)
  BY <1>4
<1>6. app' = [app EXCEPT !.visitors = Append(@, p), !.phase = IF Len(app.visitors) + 1 = TEAM_SIZE THEN "home" ELSE @]
  BY DEF Ball!select_visiting_team, p
<1>7. IsGame(app) /\ <<>> \in Seq(Picked)
  BY DEF Innings, Between
<1>8. /\ IsGame(app') /\ app'.visitors = Append(v, p) /\ app'.home = <<>> /\ app'.phase \in {"visitors", "home"}
      /\ app'.inning = app.inning /\ app'.outs = app.outs /\ app'.bases = app.bases /\ app'.half = app.half
  BY <1>2, <1>6, <1>7 DEF IsGame
<1>9. QED  BY <1>4, <1>5, <1>7, <1>8 DEF Innings, Between, Counts, Balanced, Fielded, Won

LEMMA Homes ==
  ASSUME Innings, Ball!select_home_team
  PROVE  Innings'
<1> DEFINE v == app.visitors
           h == app.home
<1>1. PICK p \in (DOMAIN player_roster) \ (Ball!Range(v) \cup Ball!Range(h)) :
        app' = [app EXCEPT !.home = Append(@, p), !.phase = IF Len(app.home) + 1 = TEAM_SIZE THEN "play" ELSE @]
  BY DEF Ball!select_home_team
<1>2. /\ v \in Seq(Picked) /\ h \in Seq(Picked) /\ p \in Picked /\ Ball!IsInjective(v \o h)
      /\ app.phase = "home" /\ IsGame(app)
  BY DEF Innings, Between, Fielded, Picked, Ball!select_home_team
<1>3. (\A i \in 1 .. Len(v) : v[i] # p) /\ (\A i \in 1 .. Len(h) : h[i] # p)
  <2>1. /\ \A i \in 1 .. Len(v) : v[i] \in Ball!Range(v)
        /\ \A i \in 1 .. Len(h) : h[i] \in Ball!Range(h)
    BY <1>2 DEF Ball!Range
  <2>2. QED  BY <1>1, <2>1
<1> HIDE DEF v, h
<1>4. /\ v \o h \in Seq(Picked) /\ \A i \in 1 .. Len(v \o h) : (v \o h)[i] # p
      /\ v \o Append(h, p) = Append(v \o h, p) /\ Append(h, p) \in Seq(Picked)
  BY <1>2, <1>3, Alongside
<1>5. Ball!IsInjective(Append(v \o h, p))
  BY <1>2, <1>4, NewPlayer
<1> USE DEF v, h
<1>6. /\ IsGame(app') /\ app'.visitors = v /\ app'.home = Append(h, p) /\ app'.phase \in {"home", "play"}
      /\ app'.inning = app.inning /\ app'.outs = app.outs /\ app'.bases = app.bases /\ app'.half = app.half
  BY <1>1, <1>2 DEF IsGame
<1>7. QED  BY <1>2, <1>4, <1>5, <1>6 DEF Innings, Between, Counts, Balanced, Fielded, Won

LEMMA Bats ==
  ASSUME Innings, Ball!AtBat
  PROVE  Innings'
<1>1. PICK g \in Ball!play_at_bat(app, Ball!Batter(app).batting_avg + 50 < 1000) :
        app' = [g EXCEPT !.current_batter = (@ + 1) % TEAM_SIZE]
  BY DEF Ball!AtBat
<1>2. Done(app, g) /\ app.phase = "play"
  <2>1. Between(app) /\ app.outs < 3 /\ app.phase = "play"
    BY DEF Innings, Ball!AtBat
  <2>2. QED  BY <1>1, <2>1, AtBatDone
<1>3. /\ IsGame(app') /\ Frame(app, app') /\ app'.outs = g.outs /\ app'.bases = g.bases /\ app'.half = g.half
  BY <1>1, <1>2 DEF Done, IsGame, Frame
<1>4. QED  BY <1>2, <1>3 DEF Innings, Between, Done, Counts, Balanced, Fielded, Won, Frame

LEMMA Fresh ==
  ASSUME NEW g, IsGame(g), g.outs = 0, g.bases = {}, g.half = Ball!NoHalf
  PROVE  Between(g)
<1>1. g.half.runs = 0 /\ g.half.up = 0 /\ g.half.lost = 0
  BY DEF Ball!NoHalf
<1>2. Counts(g)
  BY <1>1 DEF Counts
<1>3. Balanced(g)
  <2>1. Ball!Cardinality(g.bases) = 0
    BY NoRunners
  <2>2. QED  BY <1>1, <2>1 DEF Balanced
<1>4. QED  BY <1>2, <1>3 DEF Between

LEMMA Halves ==
  ASSUME Ball!ConstantsOK, Innings, Ball!EndHalf
  PROVE  Innings'
<1> DEFINE next == [app EXCEPT !.outs = 0, !.bases = Ball!Clear, !.half = Ball!NoHalf]
<1>1. IsGame(app) /\ app.phase = "play" /\ app.inning \in Int /\ Ball!Cardinality({}) = 0
  BY NoRunners DEF Innings, Between, Ball!EndHalf
<1>2. IsGame(next) /\ next.outs = 0 /\ next.bases = {} /\ next.half = Ball!NoHalf /\ Frame(app, next)
  BY <1>1 DEF IsGame, Frame, Ball!NoHalf, Ball!Clear
<1>3. /\ Ball!NoHalf.runs = 0 /\ Ball!NoHalf.up = 0 /\ Ball!NoHalf.lost = 0
  BY DEF Ball!NoHalf
<1> HIDE DEF next
<1>4. CASE app.side = "visitors"
  <2>1. app' = [next EXCEPT !.side = "home"]
    BY <1>4 DEF Ball!EndHalf, next
  <2>2. /\ IsGame(app') /\ app'.outs = 0 /\ app'.bases = {} /\ app'.half = Ball!NoHalf /\ Frame(app, app')
    BY <1>2, <2>1 DEF IsGame, Frame
  <2>3. Between(app')
    BY <2>2, Fresh
  <2>4. Fielded(app') /\ Won(app') /\ app'.inning \in Int /\ app'.phase = "play"
    BY <1>1, <2>2 DEF Innings, Fielded, Won, Frame
  <2>5. QED  BY <2>3, <2>4 DEF Innings
<1>5. CASE app.side # "visitors" /\ app.inning >= MAX_INNINGS
           /\ app.total["visitors"].score # app.total["home"].score
  <2>1. app' = [app EXCEPT !.phase = "over", !.inning = @ + 1]
    BY <1>5 DEF Ball!EndHalf
  <2>2. /\ IsGame(app') /\ app'.outs = app.outs /\ app'.bases = app.bases /\ app'.half = app.half
        /\ app'.visitors = app.visitors /\ app'.home = app.home /\ app'.phase = "over"
        /\ app'.inning = app.inning + 1 /\ app'.total = app.total
    BY <1>1, <2>1 DEF IsGame
  <2>3. Between(app')
    BY <2>2 DEF Innings, Between, Counts, Balanced
  <2>4. Fielded(app') /\ Won(app') /\ app'.inning \in Int
    BY <1>1, <1>5, <2>2 DEF Innings, Fielded, Won, Ball!ConstantsOK
  <2>5. QED  BY <2>2, <2>3, <2>4 DEF Innings
<1>6. CASE app.side # "visitors" /\ ~(app.inning >= MAX_INNINGS
           /\ app.total["visitors"].score # app.total["home"].score)
  <2>1. app' = [next EXCEPT !.side = "visitors", !.inning = @ + 1]
    BY <1>6 DEF Ball!EndHalf, next
  <2>2. /\ IsGame(app') /\ app'.outs = 0 /\ app'.bases = {} /\ app'.half = Ball!NoHalf
        /\ app'.visitors = app.visitors /\ app'.home = app.home /\ app'.phase = app.phase
        /\ app'.inning = app.inning + 1
    BY <1>2, <2>1 DEF IsGame, Frame
  <2>3. Between(app')
    BY <2>2, Fresh
  <2>4. Fielded(app') /\ Won(app') /\ app'.inning \in Int /\ app'.phase = "play"
    BY <1>1, <2>2 DEF Innings, Fielded, Won
  <2>5. QED  BY <2>3, <2>4 DEF Innings
<1>7. QED  BY <1>4, <1>5, <1>6

LEMMA PlayBall == ASSUME Ball!Init PROVE Innings
<1>1. /\ IsGame(app) /\ app.outs = 0 /\ app.bases = {} /\ app.half = Ball!NoHalf /\ app.visitors = <<>> /\ app.home = <<>>
      /\ app.phase = "visitors" /\ app.inning = 1
  BY DEF Ball!Init, IsGame, Ball!NoHalf, Ball!Clear
<1>2. Between(app)
  BY <1>1, Fresh
<1>3. <<>> \in Seq(Picked) /\ <<>> \o <<>> = <<>> /\ Ball!IsInjective(<<>>)
  BY DEF Ball!IsInjective
<1>4. QED  BY <1>1, <1>2, <1>3 DEF Innings, Fielded, Won

LEMMA InningsKept == ASSUME Ball!ConstantsOK, Innings, [Ball!Next]_app PROVE Innings'
<1>1. CASE UNCHANGED app
  BY <1>1 DEF Innings, Between, IsGame, Counts, Balanced, Fielded, Won
<1>2. QED  BY <1>1, Visitors, Homes, Bats, Halves DEF Ball!Next

(* In a game of any number of innings, between line-ups from any roster, every  *)
(* batter of a half inning is out, in or on a base, but for exactly the runners   *)
(* that double and triple plays, the steal of an occupied second base and the    *)
(* fielder's choice lose or keep; nobody is out a fourth time, no player is       *)
(* picked twice and a game that is over has a winner (baseball.c).            *)
THEOREM GameAccounts == GameSpec => []Accounted
<1> DEFINE Held == tape = "baseball" => Innings
<1>1. GameInit => Held
  BY PlayBall DEF GameInit
<1>2. Held /\ [GameNext /\ UNCHANGED tape]_<<tape, app>> => Held'
  <2> SUFFICES ASSUME Held, [GameNext /\ UNCHANGED tape]_<<tape, app>>, tape' = "baseball"
               PROVE  Innings'
    OBVIOUS
  <2>1. Innings /\ [Ball!Next]_app
    BY DEF GameNext
  <2>2. QED  BY <2>1, GamesConstants, InningsKept
<1>3. Held => Accounted
  BY DEF Innings, Between, Counts, Balanced, Fielded, Won, Accounted, Ball!Accounted
<1>4. QED  BY <1>1, <1>2, <1>3, PTL DEF GameSpec

-----------------------------------------------------------------------------
(* Oregon Trail.  *)

(* What a family has; and a family in turn t of its journey j. *)
Goods(g) ==
  /\ DOMAIN g = {"food", "bullets", "clothing", "misc", "cash", "oxen", "miles", "previous", "turn", "skill",
                 "eating", "flags", "passes", "fort", "journey", "over"}
  /\ g.food \in Int /\ g.bullets \in Int /\ g.clothing \in Int /\ g.misc \in Int /\ g.oxen \in Int /\ g.miles \in Int
  /\ g.skill \in Int /\ g.cash \in Nat
Family(g, t, j) == Goods(g) /\ g.turn = t /\ g.journey = j /\ g.over # "arrived"

LEMMA ShotOutcomes ==
  ASSUME NEW g, NEW t, NEW j, Family(g, t, j), NEW shot \in Trail!shooting_minigame(g)
  PROVE  shot \in Int
  BY DEF Family, Goods, Trail!shooting_minigame

LEMMA Moved ==
  ASSUME NEW g, NEW t, NEW j, Family(g, t, j), NEW n \in Int
  PROVE  Family(Trail!Miles(g, n), t, j)
  BY DEF Family, Goods, Trail!Miles

LEMMA Hunting ==
  ASSUME NEW g, NEW t, NEW j, Family(g, t, j), NEW h \in Trail!go_hunting(g)
  PROVE  Family(h, t, j)
<1>1. PICK shot \in Trail!shooting_minigame(g) : h \in IF shot <= 1 THEN Trail!Bagged(g) ELSE Trail!Missed(g, shot)
  BY DEF Trail!go_hunting
<1>2. shot \in Int
  BY ShotOutcomes
<1>3. CASE h \in Trail!Bagged(g)
  <2>1. PICK f \in Trail!Draw(0, 6), b \in Trail!Draw(0, 4) : h = [g EXCEPT !.food = @ + 52 + f, !.bullets = @ - 10 - b]
    BY <1>3 DEF Trail!Bagged, Trail!Draw
  <2>2. QED  BY <2>1 DEF Trail!Draw, Family, Goods
<1>4. CASE h \in Trail!Missed(g, shot)
  <2> DEFINE missed == [g EXCEPT !.bullets = @ - (10 + 3 * shot)]
  <2>1. Family(missed, t, j)
    BY <1>2 DEF Family, Goods
  <2>2. h = missed \/ h = [missed EXCEPT !.food = @ + 48 - 2 * shot]
    BY <1>4 DEF Trail!Missed
  <2> HIDE DEF missed
  <2>3. QED  BY <1>2, <2>1, <2>2 DEF Family, Goods
<1>5. QED  BY <1>1, <1>3, <1>4

LEMMA Illness ==
  ASSUME NEW g, NEW t, NEW j, Family(g, t, j), NEW h \in Trail!handle_illness(g)
  PROVE  Family(h, t, j)
<1> DEFINE ill == {[Trail!Miles(g, -5) EXCEPT !.misc = @ - 2], [g EXCEPT !.misc = @ - 10, !.flags = @ \cup {Trail!ILLNESS}]}
<1>1. Trail!handle_illness(g) = {IF k.misc < 0 THEN Trail!handle_death(k, "disease") ELSE k : k \in ill}
  BY Zenon DEF Trail!handle_illness
<1>2. Family([Trail!Miles(g, -5) EXCEPT !.misc = @ - 2], t, j)
  <2>1. Family(Trail!Miles(g, -5), t, j)
    BY Moved
  <2>2. QED  BY <2>1 DEF Family, Goods
<1>3. Family([g EXCEPT !.misc = @ - 10, !.flags = @ \cup {Trail!ILLNESS}], t, j)
  BY DEF Family, Goods
<1>4. \A k \in ill : Family(k, t, j)
  BY <1>2, <1>3
<1> HIDE DEF ill
<1>5. PICK k \in ill : h = IF k.misc < 0 THEN Trail!handle_death(k, "disease") ELSE k
  BY <1>1
<1>6. QED  BY <1>4, <1>5 DEF Family, Goods, Trail!handle_death

LEMMA Onwards ==
  ASSUME NEW g, NEW t, NEW j, Family(g, t, j), NEW h \in Trail!Onward(g)
  PROVE  Family(h, t, j)
  BY DEF Family, Goods, Trail!Onward, Trail!Miles, Trail!Draw, Trail!Quotient

LEMMA Eaten ==
  ASSUME NEW g, NEW t, NEW j, Family(g, t, j), NEW level \in Int, NEW h \in Trail!check_eating_and_health(g, level)
  PROVE  Family(h, t, j)
<1> DEFINE ate == IF g.food < 8 + 5 * level THEN [g EXCEPT !.food = @ - 13, !.eating = 1]
                  ELSE [g EXCEPT !.food = @ - (8 + 5 * level), !.eating = level]
<1>1. Family(ate, t, j)
  BY DEF Family, Goods
<1>2. h = ate \/ h \in Trail!handle_illness(ate)
  BY DEF Trail!check_eating_and_health
<1>3. QED  BY <1>1, <1>2, Illness

-----------------------------------------------------------------------------
(* Riders *)

LEMMA FriendlyRiders ==
  ASSUME NEW g, NEW t, NEW j, Family(g, t, j), NEW h \in Trail!Friendly(g)
  PROVE  Family(h, t, j)
<1>1. CASE h = [Trail!Miles(g, 15) EXCEPT !.oxen = @ - 10]
  BY <1>1, Moved DEF Family, Goods
<1>2. CASE h = [Trail!Miles(g, -5) EXCEPT !.bullets = @ - 100]
  BY <1>2, Moved DEF Family, Goods
<1>3. CASE h = g \/ h = Trail!Miles(g, -20)
  BY <1>3, Moved
<1>4. QED  BY <1>1, <1>2, <1>3 DEF Trail!Friendly

LEMMA Attacked ==
  ASSUME NEW g, NEW t, NEW j, Family(g, t, j), NEW h \in Trail!Attack(g)
  PROVE  Family(h, t, j)
<1>1. PICK shot \in Trail!shooting_minigame(g) :
        h = LET k == [g EXCEPT !.bullets = @ - (shot * 40 + 80)]
            IN  IF shot <= 4 THEN k ELSE [k EXCEPT !.flags = @ \cup {Trail!INJURY}]
  BY Zenon DEF Trail!Attack
<1> DEFINE k == [g EXCEPT !.bullets = @ - (shot * 40 + 80)]
<1>2. Family(k, t, j)
  BY ShotOutcomes DEF Family, Goods
<1>3. h = k \/ h = [k EXCEPT !.flags = @ \cup {Trail!INJURY}]
  BY <1>1
<1> HIDE DEF k
<1>4. QED  BY <1>2, <1>3 DEF Family, Goods

LEMMA HostileRiders ==
  ASSUME NEW g, NEW t, NEW j, Family(g, t, j), NEW h \in Trail!Hostile(g)
  PROVE  Family(h, t, j)
<1>1. CASE h = [Trail!Miles(g, 20) EXCEPT !.misc = @ - 15, !.bullets = @ - 150, !.oxen = @ - 40]
  <2>1. Family(Trail!Miles(g, 20), t, j)
    BY Moved
  <2>2. QED  BY <1>1, <2>1 DEF Family, Goods
<1>2. CASE h = [g EXCEPT !.bullets = @ - 150, !.misc = @ - 15]
  BY <1>2 DEF Family, Goods
<1>3. CASE \E shot \in Trail!shooting_minigame(g) : h = [Trail!Miles(g, -25) EXCEPT !.bullets = @ - (shot * 30 + 80)]
  <2>1. PICK shot \in Trail!shooting_minigame(g) : h = [Trail!Miles(g, -25) EXCEPT !.bullets = @ - (shot * 30 + 80)]
    BY <1>3
  <2>2. Family(Trail!Miles(g, -25), t, j) /\ shot \in Int
    BY Moved, ShotOutcomes
  <2>3. QED  BY <2>1, <2>2 DEF Family, Goods
<1>4. QED  BY <1>1, <1>2, <1>3, Attacked DEF Trail!Hostile

LEMMA Riders ==
  ASSUME NEW g, NEW t, NEW j, Family(g, t, j), NEW h \in Trail!check_for_riders(g)
  PROVE  Family(h, t, j)
<1>1. h = g \/ \E k \in Trail!Friendly(g) \cup Trail!Hostile(g) : h = IF k.bullets < 0 THEN Trail!handle_death(k, "massacre") ELSE k
  BY DEF Trail!check_for_riders
<1>2. ASSUME NEW k \in Trail!Friendly(g) \cup Trail!Hostile(g), h = IF k.bullets < 0 THEN Trail!handle_death(k, "massacre") ELSE k
      PROVE  Family(h, t, j)
  <2>1. Family(k, t, j)
    BY FriendlyRiders, HostileRiders
  <2>2. QED  BY <1>2, <2>1 DEF Family, Goods, Trail!handle_death
<1>3. QED  BY <1>1, <1>2

-----------------------------------------------------------------------------
(* Events *)

LEMMA Bandits ==
  ASSUME NEW g, NEW t, NEW j, Family(g, t, j), NEW h \in Trail!BANDITS_ATTACK(g)
  PROVE  Family(h, t, j)
<1>1. PICK shot \in Trail!shooting_minigame(g) :
        h = LET k == [g EXCEPT !.bullets = @ - 20 * shot]
            IN  IF k.bullets < 0 THEN [k EXCEPT !.cash = @ \div 3]
                ELSE IF shot <= 1 THEN k
                ELSE [k EXCEPT !.flags = @ \cup {Trail!INJURY}, !.misc = @ - 5, !.oxen = @ - 20]
  BY Zenon DEF Trail!BANDITS_ATTACK
<1> DEFINE k == [g EXCEPT !.bullets = @ - 20 * shot]
<1>2. Family(k, t, j)
  BY ShotOutcomes DEF Family, Goods
<1>3. h = [k EXCEPT !.cash = @ \div 3] \/ h = k \/ h = [k EXCEPT !.flags = @ \cup {Trail!INJURY}, !.misc = @ - 5, !.oxen = @ - 20]
  BY <1>1
<1> HIDE DEF k
<1>4. CASE h = [k EXCEPT !.cash = @ \div 3]
  <2>1. k.cash \div 3 \in Nat
    BY <1>2 DEF Family, Goods
  <2>2. QED  BY <1>2, <1>4, <2>1 DEF Family, Goods
<1>5. CASE h = [k EXCEPT !.flags = @ \cup {Trail!INJURY}, !.misc = @ - 5, !.oxen = @ - 20]
  BY <1>2, <1>5 DEF Family, Goods
<1>6. QED  BY <1>2, <1>3, <1>4, <1>5

LEMMA Animals ==
  ASSUME NEW g, NEW t, NEW j, Family(g, t, j), NEW h \in Trail!WILD_ANIMALS_ATTACK(g)
  PROVE  Family(h, t, j)
<1> DEFINE hurt == [g EXCEPT !.flags = @ \cup {Trail!INJURY}]
<1>1. CASE h \in Trail!handle_illness(hurt)
  <2>1. Family(hurt, t, j)
    BY DEF Family, Goods
  <2> HIDE DEF hurt
  <2>2. QED  BY <1>1, <2>1, Illness
<1>2. CASE \E shot \in Trail!shooting_minigame(g) :
             h = [g EXCEPT !.bullets = @ - 20 * shot, !.clothing = @ - 4 * shot, !.food = @ - 8 * shot]
  <2>1. PICK shot \in Trail!shooting_minigame(g) :
          h = [g EXCEPT !.bullets = @ - 20 * shot, !.clothing = @ - 4 * shot, !.food = @ - 8 * shot]
    BY <1>2
  <2>2. QED  BY <2>1, ShotOutcomes DEF Family, Goods
<1>3. QED  BY <1>1, <1>2 DEF Trail!WILD_ANIMALS_ATTACK

LEMMA Snake ==
  ASSUME NEW g, NEW t, NEW j, Family(g, t, j)
  PROVE  Family(Trail!POISONOUS_SNAKE(g), t, j)
<1> DEFINE k == [g EXCEPT !.bullets = @ - 10, !.misc = @ - 5]
<1>1. Family(k, t, j)
  BY DEF Family, Goods
<1>2. Trail!POISONOUS_SNAKE(g) = IF k.misc < 0 THEN Trail!handle_death(k, "snakebite") ELSE k
  BY DEF Trail!POISONOUS_SNAKE
<1> HIDE DEF k
<1>3. QED  BY <1>1, <1>2 DEF Family, Goods, Trail!handle_death

LEMMA Cold ==
  ASSUME NEW g, NEW t, NEW j, Family(g, t, j), NEW h \in Trail!COLD_WEATHER(g)
  PROVE  Family(h, t, j)
<1>1. h = g \/ h \in Trail!handle_illness(g)
  BY DEF Trail!COLD_WEATHER
<1>2. QED  BY <1>1, Illness

LEMMA Breakdown ==
  ASSUME NEW g, NEW t, NEW j, Family(g, t, j), NEW h \in Trail!WAGON_BREAKDOWN(g)
  PROVE  Family(h, t, j)
<1>1. PICK n \in Trail!Draw(1, 5) : h = [Trail!Miles(g, -(15 + 5 * n)) EXCEPT !.misc = @ - 8]
  BY DEF Trail!WAGON_BREAKDOWN, Trail!Draw
<1>2. n \in Int /\ -(15 + 5 * n) \in Int
  BY DEF Trail!Draw
<1>3. Family(Trail!Miles(g, -(15 + 5 * n)), t, j)
  BY <1>2, Moved
<1>4. QED  BY <1>1, <1>2, <1>3 DEF Family, Goods

LEMMA Arm ==
  ASSUME NEW g, NEW t, NEW j, Family(g, t, j), NEW h \in Trail!DAUGHTER_BREAKS_ARM(g)
  PROVE  Family(h, t, j)
<1>1. PICK n \in Trail!Draw(1, 4), m \in Trail!Draw(1, 3) : h = [Trail!Miles(g, -(5 + 4 * n)) EXCEPT !.misc = @ - (2 + 3 * m)]
  BY DEF Trail!DAUGHTER_BREAKS_ARM, Trail!Draw
<1>2. n \in Int /\ m \in Int /\ -(5 + 4 * n) \in Int
  BY DEF Trail!Draw
<1>3. Family(Trail!Miles(g, -(5 + 4 * n)), t, j)
  BY <1>2, Moved
<1>4. QED  BY <1>1, <1>2, <1>3 DEF Family, Goods

LEMMA Water ==
  ASSUME NEW g, NEW t, NEW j, Family(g, t, j), NEW h \in Trail!UNSAFE_WATER(g)
  PROVE  Family(h, t, j)
<1>1. PICK n \in Trail!Draw(1, 10) : h = Trail!Miles(g, -(10 * n + 2))
  BY DEF Trail!UNSAFE_WATER, Trail!Draw
<1>2. n \in Int /\ -(10 * n + 2) \in Int
  BY DEF Trail!Draw
<1>3. Family(Trail!Miles(g, -(10 * n + 2)), t, j)
  BY <1>2, Moved
<1>4. QED  BY <1>1, <1>2, <1>3 DEF Family, Goods

LEMMA Fire ==
  ASSUME NEW g, NEW t, NEW j, Family(g, t, j), NEW h \in Trail!FIRE_IN_WAGON(g)
  PROVE  Family(h, t, j)
<1>1. PICK n \in Trail!Draw(1, 8) : h = [Trail!Miles(g, -15) EXCEPT !.food = @ - 40, !.bullets = @ - 400, !.misc = @ - (8 * n + 3)]
  BY DEF Trail!FIRE_IN_WAGON, Trail!Draw
<1>2. n \in Int /\ -15 \in Int
  BY DEF Trail!Draw
<1>3. Family(Trail!Miles(g, -15), t, j)
  BY <1>2, Moved
<1>4. QED  BY <1>1, <1>2, <1>3 DEF Family, Goods

LEMMA Fog ==
  ASSUME NEW g, NEW t, NEW j, Family(g, t, j), NEW h \in Trail!LOSE_WAY_IN_FOG(g)
  PROVE  Family(h, t, j)
<1>1. PICK n \in Trail!Draw(1, 5) : h = Trail!Miles(g, -(10 + 5 * n))
  BY DEF Trail!LOSE_WAY_IN_FOG, Trail!Draw
<1>2. n \in Int /\ -(10 + 5 * n) \in Int
  BY DEF Trail!Draw
<1>3. Family(Trail!Miles(g, -(10 + 5 * n)), t, j)
  BY <1>2, Moved
<1>4. QED  BY <1>1, <1>2, <1>3 DEF Family, Goods

LEMMA Swamped ==
  ASSUME NEW g, NEW t, NEW j, Family(g, t, j), NEW h \in Trail!WAGON_SWAMPED_FORDING(g)
  PROVE  Family(h, t, j)
<1>1. PICK n \in Trail!Draw(1, 20) : h = [Trail!Miles(g, -(20 + 20 * n)) EXCEPT !.food = @ - 30, !.clothing = @ - 20]
  BY DEF Trail!WAGON_SWAMPED_FORDING, Trail!Draw
<1>2. n \in Int /\ -(20 + 20 * n) \in Int
  BY DEF Trail!Draw
<1>3. Family(Trail!Miles(g, -(20 + 20 * n)), t, j)
  BY <1>2, Moved
<1>4. QED  BY <1>1, <1>2, <1>3 DEF Family, Goods

LEMMA Hail ==
  ASSUME NEW g, NEW t, NEW j, Family(g, t, j), NEW h \in Trail!HAIL_STORM(g)
  PROVE  Family(h, t, j)
<1>1. PICK n \in Trail!Draw(1, 10), m \in Trail!Draw(1, 3) : h = [Trail!Miles(g, -(5 + 10 * n)) EXCEPT !.bullets = @ - 200, !.misc = @ - (4 + 3 * m)]
  BY DEF Trail!HAIL_STORM, Trail!Draw
<1>2. n \in Int /\ m \in Int /\ -(5 + 10 * n) \in Int
  BY DEF Trail!Draw
<1>3. Family(Trail!Miles(g, -(5 + 10 * n)), t, j)
  BY <1>2, Moved
<1>4. QED  BY <1>1, <1>2, <1>3 DEF Family, Goods

LEMMA Rains ==
  ASSUME NEW g, NEW t, NEW j, Family(g, t, j), NEW h \in Trail!HEAVY_RAINS(g)
  PROVE  Family(h, t, j)
<1>1. CASE h = g
  BY <1>1
<1>2. CASE \E n \in Trail!Draw(1, 10) :
             h = [Trail!Miles(g, -(10 * n + 5)) EXCEPT !.food = @ - 10, !.bullets = @ - 500, !.misc = @ - 15]
  <2>1. PICK n \in Trail!Draw(1, 10) :
          h = [Trail!Miles(g, -(10 * n + 5)) EXCEPT !.food = @ - 10, !.bullets = @ - 500, !.misc = @ - 15]
    BY <1>2
  <2>2. -(10 * n + 5) \in Int
    BY DEF Trail!Draw
  <2>3. Family(Trail!Miles(g, -(10 * n + 5)), t, j)
    BY <2>2, Moved
  <2>4. QED  BY <2>1, <2>3 DEF Family, Goods
<1>3. QED  BY <1>1, <1>2 DEF Trail!HEAVY_RAINS, Trail!Draw

LEMMA Events ==
  ASSUME NEW g, NEW t, NEW j, Family(g, t, j), NEW event \in 0 .. 14, NEW h \in Trail!handle_event(g, event)
  PROVE  Family(h, t, j)
<1>1. \/ h \in Trail!WAGON_BREAKDOWN(g) \/ h \in Trail!OX_INJURY(g) \/ h \in Trail!DAUGHTER_BREAKS_ARM(g) \/ h \in Trail!OX_WANDERS_OFF(g)
      \/ h \in Trail!SON_GETS_LOST(g) \/ h \in Trail!UNSAFE_WATER(g) \/ h \in Trail!HEAVY_RAINS(g) \/ h \in Trail!BANDITS_ATTACK(g)
      \/ h \in Trail!FIRE_IN_WAGON(g) \/ h \in Trail!LOSE_WAY_IN_FOG(g) \/ h = Trail!POISONOUS_SNAKE(g) \/ h \in Trail!WAGON_SWAMPED_FORDING(g)
      \/ h \in Trail!WILD_ANIMALS_ATTACK(g) \/ h \in Trail!COLD_WEATHER(g) \/ h \in Trail!HAIL_STORM(g)
  BY DEF Trail!handle_event
<1>2. CASE h \in Trail!OX_INJURY(g)
  <2>1. Family(Trail!Miles(g, -25), t, j)
    BY Moved
  <2>2. QED  BY <1>2, <2>1 DEF Trail!OX_INJURY, Family, Goods
<1>3. CASE h \in Trail!OX_WANDERS_OFF(g) \/ h \in Trail!SON_GETS_LOST(g)
  BY <1>3, Moved DEF Trail!OX_WANDERS_OFF, Trail!SON_GETS_LOST
<1>4. QED
  BY <1>1, <1>2, <1>3, Breakdown, Arm, Water, Rains, Bandits, Fire, Fog, Snake, Swamped, Animals, Cold, Hail

-----------------------------------------------------------------------------
(* Mountains *)

LEMMA Blizzards ==
  ASSUME NEW g, NEW t, NEW j, Family(g, t, j), NEW h \in Trail!Blizzard(g)
  PROVE  Family(h, t, j)
<1>1. PICK n \in Trail!Draw(1, 40), m \in Trail!Draw(1, 2) :
        LET k == [Trail!Miles(g, -(30 + 40 * n)) EXCEPT !.food = @ - 25, !.misc = @ - 10, !.bullets = @ - 300]
        IN  h \in IF k.clothing < 18 + 2 * m THEN Trail!handle_illness(k) ELSE {k}
  BY DEF Trail!Blizzard, Trail!Draw
<1> DEFINE k == [Trail!Miles(g, -(30 + 40 * n)) EXCEPT !.food = @ - 25, !.misc = @ - 10, !.bullets = @ - 300]
<1>2. Family(k, t, j)
  <2>1. -(30 + 40 * n) \in Int
    BY DEF Trail!Draw
  <2>2. Family(Trail!Miles(g, -(30 + 40 * n)), t, j)
    BY <2>1, Moved
  <2>3. QED  BY <2>2 DEF Family, Goods
<1>3. h = k \/ h \in Trail!handle_illness(k)
  BY <1>1
<1> HIDE DEF k
<1>4. QED  BY <1>2, <1>3, Illness

LEMMA Passes ==
  ASSUME NEW g, NEW t, NEW j, Family(g, t, j), NEW h \in Trail!check_mountain_events(g)
  PROVE  Family(h, t, j)
<1>1. \/ h \in Trail!Blizzard(g) \/ h = [g EXCEPT !.passes = @ \cup {"south"}] \/ h = [g EXCEPT !.passes = @ \cup {"blue"}]
  BY DEF Trail!check_mountain_events
<1>2. QED  BY <1>1, Blizzards DEF Family, Goods

LEMMA Slowed ==
  ASSUME NEW g, NEW t, NEW j, Family(g, t, j), NEW n \in Trail!Draw(1, 30)
  PROVE  Family([Trail!Miles(g, -(20 + 30 * n)) EXCEPT !.misc = @ - 5, !.bullets = @ - 200], t, j)
<1>1. -(20 + 30 * n) \in Int
  BY DEF Trail!Draw
<1>2. Family(Trail!Miles(g, -(20 + 30 * n)), t, j)
  BY <1>1, Moved
<1>3. QED  BY <1>2 DEF Family, Goods

LEMMA Mountains ==
  ASSUME MOUNTAINS \in Int, NEW g, NEW t, NEW j, Family(g, t, j), NEW h \in Trail!mountain_travel(g)
  PROVE  Family(h, t, j)
<1> DEFINE ruggedly(n) == [Trail!Miles(g, -(20 + 30 * n)) EXCEPT !.misc = @ - 5, !.bullets = @ - 200]
           slow == {Trail!Miles(g, -60), Trail!Miles(g, -45), Trail!Miles(g, -95)} \cup {ruggedly(n) : n \in Trail!Draw(1, 30)}
<1>1. h = g \/ h \in Trail!Then(slow, Trail!check_mountain_events)
  BY DEF Trail!mountain_travel
<1>2. \A k \in slow : Family(k, t, j)
  <2>1. Family(Trail!Miles(g, -60), t, j) /\ Family(Trail!Miles(g, -45), t, j) /\ Family(Trail!Miles(g, -95), t, j)
    BY Moved
  <2>2. \A n \in Trail!Draw(1, 30) : Family(ruggedly(n), t, j)
    BY Slowed
  <2> HIDE DEF ruggedly
  <2>3. QED  BY <2>1, <2>2
<1> HIDE DEF slow
<1>3. ASSUME h \in Trail!Then(slow, Trail!check_mountain_events)
      PROVE  Family(h, t, j)
  <2>1. PICK k \in slow : h \in IF k.over = "no" THEN Trail!check_mountain_events(k) ELSE {k}
    BY <1>3 DEF Trail!Then
  <2>2. QED  BY <1>2, <2>1, Passes
<1>4. QED  BY <1>1, <1>3

-----------------------------------------------------------------------------
(* A turn *)

LEMMA Meetings ==
  ASSUME NEW g, NEW t, NEW j, Family(g, t, j), NEW day, day.level \in Int, NEW h \in Trail!Met(g, day)
  PROVE  Family(h, t, j)
<1> DEFINE on == Trail!Then(Trail!check_eating_and_health(g, day.level), Trail!Onward)
<1>1. ASSUME NEW k \in on
      PROVE  Family(k, t, j)
  <2>1. PICK m \in Trail!check_eating_and_health(g, day.level) : k \in IF m.over = "no" THEN Trail!Onward(m) ELSE {m}
    BY <1>1 DEF Trail!Then
  <2>2. QED  BY <2>1, Eaten, Onwards
<1>2. h \in on \/ h \in Trail!Then(on, Trail!check_for_riders)
  BY DEF Trail!Met
<1> HIDE DEF on
<1>3. ASSUME h \in Trail!Then(on, Trail!check_for_riders)
      PROVE  Family(h, t, j)
  <2>1. PICK k \in on : h \in IF k.over = "no" THEN Trail!check_for_riders(k) ELSE {k}
    BY <1>3 DEF Trail!Then
  <2>2. QED  BY <1>1, <2>1, Riders
<1>4. QED  BY <1>1, <1>2, <1>3

LEMMA Travels ==
  ASSUME Trail!ConstantsOK, NEW g, NEW t, NEW j, Family(g, t, j), Trail!Days(j), t \in DOMAIN j, NEW h \in Trail!travel_segment(g)
  PROVE  Family(h, t, j)
<1>1. CASE g.food < 13
  BY <1>1 DEF Trail!travel_segment, Trail!handle_death, Family, Goods
<1>2. CASE ~(g.food < 13)
  <2>1. PICK day \in j[t] :
          LET process_random_events(k) == Trail!handle_event(k, day.event)
          IN  h \in Trail!Then(Trail!Then(Trail!Met(g, day), process_random_events), Trail!mountain_travel)
    BY <1>2 DEF Trail!travel_segment, Family, Goods
  <2>2. day.event \in 0 .. 14 /\ day.level \in Int /\ MOUNTAINS \in Int
    BY DEF Trail!Days, Trail!ConstantsOK
  <2> DEFINE process_random_events(k) == Trail!handle_event(k, day.event)
             met == Trail!Met(g, day)
             befallen == Trail!Then(met, process_random_events)
  <2>3. \A k \in met : Family(k, t, j)
    BY <2>2, Meetings
  <2>4. h \in Trail!Then(befallen, Trail!mountain_travel)
    BY <2>1
  <2>5. ASSUME NEW m \in befallen
        PROVE  Family(m, t, j)
    <3> HIDE DEF met
    <3>1. PICK k \in met : m \in IF k.over = "no" THEN Trail!handle_event(k, day.event) ELSE {k}
      BY <2>5 DEF Trail!Then
    <3>2. QED  BY <2>2, <2>3, <3>1, Events
  <2> HIDE DEF befallen
  <2>6. PICK m \in befallen : h \in IF m.over = "no" THEN Trail!mountain_travel(m) ELSE {m}
    BY <2>4 DEF Trail!Then
  <2>7. QED  BY <2>2, <2>5, <2>6, Mountains
<1>3. QED  BY <1>1, <1>2

(* An amount that may be paid is one the cash has. *)
LEMMA Bought ==
  ASSUME Trail!ConstantsOK, NEW g, NEW t, NEW j, Family(g, t, j), NEW a \in Trail!get_purchase_amount(g)
  PROVE  /\ (2 * a) \div 3 \in Int /\ Family([g EXCEPT !.cash = @ - a], t, j)
<1>1. a \in Nat /\ a <= g.cash
  BY DEF Trail!get_purchase_amount, Trail!ConstantsOK, Family, Goods
<1>2. (2 * a) \div 3 \in Int
  BY <1>1
<1>3. g.cash - a \in Nat
  BY <1>1 DEF Family, Goods
<1>4. QED  BY <1>2, <1>3 DEF Family, Goods

LEMMA Forts ==
  ASSUME Trail!ConstantsOK, NEW g, NEW t, NEW j, Family(g, t, j), NEW h \in Trail!visit_fort(g)
  PROVE  Family(h, t, j)
<1> DEFINE Paid(k, a) == [k EXCEPT !.cash = @ - a]
           fed(k, a) == [Paid(k, a) EXCEPT !.food = @ + (2 * a) \div 3]
           armed(k, a) == [Paid(k, a) EXCEPT !.bullets = @ + 50 * ((2 * a) \div 3)]
           clothed(k, a) == [Paid(k, a) EXCEPT !.clothing = @ + (2 * a) \div 3]
           supplied(k, a) == [Paid(k, a) EXCEPT !.misc = @ + (2 * a) \div 3]
           Food(k) == {fed(k, a) : a \in Trail!get_purchase_amount(k)}
           Ammunition(k) == {armed(k, a) : a \in Trail!get_purchase_amount(k)}
           Clothing(k) == {clothed(k, a) : a \in Trail!get_purchase_amount(k)}
           Supplies(k) == {supplied(k, a) : a \in Trail!get_purchase_amount(k)}
           s1 == Trail!Then(Food(g), Ammunition)
           s2 == Trail!Then(s1, Clothing)
<1>1. h \in Trail!Then(s2, Supplies)
  BY Zenon DEF Trail!visit_fort
<1>2. ASSUME NEW k, Family(k, t, j), NEW a \in Trail!get_purchase_amount(k)
      PROVE  /\ Family(fed(k, a), t, j) /\ Family(armed(k, a), t, j)
             /\ Family(clothed(k, a), t, j) /\ Family(supplied(k, a), t, j)
  <2> DEFINE d == (2 * a) \div 3
             p == Paid(k, a)
  <2>1. d \in Int /\ Family(p, t, j)
    BY <1>2, Bought
  <2> HIDE DEF d, p
  <2>2. 50 * d \in Int
    BY <2>1
  <2>3. /\ Family([p EXCEPT !.food = @ + d], t, j) /\ Family([p EXCEPT !.bullets = @ + 50 * d], t, j)
        /\ Family([p EXCEPT !.clothing = @ + d], t, j) /\ Family([p EXCEPT !.misc = @ + d], t, j)
    BY <2>1, <2>2 DEF Family, Goods
  <2>4. QED  BY <2>3 DEF d, p
<1> HIDE DEF Paid, fed, armed, clothed, supplied
<1>3. /\ \A k : Family(k, t, j) => \A m \in Food(k) : Family(m, t, j)
      /\ \A k : Family(k, t, j) => \A m \in Ammunition(k) : Family(m, t, j)
      /\ \A k : Family(k, t, j) => \A m \in Clothing(k) : Family(m, t, j)
      /\ \A k : Family(k, t, j) => \A m \in Supplies(k) : Family(m, t, j)
  BY <1>2
<1> HIDE DEF Food, Ammunition, Clothing, Supplies
<1>4. \A m \in s1 : Family(m, t, j)
  BY <1>3 DEF Trail!Then
<1> HIDE DEF s1
<1>5. \A m \in s2 : Family(m, t, j)
  BY <1>3, <1>4 DEF Trail!Then
<1> HIDE DEF s2
<1>6. QED  BY <1>1, <1>3, <1>5 DEF Trail!Then

LEMMA Turns ==
  ASSUME Trail!ConstantsOK, NEW g, NEW t, NEW j, Family(g, t, j), Trail!Days(j), t \in DOMAIN j, NEW h \in Trail!handle_turn_choice(g)
  PROVE  Family(h, t, j)
<1>1. CASE h \in Trail!travel_segment(g) \/ h = g
  BY <1>1, Travels
<1>2. CASE h \in Trail!Then(Trail!Stop(g), Trail!travel_segment)
  <2>1. PICK k \in Trail!Stop(g) : h \in IF k.over = "no" THEN Trail!travel_segment(k) ELSE {k}
    BY <1>2 DEF Trail!Then
  <2>2. PICK m \in Trail!visit_fort(g) : k = Trail!Miles(m, -45)
    BY DEF Trail!Stop
  <2>3. Family(m, t, j)
    BY Forts
  <2>4. Family(k, t, j)
    BY <2>2, <2>3, Moved
  <2>5. QED  BY <2>1, <2>4, Travels
<1>3. CASE h \in Trail!Then(Trail!Hunt(g), Trail!travel_segment)
  <2>1. PICK k \in Trail!Hunt(g) : h \in IF k.over = "no" THEN Trail!travel_segment(k) ELSE {k}
    BY <1>3 DEF Trail!Then
  <2>2. PICK m \in Trail!go_hunting(g) : k = Trail!Miles(m, -45)
    BY DEF Trail!Hunt
  <2>3. Family(m, t, j)
    BY Hunting
  <2>4. Family(k, t, j)
    BY <2>2, <2>3, Moved
  <2>5. QED  BY <2>1, <2>4, Travels
<1>4. QED  BY <1>1, <1>2, <1>3 DEF Trail!handle_turn_choice

-----------------------------------------------------------------------------
(* Between turns *)

(* What holds when the family decides, and what Decided says of it. *)
Stocked(g) == g.food >= 0 /\ g.bullets >= 0 /\ g.clothing >= 0 /\ g.misc >= 0 /\ g.turn <= LAST_TURN
Where(over, miles) == /\ over = "no" => miles < TOTAL_DISTANCE
                      /\ over = "arrived" => miles >= TOTAL_DISTANCE
Trek(g) ==
  /\ Goods(g) /\ g.turn \in Nat /\ Trail!Days(g.journey) /\ Where(g.over, g.miles)
  /\ g.over = "no" => Stocked(g) /\ g.flags = {}
  /\ g.over = "arrived" => Stocked(g)

LEMMA Validated ==
  ASSUME NEW g, Goods(g), NEW v, v = Trail!validate_resources(g)
  PROVE  /\ Goods(v) /\ v.food >= 0 /\ v.bullets >= 0 /\ v.clothing >= 0 /\ v.misc >= 0
         /\ v.turn = g.turn /\ v.journey = g.journey /\ v.over = g.over /\ v.miles = g.miles
  BY DEF Trail!validate_resources, Trail!NonNegative, Goods

LEMMA Underway ==
  ASSUME NEW h, Goods(h), h.turn \in Nat, Trail!Days(h.journey), Stocked(h), h.flags = {}, Where(h.over, h.miles)
  PROVE  Trek(h)
  BY Zenon DEF Trek

LEMMA Ended ==
  ASSUME NEW h, Goods(h), h.turn \in Nat, Trail!Days(h.journey), h.over # "no", h.over # "arrived"
  PROVE  Trek(h)
  BY Zenon DEF Trek, Where

LEMMA Paying ==
  ASSUME NEW g, Goods(g), g.turn \in Nat, Trail!Days(g.journey), Stocked(g), Where(g.over, g.miles),
         NEW h, h = Trail!pay_doctor_bill(g)
  PROVE  Trek(h)
<1>1. CASE g.flags = {}
  <2>1. h = g
    BY <1>1 DEF Trail!pay_doctor_bill
  <2>2. QED  BY <1>1, <2>1, Underway
<1>2. CASE g.flags # {} /\ g.cash < 20
  <2>1. h = [g EXCEPT !.cash = 0, !.over = "disease"]
    BY <1>2 DEF Trail!pay_doctor_bill, Trail!handle_death
  <2>2. Goods(h) /\ h.turn = g.turn /\ h.journey = g.journey /\ h.over = "disease"
    BY <2>1 DEF Goods
  <2>3. h.turn \in Nat /\ Trail!Days(h.journey) /\ h.over # "no" /\ h.over # "arrived"
    BY <2>2
  <2>4. QED  BY <2>2, <2>3, Ended
<1>3. CASE g.flags # {} /\ ~(g.cash < 20)
  <2>1. h = [g EXCEPT !.cash = @ - 20, !.flags = {}]
    BY <1>3 DEF Trail!pay_doctor_bill
  <2>2. g.cash - 20 \in Nat
    BY <1>3 DEF Goods
  <2>3. /\ Goods(h) /\ h.turn = g.turn /\ h.journey = g.journey /\ h.over = g.over /\ h.miles = g.miles /\ h.flags = {}
        /\ h.food = g.food /\ h.bullets = g.bullets /\ h.clothing = g.clothing /\ h.misc = g.misc
    BY <2>1, <2>2 DEF Goods
  <2>4. h.turn \in Nat /\ Trail!Days(h.journey) /\ Where(h.over, h.miles)
    BY <2>3
  <2>5. Stocked(h)
    BY <2>3 DEF Stocked
  <2>6. QED  BY <2>3, <2>4, <2>5, Underway
<1>4. QED  BY <1>1, <1>2, <1>3

LEMMA Begins ==
  ASSUME LAST_TURN \in Nat, NEW g, Goods(g), g.turn \in Nat, Trail!Days(g.journey), g.turn < LAST_TURN, Where(g.over, g.miles)
  PROVE  Trek(Trail!BeginTurn(g))
<1> DEFINE k == [g EXCEPT !.turn = @ + 1, !.previous = g.miles]
           v == Trail!validate_resources(k)
<1>1. Trail!BeginTurn(g) = Trail!pay_doctor_bill(v)
  BY DEF Trail!BeginTurn
<1>2. Goods(k) /\ k.turn = g.turn + 1 /\ k.journey = g.journey /\ k.over = g.over /\ k.miles = g.miles
  BY DEF Goods
<1> HIDE DEF k
<1>3. /\ Goods(v) /\ v.food >= 0 /\ v.bullets >= 0 /\ v.clothing >= 0 /\ v.misc >= 0
      /\ v.turn = k.turn /\ v.journey = k.journey /\ v.over = k.over /\ v.miles = k.miles
  BY <1>2, Validated
<1> HIDE DEF v
<1>4. Stocked(v) /\ v.turn \in Nat
  BY <1>2, <1>3 DEF Stocked
<1>5. Trail!Days(v.journey) /\ Where(v.over, v.miles)
  BY <1>2, <1>3
<1>6. QED  BY <1>1, <1>3, <1>4, <1>5, Paying

LEMMA TrekBegins == ASSUME Trail!ConstantsOK, Trail!Init PROVE Trek(app)
<1>1. PICK p \in Purchases, skill \in {1, 5}, journey \in Journeys :
        /\ p.oxen \in 200 .. 300 /\ Trail!Spent(p) <= Trail!AVAILABLE_MONEY
        /\ app = [food |-> p.food, bullets |-> p.ammo * 50, clothing |-> p.clothing, misc |-> p.misc,
                   cash |-> Trail!AVAILABLE_MONEY - Trail!Spent(p), oxen |-> p.oxen, miles |-> 0, previous |-> 0,
                   turn |-> 0, skill |-> skill, eating |-> 0, flags |-> {}, passes |-> {},
                   fort |-> TRUE, journey |-> journey, over |-> "no"]
  BY Zenon DEF Trail!Init
<1>2. Trail!Days(journey)
  BY Zenon DEF Trail!ConstantsOK
<1>3. /\ p.food \in Nat /\ p.ammo \in Nat /\ p.clothing \in Nat /\ p.misc \in Nat /\ p.oxen \in Nat
      /\ TOTAL_DISTANCE \in Nat \ {0} /\ LAST_TURN \in Nat \ {0}
  BY Zenon DEF Trail!ConstantsOK
<1>4. Trail!Spent(p) \in Nat
  BY <1>3 DEF Trail!Spent
<1>5. Trail!AVAILABLE_MONEY - Trail!Spent(p) \in Nat /\ p.ammo * 50 \in Nat
  BY <1>1, <1>3, <1>4 DEF Trail!AVAILABLE_MONEY
<1>6. /\ Goods(app) /\ app.turn = 0 /\ app.journey = journey /\ app.over = "no" /\ app.flags = {} /\ app.miles = 0
      /\ app.food = p.food /\ app.bullets = p.ammo * 50 /\ app.clothing = p.clothing /\ app.misc = p.misc
  BY <1>1, <1>3, <1>5 DEF Goods
<1>7. Stocked(app) /\ app.turn \in Nat
  BY <1>3, <1>5, <1>6 DEF Stocked
<1>8. Where(app.over, app.miles)
  BY <1>3, <1>6 DEF Where
<1>9. QED  BY <1>2, <1>6, <1>7, <1>8, Underway

LEMMA Starts == ASSUME Trail!ConstantsOK, Trek(app), Trail!Start PROVE Trek(app')
<1>1. LAST_TURN \in Nat \ {0} /\ app.turn = 0 /\ app' = Trail!BeginTurn(app)
  BY Zenon DEF Trail!Start, Trail!ConstantsOK
<1>2. Goods(app) /\ app.turn \in Nat /\ Trail!Days(app.journey) /\ Where(app.over, app.miles)
  BY Zenon DEF Trek
<1>3. QED  BY <1>1, <1>2, Begins

LEMMA Decides == ASSUME Trail!ConstantsOK, Trek(app), Trail!process_turn PROVE Trek(app')
<1> DEFINE t == app.turn
           j == app.journey
<1>1. /\ Goods(app) /\ Trail!Days(j) /\ t \in Nat /\ Stocked(app) /\ app.over = "no" /\ t \in DOMAIN j
      /\ TOTAL_DISTANCE \in Nat \ {0} /\ LAST_TURN \in Nat \ {0}
  BY Zenon DEF Trail!process_turn, Trek, Trail!ConstantsOK
<1>2. Family(app, t, j) /\ t <= LAST_TURN
  BY <1>1 DEF Family, Stocked
<1>3. PICK g \in Trail!handle_turn_choice(app) :
        LET end == [g EXCEPT !.fort = ~@]
        IN  app' = CASE g.over # "no" -> g
                      [] g.over = "no" /\ g.miles >= TOTAL_DISTANCE -> [Trail!validate_resources(end) EXCEPT !.over = "arrived"]
                      [] g.over = "no" /\ g.miles < TOTAL_DISTANCE /\ g.turn >= LAST_TURN -> Trail!handle_death(end, "winter")
                      [] OTHER -> Trail!BeginTurn(end)
  BY Zenon DEF Trail!process_turn
<1>4. Family(g, t, j)
  BY <1>1, <1>2, Turns
<1> DEFINE end == [g EXCEPT !.fort = ~@]
<1>5. Family(end, t, j) /\ end.over = g.over /\ end.miles = g.miles /\ g.miles \in Int /\ g.turn = t /\ end.turn = t
  BY <1>4 DEF Family, Goods
<1> HIDE DEF t, j
<1>6. ASSUME NEW h, h = app' PROVE Trek(h)
  <2>1. h = CASE g.over # "no" -> g
              [] g.over = "no" /\ g.miles >= TOTAL_DISTANCE -> [Trail!validate_resources(end) EXCEPT !.over = "arrived"]
              [] g.over = "no" /\ g.miles < TOTAL_DISTANCE /\ g.turn >= LAST_TURN -> Trail!handle_death(end, "winter")
              [] OTHER -> Trail!BeginTurn(end)
    BY <1>3, <1>6
  <2> HIDE DEF end
  <2>2. CASE g.over # "no"
    <3>1. h = g
      BY <2>1, <2>2
    <3>2. Goods(g) /\ g.turn \in Nat /\ Trail!Days(g.journey) /\ g.over # "arrived"
      BY <1>1, <1>4 DEF Family
    <3>3. QED  BY <2>2, <3>1, <3>2, Ended
  <2>3. CASE g.over = "no" /\ g.miles >= TOTAL_DISTANCE
    <3> DEFINE v == Trail!validate_resources(end)
           a == [v EXCEPT !.over = "arrived"]
           b == Trail!handle_death(end, "winter")
           c == Trail!BeginTurn(end)
    <3>1. h = a
      <4>1. h = CASE g.over # "no" -> g
                  [] g.over = "no" /\ g.miles >= TOTAL_DISTANCE -> a
                  [] g.over = "no" /\ g.miles < TOTAL_DISTANCE /\ g.turn >= LAST_TURN -> b
                  [] OTHER -> c
        BY <2>1
      <4> HIDE DEF a, b, c
      <4>2. ~(g.miles < TOTAL_DISTANCE)
        BY <1>1, <1>5, <2>3
      <4>3. QED  BY <2>3, <4>1, <4>2
    <3>2. Goods(end) /\ end.turn = t /\ end.journey = j
      BY <1>5 DEF Family
    <3>3. /\ Goods(v) /\ v.food >= 0 /\ v.bullets >= 0 /\ v.clothing >= 0 /\ v.misc >= 0
          /\ v.turn = end.turn /\ v.journey = end.journey /\ v.miles = end.miles
      BY <3>2, Validated
    <3> HIDE DEF v
    <3>4. /\ Goods(h) /\ h.food = v.food /\ h.bullets = v.bullets /\ h.clothing = v.clothing
          /\ h.misc = v.misc /\ h.turn = v.turn /\ h.journey = v.journey /\ h.miles = v.miles /\ h.over = "arrived"
      BY <3>1, <3>3 DEF Goods
    <3>5. h.turn \in Nat /\ Trail!Days(h.journey)
      BY <1>1, <3>2, <3>3, <3>4
    <3>6. Stocked(h)
      BY <1>2, <3>2, <3>3, <3>4 DEF Stocked
    <3>7. Where(h.over, h.miles)
      BY <1>5, <2>3, <3>3, <3>4 DEF Where
    <3>8. h.over # "no"
      BY <3>4
    <3>9. QED  BY <3>4, <3>5, <3>6, <3>7, <3>8, Zenon DEF Trek
  <2>4. CASE g.over = "no" /\ g.miles < TOTAL_DISTANCE /\ g.turn >= LAST_TURN
    <3>1. ~(g.miles >= TOTAL_DISTANCE)
      BY <1>1, <1>5, <2>4
    <3>2. h = [end EXCEPT !.over = "winter"]
      BY <2>1, <2>4, <3>1 DEF Trail!handle_death
    <3>3. Goods(h) /\ h.turn = t /\ h.journey = j /\ h.over = "winter"
      BY <1>5, <3>2 DEF Family, Goods
    <3>4. h.turn \in Nat /\ Trail!Days(h.journey) /\ h.over # "no" /\ h.over # "arrived"
      BY <1>1, <3>3
    <3>5. QED  BY <3>3, <3>4, Ended
  <2>5. CASE g.over = "no" /\ g.miles < TOTAL_DISTANCE /\ g.turn < LAST_TURN
    <3>1. ~(g.miles >= TOTAL_DISTANCE) /\ ~(g.turn >= LAST_TURN)
      BY <1>1, <1>5, <2>5
    <3>2. h = Trail!BeginTurn(end)
      BY <2>1, <2>5, <3>1
    <3>3. Goods(end) /\ end.turn \in Nat /\ Trail!Days(end.journey) /\ end.turn < LAST_TURN
      BY <1>1, <1>5, <2>5 DEF Family
    <3>4. Where(end.over, end.miles)
      BY <1>5, <2>5 DEF Where
    <3>5. Trek(Trail!BeginTurn(end))
      BY <1>1, <3>3, <3>4, Begins
    <3>6. QED  BY <3>2, <3>5
  <2>6. g.miles < TOTAL_DISTANCE \/ g.miles >= TOTAL_DISTANCE
    BY <1>1, <1>5
  <2>7. g.turn < LAST_TURN \/ g.turn >= LAST_TURN
    BY <1>1, <1>5
  <2>8. QED  BY <2>2, <2>3, <2>4, <2>5, <2>6, <2>7, Zenon
<1>7. QED  BY <1>6

LEMMA TrekGoesOn == ASSUME Trail!ConstantsOK, Trek(app), [Trail!Next]_app PROVE Trek(app')
<1>1. CASE UNCHANGED app
  BY <1>1
<1>2. QED  BY <1>1, Starts, Decides DEF Trail!Next

LEMMA TrekDecided == ASSUME Trek(app) PROVE Trail!Decided
<1>1. /\ Goods(app) /\ Where(app.over, app.miles)
      /\ app.over = "no" => Stocked(app) /\ app.flags = {}
      /\ app.over = "arrived" => Stocked(app)
  BY Zenon DEF Trek
<1>2. app.cash >= 0
  BY <1>1 DEF Goods
<1>3. Stocked(app) => Trail!Supplied
  BY <1>2 DEF Stocked, Trail!Supplied
<1>4. QED  BY <1>1, <1>3, Zenon DEF Where, Trail!Decided

(* Whatever is bought at the start and happens on the way: a family that       *)
(* decides how to go on owes no doctor, has no supply below zero and is before *)
(* winter, and one that arrives is there before winter too                     *)
(* (oregon-trail/main.c).                                                    *)
THEOREM JourneysDecided == GameSpec => []Decided
<1> DEFINE Held == tape = "oregon" => Trek(app)
<1>1. GameInit => Held
  BY GamesConstants, TrekBegins DEF GameInit
<1>2. Held /\ [GameNext /\ UNCHANGED tape]_<<tape, app>> => Held'
  <2> SUFFICES ASSUME Held, [GameNext /\ UNCHANGED tape]_<<tape, app>>, tape' = "oregon"
               PROVE  Trek(app)'
    OBVIOUS
  <2>1. Trek(app) /\ [Trail!Next]_app
    BY DEF GameNext
  <2>2. Trek(app')
    BY <2>1, GamesConstants, TrekGoesOn
  <2>3. QED  BY <2>2, Zenon DEF Trek, Where, Goods, Trail!Days, Stocked
<1>3. Held => Decided
  BY TrekDecided DEF Decided
<1>4. QED  BY <1>1, <1>2, <1>3, PTL DEF GameSpec

-----------------------------------------------------------------------------
(* Sudoku.  *)

Digits == 0 .. N
Calls == [at : Puzzle!Squares, digit : 1 .. N + 1]
Grids == [Puzzle!Squares -> Digits]
Related(i, j) == i \div N = j \div N \/ i % N = j % N \/ Puzzle!SameBox(i, j)

-----------------------------------------------------------------------------
(* Rows, columns and boxes *)

LEMMA Division ==
  ASSUME NEW a \in Nat, NEW m \in Nat \ {0}, NEW q \in Nat, NEW r \in Nat, a = m * q + r, r < m
  PROVE  a \div m = q /\ a % m = r
  OBVIOUS

LEMMA Times ==
  ASSUME NEW m \in Nat, NEW x \in Nat, NEW y \in Nat, x <= y
  PROVE  m * x \in Nat /\ m * y \in Nat /\ m * x <= m * y
<1>1. m * (y - x) \in Nat /\ m * (y - x) = m * y - m * x
  OBVIOUS
<1>2. QED  BY <1>1

LEMMA Divided ==
  ASSUME NEW a \in Nat, NEW m \in Nat \ {0}
  PROVE  /\ a \div m \in Nat /\ a % m \in 0 .. m - 1 /\ a = m * (a \div m) + (a % m)
         /\ \A n \in Nat : a < m * n <=> a \div m < n
<1> DEFINE q == a \div m
           r == a % m
<1>1. q \in Nat /\ r \in 0 .. m - 1 /\ a = m * q + r
  OBVIOUS
<1> HIDE DEF q, r
<1>2. ASSUME NEW n \in Nat
      PROVE  a < m * n <=> q < n
  <2> DEFINE x == m * q
             y == m * n
  <2>1. x \in Nat /\ y \in Nat /\ a = x + r
    BY <1>1
  <2>2. CASE q < n
    <3>1. q + 1 \in Nat /\ q + 1 <= n
      BY <1>1, <2>2
    <3>2. m * (q + 1) <= y
      BY <3>1, Times
    <3>3. m * (q + 1) = x + m
      BY <1>1
    <3> HIDE DEF x, y
    <3>4. x + m <= y
      BY <3>2, <3>3, Zenon
    <3>5. QED  BY <1>1, <2>1, <2>2, <3>4
  <2>3. CASE n <= q
    <3>1. y <= x
      BY <1>1, <2>3, Times
    <3> HIDE DEF x, y
    <3>2. QED  BY <1>1, <2>1, <2>3, <3>1
  <2>4. QED  BY <1>1, <2>2, <2>3
<1>3. QED  BY <1>1, <1>2 DEF q, r

(* A square's band of boxes, counted from the square or from its row. *)
LEMMA Bands ==
  ASSUME NEW a \in Nat, NEW m \in Nat \ {0}, NEW n \in Nat \ {0}
  PROVE  a \div (m * n) = (a \div m) \div n
<1> DEFINE q == a \div m
           r == a % m
           p == q \div n
           t == q % n
<1>1. q \in Nat /\ r \in 0 .. m - 1 /\ a = m * q + r
  BY Divided
<1> HIDE DEF q, r
<1>2. p \in Nat /\ t \in 0 .. n - 1 /\ q = n * p + t
  BY <1>1, Divided
<1> HIDE DEF p, t
<1>3. m * n \in Nat \ {0}
  OBVIOUS
<1>4. a = (m * n) * p + (m * t + r)
  <2>1. m * q = m * (n * p) + m * t
    BY <1>2
  <2>2. m * (n * p) = (m * n) * p
    BY <1>2
  <2>3. QED  BY <1>1, <1>2, <2>1, <2>2
<1>5. m * t + r \in Nat /\ m * t + r < m * n
  <2> DEFINE x == m * t
             y == m * n
  <2>1. t + 1 \in Nat /\ t + 1 <= n
    BY <1>2
  <2>2. m * (t + 1) <= y /\ y \in Nat
    BY <2>1, Times
  <2>3. m * (t + 1) = x + m /\ x \in Nat
    BY <1>2
  <2> HIDE DEF x, y
  <2>4. x + m <= y
    BY <2>2, <2>3, Zenon
  <2>5. x + r \in Nat /\ x + r < y
    BY <1>1, <2>2, <2>3, <2>4
  <2>6. QED  BY <2>5 DEF x, y
<1>6. a \div (m * n) = p
  BY <1>2, <1>3, <1>4, <1>5, Division
<1>7. QED  BY <1>6 DEF p, q

LEMMA Square ==
  ASSUME Puzzle!ConstantsOK, NEW s \in Puzzle!Squares
  PROVE  /\ s \in Nat /\ s < N * N /\ N * N \in Nat
         /\ s \div N \in 0 .. N - 1 /\ s % N \in 0 .. N - 1
         /\ (s \div N) \div BOX \in 0 .. N \div BOX - 1 /\ (s % N) \div BOX \in 0 .. N \div BOX - 1
         /\ s \div (N * BOX) = (s \div N) \div BOX
<1>1. N \in Nat \ {0} /\ BOX \in Nat \ {0} /\ N % BOX = 0
  BY DEF Puzzle!ConstantsOK
<1>2. s \in Nat /\ s < N * N /\ N * N \in Nat
  BY <1>1 DEF Puzzle!Squares
<1>3. s \div N \in Nat /\ s % N \in 0 .. N - 1 /\ s \div N < N
  BY <1>1, <1>2, Divided
<1>4. N \div BOX \in Nat /\ N = BOX * (N \div BOX)
  BY <1>1, Divided
<1> DEFINE k == N \div BOX
<1>5. ASSUME NEW x \in Nat, x < N
      PROVE  x \div BOX \in 0 .. k - 1
  <2>1. x < BOX * k
    BY <1>4, <1>5
  <2>2. k \in Nat
    BY <1>4
  <2> HIDE DEF k
  <2>3. x \div BOX \in Nat /\ x \div BOX < k
    BY <1>1, <1>5, <2>1, <2>2, Divided
  <2>4. QED  BY <2>2, <2>3
<1>6. s \div N \in 0 .. N - 1
  BY <1>1, <1>3
<1>7. (s \div N) \div BOX \in 0 .. k - 1 /\ (s % N) \div BOX \in 0 .. k - 1
  BY <1>1, <1>3, <1>5
<1>8. s \div (N * BOX) = (s \div N) \div BOX
  BY <1>1, <1>2, Bands
<1>9. QED  BY <1>2, <1>3, <1>6, <1>7, <1>8

(* The units of the rules are what Conflict compares: T are the digits typed. *)
Completes(T, c) ==
  /\ \A s \in Puzzle!Squares : c[s] \in 1 .. N /\ (T[s + 1] # 0 => c[s] = T[s + 1])
  /\ \A s, t \in Puzzle!Squares : T[s + 1] = 0 /\ s # t /\ Related(s, t) => c[s] # c[t]

Row(n) == {s \in Puzzle!Squares : s \div N = n}
Column(n) == {s \in Puzzle!Squares : s % N = n}
BoxAt(r, c) == {s \in Puzzle!Squares : (s \div N) \div BOX = r /\ (s % N) \div BOX = c}

LEMMA IsUnit ==
  ASSUME NEW unit
  PROVE  unit \in Puzzle!Units <=> \/ \E n \in 0 .. N - 1 : unit = Row(n) \/ unit = Column(n)
                                   \/ \E r, c \in 0 .. N \div BOX - 1 : unit = BoxAt(r, c)
<1>1. Puzzle!Units = {Row(n) : n \in 0 .. N - 1} \cup {Column(n) : n \in 0 .. N - 1}
              \cup {BoxAt(r, c) : r, c \in 0 .. N \div BOX - 1}
  BY DEF Puzzle!Units, Row, Column, BoxAt
<1>2. unit \in {BoxAt(r, c) : r, c \in 0 .. N \div BOX - 1}
        <=> \E r, c \in 0 .. N \div BOX - 1 : unit = BoxAt(r, c)
  OBVIOUS
<1> DEFINE Bs == {BoxAt(r, c) : r, c \in 0 .. N \div BOX - 1}
<1> HIDE DEF Bs
<1>3. Puzzle!Units = {Row(n) : n \in 0 .. N - 1} \cup {Column(n) : n \in 0 .. N - 1} \cup Bs
  BY <1>1 DEF Bs
<1>4. unit \in Bs <=> \E r, c \in 0 .. N \div BOX - 1 : unit = BoxAt(r, c)
  BY <1>2 DEF Bs
<1>5. QED  BY <1>3, <1>4

LEMMA SameUnit ==
  ASSUME Puzzle!ConstantsOK, NEW s \in Puzzle!Squares, NEW t \in Puzzle!Squares
  PROVE  Related(s, t) <=> \E unit \in Puzzle!Units : s \in unit /\ t \in unit
<1>1. /\ s \div N \in 0 .. N - 1 /\ s % N \in 0 .. N - 1
      /\ (s \div N) \div BOX \in 0 .. N \div BOX - 1 /\ (s % N) \div BOX \in 0 .. N \div BOX - 1
      /\ s \div (N * BOX) = (s \div N) \div BOX /\ t \div (N * BOX) = (t \div N) \div BOX
  BY Square
<1>2. Puzzle!SameBox(s, t) <=> (s \div N) \div BOX = (t \div N) \div BOX /\ (s % N) \div BOX = (t % N) \div BOX
  BY <1>1, Zenon DEF Puzzle!SameBox
<1>3. ASSUME Related(s, t)
      PROVE  \E unit \in Puzzle!Units : s \in unit /\ t \in unit
  <2>1. CASE s \div N = t \div N
    <3>1. Row(s \div N) \in Puzzle!Units /\ s \in Row(s \div N) /\ t \in Row(s \div N)
      BY <1>1, <2>1, IsUnit, Zenon DEF Row
    <3>2. QED  BY <3>1
  <2>2. CASE s % N = t % N
    <3>1. Column(s % N) \in Puzzle!Units /\ s \in Column(s % N) /\ t \in Column(s % N)
      BY <1>1, <2>2, IsUnit, Zenon DEF Column
    <3>2. QED  BY <3>1
  <2>3. CASE Puzzle!SameBox(s, t)
    <3>1. BoxAt((s \div N) \div BOX, (s % N) \div BOX) \in Puzzle!Units
      BY <1>1, IsUnit, Zenon
    <3>2. /\ s \in BoxAt((s \div N) \div BOX, (s % N) \div BOX)
          /\ t \in BoxAt((s \div N) \div BOX, (s % N) \div BOX)
      BY <1>2, <2>3, Zenon DEF BoxAt
    <3>3. QED  BY <3>1, <3>2
  <2>4. QED  BY <1>3, <2>1, <2>2, <2>3 DEF Related
<1>4. ASSUME NEW unit \in Puzzle!Units, s \in unit, t \in unit
      PROVE  Related(s, t)
  <2>1. CASE \E n \in 0 .. N - 1 : unit = Row(n) \/ unit = Column(n)
    BY <1>4, <2>1, Zenon DEF Related, Row, Column
  <2>2. CASE \E r, c \in 0 .. N \div BOX - 1 : unit = BoxAt(r, c)
    BY <1>2, <1>4, <2>2, Zenon DEF Related, BoxAt
  <2>3. QED  BY <2>1, <2>2, IsUnit
<1>5. QED  BY <1>3, <1>4

LEMMA Rules ==
  ASSUME Puzzle!ConstantsOK, NEW c
  PROVE  Puzzle!Completion(c) <=> Completes(app.typed, c)
<1>1. (\A unit \in Puzzle!Units : \A s \in unit \ Puzzle!Given, t \in unit : s # t => c[s] # c[t])
        <=> \A s, t \in Puzzle!Squares : app.typed[s + 1] = 0 /\ s # t /\ Related(s, t) => c[s] # c[t]
  <2>1. \A unit \in Puzzle!Units : unit \subseteq Puzzle!Squares
    BY IsUnit DEF Row, Column, BoxAt
  <2>2. \A s \in Puzzle!Squares : s \in Puzzle!Given <=> app.typed[s + 1] # 0
    BY DEF Puzzle!Given
  <2>3. QED  BY <2>1, <2>2, SameUnit, Zenon
<1>2. (\A s \in Puzzle!Squares : c[s] \in 1 .. N /\ (s \in Puzzle!Given => c[s] = app.typed[s + 1]))
        <=> \A s \in Puzzle!Squares : c[s] \in 1 .. N /\ (app.typed[s + 1] # 0 => c[s] = app.typed[s + 1])
  BY DEF Puzzle!Given
<1>3. QED  BY <1>1, <1>2 DEF Puzzle!Completion, Completes

-----------------------------------------------------------------------------
(* The calls in progress: T are the digits typed, B is the board, C the calls, *)
(* m of which have put down their digit, and e the square they have come to.   *)

InOrder(T, C) ==
  \A i \in 1 .. Len(C) : T[C[i].at + 1] = 0 /\ \A k \in 1 .. i - 1 : C[k].at < C[i].at

(* A digit put down is none of those given or put down before in its units.    *)
Settled(T, B, C, m) ==
  \A i \in 1 .. m : /\ C[i].digit \in 1 .. N /\ B[C[i].at] = C[i].digit
                    /\ \A j \in Puzzle!Squares : j # C[i].at /\ Related(C[i].at, j) /\ (T[j + 1] # 0 \/ j < C[i].at)
                                            => B[j] # C[i].digit

(* Every empty square before e has its call.                                 *)
Reached(T, C, m, e) ==
  /\ \A i \in 1 .. m : C[i].at < e
  /\ \A s \in Puzzle!Squares : T[s + 1] = 0 /\ s < e => \E i \in 1 .. m : C[i].at = s

Untouched(T, B, C) ==
  \A s \in Puzzle!Squares : (\A i \in 1 .. Len(C) : C[i].at # s) => B[s] = T[s + 1]

(* No completion comes before the digits of the calls: each digit less than     *)
(* that of a call, below the same digits in the calls before, has been tried.  *)
Exhausted(T, C) ==
  \A c \in [Puzzle!Squares -> 1 .. N] : Completes(T, c) =>
    \A i \in 1 .. Len(C) : (\A k \in 1 .. i - 1 : c[C[k].at] = C[k].digit) => c[C[i].at] >= C[i].digit

Path(T, B, C, m, e) ==
  InOrder(T, C) /\ Settled(T, B, C, m) /\ Reached(T, C, m, e) /\ Untouched(T, B, C) /\ Exhausted(T, C)

LEMMA OnBoard ==
  ASSUME Puzzle!ConstantsOK, NEW C \in Seq(Calls)
  PROVE  /\ Len(C) \in Nat /\ N \in Nat /\ Puzzle!Squares \subseteq Nat
         /\ \A i \in 1 .. Len(C) : C[i].at \in Puzzle!Squares /\ C[i].at \in Nat /\ C[i].digit \in 1 .. N + 1 /\ C[i].digit \in Nat
<1>1. N \in Nat /\ N * N \in Nat
  BY DEF Puzzle!ConstantsOK
<1>2. Len(C) \in Nat /\ \A i \in 1 .. Len(C) : C[i] \in Calls
  OBVIOUS
<1>3. \A x \in Calls : x.at \in Puzzle!Squares /\ x.digit \in 1 .. N + 1 /\ x.digit \in Nat
  BY <1>1 DEF Calls
<1>4. Puzzle!Squares \subseteq Nat
  BY <1>1 DEF Puzzle!Squares
<1>5. \A i \in 1 .. Len(C) : C[i].at \in Puzzle!Squares /\ C[i].digit \in 1 .. N + 1 /\ C[i].digit \in Nat
  BY <1>2, <1>3, Zenon
<1>6. QED  BY <1>1, <1>2, <1>4, <1>5

LEMMA RelatedBack ==
  ASSUME NEW i, NEW j
  PROVE  Related(i, j) <=> Related(j, i)
  BY DEF Related, Puzzle!SameBox

(* A given digit is passed over.                                             *)
LEMMA PassOver ==
  ASSUME Puzzle!ConstantsOK, NEW T, NEW B, NEW C \in Seq(Calls), NEW e \in Puzzle!Squares, T[e + 1] # 0, Path(T, B, C, Len(C), e)
  PROVE  Path(T, B, C, Len(C), e + 1)
<1>1. e \in Nat /\ \A i \in 1 .. Len(C) : C[i].at \in Nat
  BY OnBoard
<1>2. Reached(T, C, Len(C), e + 1)
  <2>1. ASSUME NEW s \in Puzzle!Squares, T[s + 1] = 0, s < e + 1
        PROVE  s < e
    <3>1. s \in Nat /\ s # e
      BY <2>1, OnBoard
    <3>2. QED  BY <1>1, <2>1, <3>1
  <2>2. QED  BY <1>1, <2>1 DEF Path, Reached
<1>3. QED  BY <1>2 DEF Path

(* At an empty square a call begins, with the first digit.                     *)
LEMMA Called ==
  ASSUME Puzzle!ConstantsOK, NEW T, NEW B, NEW C \in Seq(Calls), NEW e \in Puzzle!Squares, B[e] = 0,
         Path(T, B, C, Len(C), e), NEW D, Len(D) = Len(C) + 1, \A i \in 1 .. Len(C) : D[i] = C[i],
         D[Len(C) + 1].at = e, D[Len(C) + 1].digit = 1
  PROVE  Path(T, B, D, Len(C), e)
<1> DEFINE n == Len(C)
<1>1. /\ Len(D) = n + 1 /\ n \in Nat
      /\ \A i \in 1 .. n : D[i] = C[i]
      /\ D[n + 1].at = e /\ D[n + 1].digit = 1
  OBVIOUS
<1>2. e \in Nat /\ \A i \in 1 .. n : C[i].at \in Nat /\ C[i].at < e
  BY OnBoard DEF Path, Reached
<1>3. \A i \in 1 .. n + 1 : i \in 1 .. n \/ i = n + 1
  BY <1>1
<1>4. T[e + 1] = 0
  <2>1. \A i \in 1 .. n : C[i].at # e
    BY <1>2
  <2>2. QED  BY <2>1 DEF Path, Untouched
<1>5. InOrder(T, D)
  <2>1. \A i \in 1 .. n : T[D[i].at + 1] = 0 /\ \A k \in 1 .. i - 1 : D[k].at < D[i].at
    BY <1>1 DEF Path, InOrder
  <2>2. T[D[n + 1].at + 1] = 0 /\ \A k \in 1 .. n : D[k].at < D[n + 1].at
    BY <1>1, <1>2, <1>4
  <2>3. n + 1 - 1 = n
    BY <1>1
  <2> HIDE DEF n
  <2>4. QED  BY <1>1, <1>3, <2>1, <2>2, <2>3 DEF InOrder
<1>6. Settled(T, B, D, n)
  BY <1>1 DEF Path, Settled
<1>7. Reached(T, D, n, e)
  BY <1>1 DEF Path, Reached
<1>8. Untouched(T, B, D)
  <2>1. ASSUME NEW s \in Puzzle!Squares, \A i \in 1 .. Len(D) : D[i].at # s
        PROVE  \A i \in 1 .. n : C[i].at # s
    BY <1>1, <2>1
  <2>2. QED  BY <2>1 DEF Path, Untouched
<1>9. Exhausted(T, D)
  <2>1. ASSUME NEW c \in [Puzzle!Squares -> 1 .. N], Completes(T, c), NEW i \in 1 .. n + 1,
               \A k \in 1 .. i - 1 : c[D[k].at] = D[k].digit
        PROVE  c[D[i].at] >= D[i].digit
    <3>1. CASE i = n + 1
      BY <1>1, <3>1, OnBoard
    <3>2. CASE i \in 1 .. n
      <4>1. \A k \in 1 .. i - 1 : c[C[k].at] = C[k].digit
        BY <1>1, <2>1, <3>2
      <4>2. QED  BY <1>1, <2>1, <3>2, <4>1 DEF Path, Exhausted
    <3>3. QED  BY <1>3, <2>1, <3>1, <3>2
  <2>2. 1 .. Len(D) = 1 .. n + 1
    BY <1>1
  <2> HIDE DEF n
  <2>3. QED  BY <2>1, <2>2, Zenon DEF Exhausted
<1>10. QED  BY <1>5, <1>6, <1>7, <1>8, <1>9 DEF Path

(* Putting a digit down, or emptying the square again, at the call that runs   *)
(* disturbs none of the calls before.                                        *)
Running(T, B, C, n, a, P) ==
  /\ C \in Seq(Calls) /\ n \in Nat /\ n + 1 = Len(C) /\ a = C[n + 1].at
  /\ Path(T, B, C, n, a)
  /\ \A s \in Puzzle!Squares : s # a => P[s] = B[s]

LEMMA PutDown ==
  ASSUME Puzzle!ConstantsOK, NEW T, NEW B, NEW C, NEW n, NEW a, NEW P, Running(T, B, C, n, a, P)
  PROVE  /\ a \in Puzzle!Squares /\ a \in Nat /\ T[a + 1] = 0
         /\ \A i \in 1 .. n : C[i].at \in Puzzle!Squares /\ C[i].at \in Nat /\ C[i].at < a
         /\ Settled(T, P, C, n)
         /\ \A s \in Puzzle!Squares : s # a /\ (\A i \in 1 .. n : C[i].at # s) => P[s] = T[s + 1]
<1>0. C \in Seq(Calls) /\ n \in Nat /\ n + 1 = Len(C) /\ a = C[n + 1].at /\ Path(T, B, C, n, a)
  BY DEF Running
<1>1. /\ a \in Puzzle!Squares /\ a \in Nat
      /\ \A i \in 1 .. n : C[i].at \in Puzzle!Squares /\ C[i].at \in Nat
  BY <1>0, OnBoard
<1>2. \A i \in 1 .. n : C[i].at < a
  BY <1>0 DEF Path, Reached
<1>3. T[a + 1] = 0
  BY <1>0 DEF Path, InOrder
<1>4. Settled(T, P, C, n)
  <2>1. ASSUME NEW i \in 1 .. n
        PROVE  /\ C[i].digit \in 1 .. N /\ P[C[i].at] = C[i].digit
               /\ \A j \in Puzzle!Squares : j # C[i].at /\ Related(C[i].at, j) /\ (T[j + 1] # 0 \/ j < C[i].at)
                                       => P[j] # C[i].digit
    <3>1. C[i].at # a /\ C[i].at \in Puzzle!Squares
      BY <1>1, <1>2
    <3>2. ASSUME NEW j \in Puzzle!Squares, T[j + 1] # 0 \/ j < C[i].at
          PROVE  j # a
      BY <1>1, <1>2, <1>3, <3>2
    <3>3. QED  BY <1>0, <3>1, <3>2 DEF Running, Path, Settled
  <2>2. QED  BY <2>1 DEF Settled
<1>5. ASSUME NEW s \in Puzzle!Squares, s # a, \A i \in 1 .. n : C[i].at # s
      PROVE  P[s] = T[s + 1]
  <2>1. \A i \in 1 .. Len(C) : i \in 1 .. n \/ i = n + 1
    BY <1>0
  <2>2. \A i \in 1 .. Len(C) : C[i].at # s
    BY <1>0, <1>5, <2>1
  <2>3. QED  BY <1>0, <1>5, <2>2 DEF Running, Path, Untouched
<1>6. QED  BY <1>1, <1>2, <1>3, <1>4, <1>5

(* D are the first m calls, the last of them on its next digit.                 *)
Ticks(C, D, m) ==
  /\ Len(D) = m /\ \A i \in 1 .. m - 1 : D[i] = C[i]
  /\ D[m].at = C[m].at /\ D[m].digit = C[m].digit + 1

LEMMA SameSettled ==
  ASSUME NEW T, NEW P, NEW C, NEW D, NEW m, \A i \in 1 .. m : D[i] = C[i], Settled(T, P, C, m)
  PROVE  Settled(T, P, D, m)
<1>1. ASSUME NEW i \in 1 .. m
      PROVE  /\ D[i].digit \in 1 .. N /\ P[D[i].at] = D[i].digit
             /\ \A j \in Puzzle!Squares : j # D[i].at /\ Related(D[i].at, j) /\ (T[j + 1] # 0 \/ j < D[i].at)
                                     => P[j] # D[i].digit
  <2>1. D[i] = C[i]
    OBVIOUS
  <2>2. QED  BY <2>1 DEF Settled
<1>2. QED  BY <1>1 DEF Settled

(* A digit that conflicts is in no completion below the calls before: the next. *)
LEMMA Clashes ==
  ASSUME Puzzle!ConstantsOK, NEW T, NEW B, NEW C, NEW n, NEW a, NEW P, Running(T, B, C, n, a, P),
         C[n + 1].digit <= N, P[a] = C[n + 1].digit, Puzzle!Conflict(P, a), NEW D, Ticks(C, D, n + 1)
  PROVE  Path(T, P, D, n, a)
<1> DEFINE d == C[n + 1].digit
<1>0. /\ C \in Seq(Calls) /\ n \in Nat /\ n + 1 = Len(C) /\ a = C[n + 1].at /\ Path(T, B, C, n, a)
      /\ Len(D) = n + 1 /\ (\A i \in 1 .. n : D[i] = C[i]) /\ D[n + 1].at = a /\ D[n + 1].digit = d + 1
      /\ d <= N /\ P[a] = d
  BY DEF Running, Ticks
<1> HIDE DEF d
<1>1. /\ a \in Puzzle!Squares /\ a \in Nat /\ T[a + 1] = 0
      /\ \A i \in 1 .. n : C[i].at \in Puzzle!Squares /\ C[i].at \in Nat /\ C[i].at < a
      /\ Settled(T, P, C, n)
      /\ \A s \in Puzzle!Squares : s # a /\ (\A i \in 1 .. n : C[i].at # s) => P[s] = T[s + 1]
  BY PutDown
<1>2. d \in 1 .. N /\ N \in Nat /\ d = C[n + 1].digit
  BY <1>0, OnBoard DEF d
<1>3. \A i \in 1 .. n + 1 : i \in 1 .. n \/ i = n + 1
  BY <1>0
<1>4. InOrder(T, D)
  <2>1. \A i \in 1 .. n + 1 : D[i].at = C[i].at
    BY <1>0, <1>3
  <2>2. \A i \in 1 .. n + 1 : \A k \in 1 .. i - 1 : k \in 1 .. n + 1
    BY <1>0
  <2>3. \A i \in 1 .. n + 1 : T[C[i].at + 1] = 0 /\ \A k \in 1 .. i - 1 : C[k].at < C[i].at
    BY <1>0 DEF Path, InOrder
  <2>4. \A i \in 1 .. n + 1 : T[D[i].at + 1] = 0 /\ \A k \in 1 .. i - 1 : D[k].at < D[i].at
    BY <2>1, <2>2, <2>3, Zenon
  <2>5. QED  BY <1>0, <2>4 DEF InOrder
<1>5. Settled(T, P, D, n)
  <2>1. \A i \in 1 .. n : D[i] = C[i]
    BY <1>0
  <2>2. QED  BY <1>1, <2>1, SameSettled
<1>6. Reached(T, D, n, a)
  BY <1>0 DEF Path, Reached
<1>7. Untouched(T, P, D)
  <2>1. ASSUME NEW s \in Puzzle!Squares, \A i \in 1 .. n + 1 : D[i].at # s
        PROVE  s # a /\ \A i \in 1 .. n : C[i].at # s
    BY <1>0, <2>1
  <2>2. QED  BY <1>0, <1>1, <2>1 DEF Untouched
<1>8. ASSUME NEW c \in [Puzzle!Squares -> 1 .. N], Completes(T, c), \A k \in 1 .. n : c[C[k].at] = C[k].digit
      PROVE  c[a] # d
  <2>1. PICK j \in Puzzle!Squares : j # a /\ P[j] = d /\ Related(a, j)
    BY <1>0, <1>1 DEF Puzzle!Conflict, Related
  <2>2. c[j] = d
    <3>1. CASE \E i \in 1 .. n : C[i].at = j
      BY <1>1, <1>8, <2>1, <3>1 DEF Settled
    <3>2. CASE \A i \in 1 .. n : C[i].at # j
      <4>1. P[j] = T[j + 1]
        BY <1>1, <2>1, <3>2
      <4>2. T[j + 1] # 0
        BY <1>2, <2>1, <4>1
      <4>3. QED  BY <1>8, <2>1, <4>1, <4>2 DEF Completes
    <3>3. QED  BY <3>1, <3>2
  <2>3. c[a] # c[j]
    BY <1>1, <1>8, <2>1 DEF Completes
  <2>4. QED  BY <2>2, <2>3
<1>9. Exhausted(T, D)
  <2>1. ASSUME NEW c \in [Puzzle!Squares -> 1 .. N], Completes(T, c), NEW i \in 1 .. n + 1,
               \A k \in 1 .. i - 1 : c[D[k].at] = D[k].digit
        PROVE  c[D[i].at] >= D[i].digit
    <3>1. \A k \in 1 .. i - 1 : c[C[k].at] = C[k].digit
      BY <1>0, <2>1
    <3>2. c[C[i].at] >= C[i].digit
      BY <1>0, <2>1, <3>1 DEF Path, Exhausted
    <3>3. CASE i = n + 1
      <4>0. \A k \in 1 .. n : c[C[k].at] = C[k].digit
        BY <1>0, <3>1, <3>3
      <4>1. c[a] >= d /\ c[a] # d
        BY <1>0, <1>8, <2>1, <3>2, <3>3, <4>0
      <4>2. c[a] \in Nat
        BY <1>1, <1>2
      <4>3. QED  BY <1>0, <1>2, <3>3, <4>1, <4>2
    <3>4. CASE i \in 1 .. n
      BY <1>0, <3>2, <3>4
    <3>5. QED  BY <1>3, <3>3, <3>4
  <2>2. QED  BY <1>0, <2>1, Zenon DEF Exhausted
<1>10. QED  BY <1>4, <1>5, <1>6, <1>7, <1>9 DEF Path

(* A digit that does not conflict stays, and the next square is called for.     *)
LEMMA Stays ==
  ASSUME Puzzle!ConstantsOK, NEW T, NEW B, NEW C, NEW n, NEW a, NEW P, Running(T, B, C, n, a, P),
         C[n + 1].digit <= N, P[a] = C[n + 1].digit, ~Puzzle!Conflict(P, a)
  PROVE  Path(T, P, C, n + 1, a + 1)
<1> DEFINE d == C[n + 1].digit
<1>0. C \in Seq(Calls) /\ n \in Nat /\ n + 1 = Len(C) /\ a = C[n + 1].at /\ Path(T, B, C, n, a)
  BY DEF Running
<1>1. /\ a \in Puzzle!Squares /\ a \in Nat /\ T[a + 1] = 0
      /\ \A i \in 1 .. n : C[i].at \in Puzzle!Squares /\ C[i].at \in Nat /\ C[i].at < a
      /\ Settled(T, P, C, n)
      /\ \A s \in Puzzle!Squares : s # a /\ (\A i \in 1 .. n : C[i].at # s) => P[s] = T[s + 1]
  BY PutDown
<1>2. d \in 1 .. N /\ N \in Nat
  BY <1>0, OnBoard
<1>3. \A i \in 1 .. n + 1 : i \in 1 .. n \/ i = n + 1
  BY <1>0
<1>4. Settled(T, P, C, n + 1)
  <2>1. ASSUME NEW i \in 1 .. n + 1
        PROVE  /\ C[i].digit \in 1 .. N /\ P[C[i].at] = C[i].digit
               /\ \A j \in Puzzle!Squares : j # C[i].at /\ Related(C[i].at, j) /\ (T[j + 1] # 0 \/ j < C[i].at)
                                       => P[j] # C[i].digit
    <3>1. CASE i \in 1 .. n
      BY <1>1, <3>1 DEF Settled
    <3>2. CASE i = n + 1
      <4>1. \A j \in Puzzle!Squares : j # a /\ Related(a, j) => P[j] # d
        BY DEF Puzzle!Conflict, Related
      <4>2. QED  BY <1>0, <1>2, <3>2, <4>1
    <3>3. QED  BY <1>3, <3>1, <3>2
  <2>2. QED  BY <2>1 DEF Settled
<1>5. Reached(T, C, n + 1, a + 1)
  <2>1. \A i \in 1 .. n + 1 : C[i].at < a + 1
    BY <1>0, <1>1, <1>3
  <2>2. ASSUME NEW s \in Puzzle!Squares, T[s + 1] = 0, s < a + 1
        PROVE  \E i \in 1 .. n + 1 : C[i].at = s
    <3>1. s \in Nat
      BY <1>0, OnBoard
    <3>2. CASE s = a
      BY <1>0, <3>2
    <3>3. CASE s < a
      <4>1. PICK i \in 1 .. n : C[i].at = s
        BY <1>0, <2>2, <3>3 DEF Path, Reached
      <4>2. QED  BY <1>0, <4>1
    <3>4. QED  BY <1>1, <2>2, <3>1, <3>2, <3>3
  <2>3. QED  BY <2>1, <2>2 DEF Reached
<1>6. Untouched(T, P, C)
  <2>1. ASSUME NEW s \in Puzzle!Squares, \A i \in 1 .. n + 1 : C[i].at # s
        PROVE  s # a /\ \A i \in 1 .. n : C[i].at # s
    BY <1>0, <2>1
  <2>2. QED  BY <1>0, <1>1, <2>1 DEF Untouched
<1>7. QED  BY <1>0, <1>4, <1>5, <1>6 DEF Path

(* After its last digit a call has no completion below those before it.         *)
LEMMA Beyond ==
  ASSUME Puzzle!ConstantsOK, NEW T, NEW B, NEW C, NEW n, NEW a, NEW P, Running(T, B, C, n, a, P), C[n + 1].digit > N,
         NEW c \in [Puzzle!Squares -> 1 .. N], Completes(T, c), \A k \in 1 .. n : c[C[k].at] = C[k].digit
  PROVE  FALSE
<1>0. C \in Seq(Calls) /\ n \in Nat /\ n + 1 = Len(C) /\ a = C[n + 1].at /\ Path(T, B, C, n, a)
  BY DEF Running
<1>1. a \in Puzzle!Squares /\ N \in Nat /\ C[n + 1].digit \in Nat
  BY <1>0, OnBoard
<1>2. n + 1 \in 1 .. Len(C) /\ n + 1 - 1 = n
  BY <1>0
<1>3. c[C[n + 1].at] >= C[n + 1].digit
  BY <1>0, <1>2 DEF Path, Exhausted
<1>4. QED  BY <1>0, <1>1, <1>3

(* It empties its square and the call before goes on to its next digit.         *)
LEMMA Back ==
  ASSUME Puzzle!ConstantsOK, NEW T, NEW B, NEW C, NEW n, NEW a, NEW P, Running(T, B, C, n, a, P), C[n + 1].digit > N, P[a] = 0,
         n > 0, NEW D, Ticks(C, D, n)
  PROVE  Path(T, P, D, n - 1, D[n].at)
<1>0. /\ C \in Seq(Calls) /\ n \in Nat /\ n + 1 = Len(C) /\ a = C[n + 1].at /\ Path(T, B, C, n, a)
      /\ Len(D) = n /\ (\A i \in 1 .. n - 1 : D[i] = C[i]) /\ D[n].at = C[n].at /\ D[n].digit = C[n].digit + 1
  BY DEF Running, Ticks
<1>1. /\ a \in Puzzle!Squares /\ a \in Nat /\ T[a + 1] = 0
      /\ \A i \in 1 .. n : C[i].at \in Puzzle!Squares /\ C[i].at \in Nat /\ C[i].at < a
      /\ Settled(T, P, C, n)
      /\ \A s \in Puzzle!Squares : s # a /\ (\A i \in 1 .. n : C[i].at # s) => P[s] = T[s + 1]
  BY PutDown
<1>2. \A i \in 1 .. n : (i \in 1 .. n - 1 \/ i = n) /\ D[i].at = C[i].at /\ i \in 1 .. n + 1
  BY <1>0
<1>3. InOrder(T, D)
  <2>1. \A i \in 1 .. n : \A k \in 1 .. i - 1 : k \in 1 .. n
    BY <1>0
  <2>2. \A i \in 1 .. n : T[C[i].at + 1] = 0 /\ \A k \in 1 .. i - 1 : C[k].at < C[i].at
    BY <1>0 DEF Path, InOrder
  <2>3. \A i \in 1 .. n : T[D[i].at + 1] = 0 /\ \A k \in 1 .. i - 1 : D[k].at < D[i].at
    BY <1>2, <2>1, <2>2, Zenon
  <2>4. QED  BY <1>0, <2>3 DEF InOrder
<1>4. Settled(T, P, D, n - 1)
  <2>1. Settled(T, P, C, n - 1)
    BY <1>0, <1>1 DEF Settled
  <2>2. \A i \in 1 .. n - 1 : D[i] = C[i]
    BY <1>0
  <2>3. QED  BY <2>1, <2>2, SameSettled
<1>5. Reached(T, D, n - 1, D[n].at)
  <2>1. \A i \in 1 .. n - 1 : D[i].at < D[n].at
    BY <1>0, <1>2 DEF Path, InOrder
  <2>2. ASSUME NEW s \in Puzzle!Squares, T[s + 1] = 0, s < D[n].at
        PROVE  \E i \in 1 .. n - 1 : D[i].at = s
    <3>1. s \in Nat /\ n \in 1 .. n
      BY <1>0, OnBoard
    <3>2. D[n].at \in Nat /\ D[n].at = C[n].at /\ D[n].at < a
      BY <1>1, <1>2, <3>1
    <3>3. s < a /\ s # C[n].at
      BY <1>1, <2>2, <3>1, <3>2
    <3>4. PICK i \in 1 .. n : C[i].at = s
      BY <1>0, <2>2, <3>3 DEF Path, Reached
    <3>5. QED  BY <1>0, <1>2, <3>3, <3>4
  <2>3. QED  BY <2>1, <2>2 DEF Reached
<1>6. Untouched(T, P, D)
  <2>1. ASSUME NEW s \in Puzzle!Squares, \A i \in 1 .. n : D[i].at # s
        PROVE  P[s] = T[s + 1]
    <3>1. \A i \in 1 .. n : C[i].at # s
      BY <1>2, <2>1
    <3>2. CASE s = a
      BY <1>1, <3>2
    <3>3. CASE s # a
      BY <1>1, <3>1, <3>3
    <3>4. QED  BY <3>2, <3>3
  <2>2. QED  BY <1>0, <2>1 DEF Untouched
<1>7. Exhausted(T, D)
  <2>1. ASSUME NEW c \in [Puzzle!Squares -> 1 .. N], Completes(T, c), NEW i \in 1 .. n,
               \A k \in 1 .. i - 1 : c[D[k].at] = D[k].digit
        PROVE  c[D[i].at] >= D[i].digit
    <3>1. \A k \in 1 .. i - 1 : c[C[k].at] = C[k].digit
      <4>1. \A k \in 1 .. i - 1 : k \in 1 .. n - 1
        BY <1>0
      <4>2. QED  BY <1>0, <2>1, <4>1
    <3>2. c[C[i].at] >= C[i].digit
      BY <1>0, <1>2, <2>1, <3>1 DEF Path, Exhausted
    <3>3. CASE i = n
      <4>1. c[C[n].at] # C[n].digit
        <5>1. SUFFICES ASSUME c[C[n].at] = C[n].digit
                       PROVE  \A k \in 1 .. n : c[C[k].at] = C[k].digit
          BY <2>1, Beyond
        <5>2. QED  BY <1>2, <3>1, <3>3, <5>1
      <4>2. c[C[n].at] \in Nat /\ C[n].digit \in Nat
        <5>1. n \in 1 .. n /\ n \in 1 .. Len(C)
          BY <1>0
        <5>2. C[n].at \in Puzzle!Squares /\ C[n].digit \in Nat /\ N \in Nat
          BY <1>0, <5>1, OnBoard
        <5>3. QED  BY <5>2
      <4>3. QED  BY <1>0, <3>2, <3>3, <4>1, <4>2
    <3>4. CASE i \in 1 .. n - 1
      BY <1>0, <3>2, <3>4
    <3>5. QED  BY <1>2, <3>3, <3>4
  <2>2. QED  BY <1>0, <2>1, Zenon DEF Exhausted
<1>8. QED  BY <1>0, <1>3, <1>4, <1>5, <1>6, <1>7 DEF Path

(* The first call comes back: there is no completion.                          *)
LEMMA Given_Up ==
  ASSUME Puzzle!ConstantsOK, NEW T, NEW B, NEW C, NEW a, NEW P, Running(T, B, C, 0, a, P), C[1].digit > N, P[a] = 0
  PROVE  /\ \A s \in Puzzle!Squares : P[s] = T[s + 1]
         /\ ~\E c \in [Puzzle!Squares -> 1 .. N] : Completes(T, c)
<1>1. C[0 + 1].digit > N
  OBVIOUS
<1>2. ~\E c \in [Puzzle!Squares -> 1 .. N] : Completes(T, c)
  BY <1>1, Beyond
<1>3. /\ a \in Puzzle!Squares /\ T[a + 1] = 0
      /\ \A s \in Puzzle!Squares : s # a => P[s] = T[s + 1]
  BY PutDown
<1>4. QED  BY <1>2, <1>3

(* At the end of the board nothing is left to fill.                            *)
LEMMA Filled_In ==
  ASSUME Puzzle!ConstantsOK, NEW T, \A s \in Puzzle!Squares : T[s + 1] \in 0 .. N, NEW B, NEW C \in Seq(Calls),
         Path(T, B, C, Len(C), N * N)
  PROVE  Completes(T, B)
<1> DEFINE n == Len(C)
<1>1. /\ n \in Nat /\ N \in Nat /\ Puzzle!Squares \subseteq Nat
      /\ \A i \in 1 .. n : C[i].at \in Puzzle!Squares /\ C[i].at \in Nat
  BY OnBoard
<1>2. \A s \in Puzzle!Squares : s \in Nat /\ s < N * N
  BY Square
<1>3. ASSUME NEW s \in Puzzle!Squares, T[s + 1] = 0
      PROVE  \E i \in 1 .. n : C[i].at = s
  BY <1>2, <1>3 DEF Path, Reached
<1>4. ASSUME NEW s \in Puzzle!Squares, T[s + 1] # 0
      PROVE  B[s] = T[s + 1]
  <2>1. \A i \in 1 .. n : C[i].at # s
    BY <1>4 DEF Path, InOrder
  <2>2. QED  BY <2>1 DEF Path, Untouched
<1>5. ASSUME NEW s \in Puzzle!Squares
      PROVE  B[s] \in 1 .. N
  <2>1. CASE T[s + 1] = 0
    <3>1. PICK i \in 1 .. n : C[i].at = s
      BY <1>3, <2>1
    <3>2. QED  BY <3>1 DEF Path, Settled
  <2>2. CASE T[s + 1] # 0
    BY <1>1, <1>4, <2>2
  <2>3. QED  BY <2>1, <2>2
<1>6. ASSUME NEW s \in Puzzle!Squares, NEW t \in Puzzle!Squares, T[s + 1] = 0, s # t, Related(s, t)
      PROVE  B[s] # B[t]
  <2>1. PICK i \in 1 .. n : C[i].at = s
    BY <1>3, <1>6
  <2>2. CASE T[t + 1] # 0 \/ t < s
    BY <1>6, <2>1, <2>2 DEF Path, Settled
  <2>3. CASE T[t + 1] = 0 /\ s < t
    <3>1. PICK k \in 1 .. n : C[k].at = t
      BY <1>3, <2>3
    <3>2. Related(t, s)
      BY <1>6, RelatedBack
    <3>3. QED  BY <1>6, <2>3, <3>1, <3>2 DEF Path, Settled
  <2>4. QED  BY <1>1, <1>6, <2>2, <2>3
<1>7. QED  BY <1>4, <1>5, <1>6 DEF Completes

-----------------------------------------------------------------------------
(* The solver *)

Shape ==
  /\ app.phase \in {"read", "solve", "try", "printed", "returned"}
  /\ app.typed \in Seq(Digits) /\ app.calls \in Seq(Calls) /\ app.at \in 0 .. N * N
  /\ app = [phase |-> app.phase, typed |-> app.typed, board |-> app.board, calls |-> app.calls, at |-> app.at]
Started == Len(app.typed) = N * N /\ app.board \in Grids

Searching ==
  /\ app.phase = "read" => app.calls = <<>> /\ app.at = 0
  /\ app.phase # "read" => Started
  /\ app.phase = "solve" => Path(app.typed, app.board, app.calls, Len(app.calls), app.at)
  /\ app.phase = "try" => /\ app.calls # <<>>
                          /\ Path(app.typed, app.board, app.calls, Len(app.calls) - 1, app.calls[Len(app.calls)].at)
  /\ app.phase = "printed" => Completes(app.typed, app.board)
  /\ app.phase = "returned" => /\ \A s \in Puzzle!Squares : app.board[s] = app.typed[s + 1]
                               /\ ~\E c \in [Puzzle!Squares -> 1 .. N] : Completes(app.typed, c)
Search == Shape /\ Searching

LEMMA TypedKept ==
  ASSUME Puzzle!ConstantsOK, Shape, Len(app.typed) = N * N
  PROVE  \A s \in Puzzle!Squares : app.typed[s + 1] \in Digits
<1>1. \A s \in Puzzle!Squares : s \in Nat /\ s < N * N /\ N * N \in Nat
  BY Square
<1>2. \A s \in Puzzle!Squares : s + 1 \in 1 .. Len(app.typed)
  BY <1>1
<1>3. QED  BY <1>2 DEF Shape

LEMMA Reversed ==
  ASSUME NEW S, NEW s \in Seq(S)
  PROVE  Puzzle!Reverse(s) \in Seq(S)
<1>1. Len(s) \in Nat /\ \A i \in 1 .. Len(s) : s[i] \in S
  OBVIOUS
<1> DEFINE n == Len(s)
           r == [i \in 1 .. n |-> s[n - i + 1]]
<1>2. \A i \in 1 .. n : n - i + 1 \in 1 .. n
  BY <1>1
<1>3. r \in [1 .. n -> S]
  BY <1>1, <1>2
<1> HIDE DEF r
<1>4. r \in Seq(S)
  BY <1>1, <1>3
<1>5. Puzzle!Reverse(s) = r
  BY DEF Puzzle!Reverse, r
<1>6. QED  BY <1>4, <1>5

LEMMA Reads ==
  ASSUME Puzzle!ConstantsOK, Search, NEW line \in Lines[Len(app.typed) \div N + 1], Puzzle!ReadLine(line)
  PROVE  Search'
<1> DEFINE l == Len(app.typed)
<1>1. l \in Nat /\ N \in Nat \ {0} /\ l < N * N
  BY DEF Search, Shape, Puzzle!ConstantsOK, Puzzle!ReadLine
<1>2. l \div N + 1 \in 1 .. N
  <2> HIDE DEF l
  <2>1. l \div N \in Nat /\ (l < N * N <=> l \div N < N)
    BY <1>1, Divided, Zenon
  <2>2. QED  BY <1>1, <2>1
<1>3. line \in [1 .. N -> 0 .. N]
  BY <1>2 DEF Puzzle!ConstantsOK
<1>4. line \in Seq(Digits)
  BY <1>1, <1>3 DEF Digits
<1>5. Puzzle!Reverse(line) \in Seq(Digits)
  BY <1>4, Reversed
<1>6. Puzzle!ConsAll(line, <<>>) \in Seq(Digits)
  BY <1>5 DEF Puzzle!ConsAll
<1>7. Puzzle!reverse(Puzzle!ConsAll(line, <<>>)) \in Seq(Digits)
  BY <1>6, Reversed DEF Puzzle!reverse
<1> DEFINE more == Puzzle!reverse(Puzzle!ConsAll(line, <<>>))
<1> HIDE DEF more
<1>8. app' = [app EXCEPT !.typed = @ \o more] /\ app.phase = "read"
  BY DEF Puzzle!ReadLine, more
<1>9. /\ app'.phase = "read" /\ app'.typed = app.typed \o more /\ app'.board = app.board
      /\ app'.calls = app.calls /\ app'.at = app.at
      /\ app' = [phase |-> app'.phase, typed |-> app'.typed, board |-> app'.board, calls |-> app'.calls, at |-> app'.at]
  BY <1>8 DEF Search, Shape
<1>10. app'.typed \in Seq(Digits)
  BY <1>7, <1>9 DEF Search, Shape, more
<1>11. QED  BY <1>8, <1>9, <1>10 DEF Search, Shape, Searching

LEMMA Solves ==
  ASSUME Puzzle!ConstantsOK, Search, Puzzle!Solving
  PROVE  Search'
<1> DEFINE T == app.typed
           B == [s \in Puzzle!Squares |-> app.typed[s + 1]]
<1>1. app.phase = "read" /\ Len(T) = N * N /\ app.calls = <<>> /\ app.at = 0
  BY DEF Search, Searching, Puzzle!Solving
<1>2. /\ app'.phase = "solve" /\ app'.typed = T /\ app'.board = B
      /\ app'.calls = <<>> /\ app'.at = 0
      /\ app' = [phase |-> app'.phase, typed |-> app'.typed, board |-> app'.board, calls |-> app'.calls, at |-> app'.at]
  BY <1>1 DEF Search, Shape, Puzzle!Solving
<1>3. \A s \in Puzzle!Squares : T[s + 1] \in Digits
  BY <1>1, TypedKept DEF Search
<1>4. B \in Grids
  BY <1>3 DEF Grids
<1>5. \A s \in Puzzle!Squares : B[s] = T[s + 1] /\ s \in Nat
  BY Square
<1> HIDE DEF B
<1>6. Path(T, B, <<>>, 0, 0)
  BY <1>5 DEF Path, InOrder, Settled, Reached, Untouched, Exhausted
<1>7. <<>> \in Seq(Calls) /\ 0 \in 0 .. N * N /\ Len(<<>>) = 0
  BY DEF Puzzle!ConstantsOK
<1>8. QED  BY <1>1, <1>2, <1>4, <1>6, <1>7 DEF Search, Shape, Searching, Started

LEMMA Comes ==
  ASSUME Puzzle!ConstantsOK, Search, Puzzle!Come
  PROVE  Search'
<1> DEFINE T == app.typed
           B == app.board
           C == app.calls
           e == app.at
<1>1. /\ app.phase = "solve" /\ e \in 0 .. N * N /\ N * N \in Nat /\ Len(T) = N * N /\ B \in Grids
      /\ T \in Seq(Digits) /\ C \in Seq(Calls) /\ Path(T, B, C, Len(C), e)
      /\ app = [phase |-> app.phase, typed |-> T, board |-> B, calls |-> C, at |-> e]
  BY DEF Search, Shape, Searching, Started, Puzzle!Come, Puzzle!ConstantsOK
<1>2. \A s \in Puzzle!Squares : T[s + 1] \in 0 .. N
  BY <1>1, TypedKept DEF Search, Digits
<1>3. CASE e = N * N
  <2>1. app' = [phase |-> "printed", typed |-> T, board |-> B, calls |-> C, at |-> e]
    BY <1>1, <1>3 DEF Puzzle!Come
  <2>2. Completes(T, B)
    BY <1>1, <1>2, <1>3, Filled_In
  <2>3. QED  BY <1>1, <2>1, <2>2 DEF Search, Shape, Searching, Started
<1>4. CASE e # N * N
  <2>1. e \in Puzzle!Squares /\ e + 1 \in 0 .. N * N
    BY <1>1, <1>4 DEF Puzzle!Squares
  <2>2. CASE B[e] # 0
    <3>1. app' = [phase |-> "solve", typed |-> T, board |-> B, calls |-> C, at |-> e + 1]
      BY <1>1, <1>4, <2>2 DEF Puzzle!Come
    <3>2. T[e + 1] # 0
      <4>1. \A i \in 1 .. Len(C) : C[i].at < e /\ C[i].at \in Nat
        BY <1>1, OnBoard DEF Path, Reached
      <4>2. \A i \in 1 .. Len(C) : C[i].at # e
        BY <1>1, <4>1
      <4>3. QED  BY <1>1, <2>1, <2>2, <4>2 DEF Path, Untouched
    <3>3. Path(T, B, C, Len(C), e + 1)
      BY <1>1, <2>1, <3>2, PassOver
    <3>4. QED  BY <1>1, <2>1, <3>1, <3>3 DEF Search, Shape, Searching, Started
  <2>3. CASE B[e] = 0
    <3> DEFINE D == Append(C, [at |-> e, digit |-> 1])
               n == Len(C)
    <3>1. app' = [phase |-> "try", typed |-> T, board |-> B, calls |-> D, at |-> e]
      BY <1>1, <1>4, <2>3 DEF Puzzle!Come
    <3>2. [at |-> e, digit |-> 1] \in Calls
      BY <2>1 DEF Calls, Puzzle!ConstantsOK
    <3>3. /\ D \in Seq(Calls) /\ Len(D) = n + 1 /\ n \in Nat
          /\ \A i \in 1 .. n : D[i] = C[i]
          /\ D[n + 1].at = e /\ D[n + 1].digit = 1
      BY <1>1, <3>2, AppendProperties
    <3> HIDE DEF D
    <3>4. Path(T, B, D, n, e)
      BY <1>1, <2>1, <2>3, <3>3, Called
    <3>5. D # <<>> /\ Len(D) - 1 = n /\ D[Len(D)].at = e
      BY <3>3
    <3> HIDE DEF n
    <3>6. Path(T, B, D, Len(D) - 1, D[Len(D)].at)
      BY <3>4, <3>5
    <3>7. QED  BY <1>1, <3>1, <3>3, <3>5, <3>6 DEF Search, Shape, Searching, Started
  <2>4. QED  BY <2>2, <2>3
<1>5. QED  BY <1>3, <1>4

LEMMA Tries ==
  ASSUME Puzzle!ConstantsOK, Search, Puzzle!Try
  PROVE  Search'
<1> DEFINE T == app.typed
           B == app.board
           C == app.calls
           n == Len(C) - 1
           a == C[Len(C)].at
           d == C[Len(C)].digit
           P == [B EXCEPT ![a] = IF d > N THEN 0 ELSE d]
           g(p, c, e) == [phase |-> p, typed |-> T, board |-> P, calls |-> c, at |-> e]
<1>1. /\ app.phase = "try" /\ app.at \in 0 .. N * N /\ Len(T) = N * N /\ B \in Grids
      /\ T \in Seq(Digits) /\ C \in Seq(Calls) /\ C # <<>> /\ Path(T, B, C, n, a)
      /\ app = [phase |-> "try", typed |-> T, board |-> B, calls |-> C, at |-> app.at]
  BY DEF Search, Shape, Searching, Started, Puzzle!Try
<1>2. n \in Nat /\ n + 1 = Len(C) /\ n + 1 \in 1 .. Len(C) /\ N \in Nat /\ N * N \in Nat
  BY <1>1 DEF Puzzle!ConstantsOK
<1>3. a \in Puzzle!Squares /\ d \in 1 .. N + 1 /\ a = C[n + 1].at /\ d = C[n + 1].digit /\ \A i \in 1 .. n + 1 : C[i] \in Calls
  BY <1>1, <1>2, OnBoard
<1>4. P \in Grids /\ P[a] = (IF d > N THEN 0 ELSE d) /\ \A s \in Puzzle!Squares : s # a => P[s] = B[s]
  BY <1>1, <1>2, <1>3 DEF Grids, Digits
<1>5. app' = IF d > N
              THEN g(IF Len(C) = 1 THEN "returned" ELSE "try", Puzzle!Outer(C), app.at)
              ELSE IF Puzzle!Conflict(P, a) THEN g("try", [C EXCEPT ![Len(C)].digit = @ + 1], app.at)
              ELSE g("solve", C, a + 1)
  <2> DEFINE D == Puzzle!Outer(C)
             x == app.at
             r == [phase |-> "try", typed |-> T, board |-> B, calls |-> C, at |-> x]
  <2>1. app' = IF d > N
                THEN [app EXCEPT !.board = P, !.calls = D, !.phase = IF Len(C) = 1 THEN "returned" ELSE @]
                ELSE IF Puzzle!Conflict(P, a) THEN [app EXCEPT !.board = P, !.calls[Len(C)].digit = @ + 1]
                ELSE [app EXCEPT !.board = P, !.phase = "solve", !.at = a + 1]
    BY Zenon DEF Puzzle!Try
  <2>2. app = r
    BY <1>1
  <2> HIDE DEF T, B, C, P, a, d, n, D, x
  <2>3. CASE d > N
    <3> DEFINE q == IF Len(C) = 1 THEN "returned" ELSE "try"
    <3>1. app' = [app EXCEPT !.board = P, !.calls = D, !.phase = IF Len(C) = 1 THEN "returned" ELSE @]
      BY <2>1, <2>3, Zenon
    <3>2. app' = g(q, D, x)
      BY <2>2, <3>1
    <3> HIDE DEF g
    <3>3. QED  BY <2>3, <3>2, Zenon DEF D, x
  <2>4. CASE ~(d > N) /\ Puzzle!Conflict(P, a)
    <3>1. app' = [app EXCEPT !.board = P, !.calls[Len(C)].digit = @ + 1]
      BY <2>1, <2>4, Zenon
    <3>2. app' = g("try", [C EXCEPT ![Len(C)].digit = @ + 1], x)
      BY <2>2, <3>1
    <3> HIDE DEF g
    <3>3. QED  BY <2>4, <3>2, Zenon DEF x
  <2>5. CASE ~(d > N) /\ ~Puzzle!Conflict(P, a)
    <3>1. app' = [app EXCEPT !.board = P, !.phase = "solve", !.at = a + 1]
      BY <2>1, <2>5, Zenon
    <3>2. app' = g("solve", C, a + 1)
      BY <2>2, <3>1
    <3> HIDE DEF g
    <3>3. QED  BY <2>5, <3>2, Zenon
  <2>6. QED  BY <2>3, <2>4, <2>5
<1> HIDE DEF T, B, C, P, a, d, n
<1>6. Running(T, B, C, n, a, P)
  BY <1>1, <1>2, <1>3, <1>4 DEF Running
<1>7. CASE d <= N /\ Puzzle!Conflict(P, a)
  <2> DEFINE D == [C EXCEPT ![n + 1].digit = @ + 1]
  <2>1. app' = g("try", D, app.at)
    <3>1. ~(d > N)
      BY <1>2, <1>3, <1>7
    <3> HIDE DEF g
    <3>2. QED  BY <1>2, <1>5, <1>7, <3>1
  <2>2. [C[n + 1] EXCEPT !.digit = @ + 1] \in Calls
    BY <1>2, <1>3, <1>7 DEF Calls
  <2>3. /\ D \in Seq(Calls) /\ Len(D) = n + 1
        /\ \A i \in 1 .. n : D[i] = C[i]
        /\ D[n + 1] = [C[n + 1] EXCEPT !.digit = @ + 1]
    BY <1>1, <1>2, <2>2
  <2> HIDE DEF D
  <2>4. C[n + 1] \in Calls
    BY <1>2, <1>3
  <2>5. D[n + 1].at = a /\ D[n + 1].digit = d + 1
    BY <1>3, <2>3, <2>4 DEF Calls
  <2>6. Path(T, P, D, n, a)
    <3>1. P[a] = C[n + 1].digit /\ C[n + 1].digit <= N
      BY <1>2, <1>3, <1>4, <1>7
    <3>2. Ticks(C, D, n + 1)
      BY <1>2, <1>3, <2>3, <2>5 DEF Ticks
    <3>3. QED  BY <1>6, <1>7, <3>1, <3>2, Clashes
  <2>7. D # <<>> /\ Len(D) - 1 = n /\ D[Len(D)].at = a
    BY <1>2, <2>3, <2>5
  <2>8. QED  BY <1>1, <1>4, <2>1, <2>3, <2>6, <2>7 DEF Search, Shape, Searching, Started
<1>8. CASE d <= N /\ ~Puzzle!Conflict(P, a)
  <2>1. app' = g("solve", C, a + 1)
    BY <1>2, <1>3, <1>5, <1>8
  <2>2. Path(T, P, C, n + 1, a + 1)
    BY <1>2, <1>3, <1>4, <1>6, <1>8, Stays
  <2>3. a + 1 \in 0 .. N * N
    BY <1>2, <1>3 DEF Puzzle!Squares
  <2>4. QED  BY <1>1, <1>2, <1>4, <2>1, <2>2, <2>3 DEF Search, Shape, Searching, Started
<1>9. CASE d > N /\ n > 0
  <2> DEFINE D == [i \in 1 .. n |-> IF i = n THEN [C[i] EXCEPT !.digit = @ + 1] ELSE C[i]]
  <2>0. Len(C) # 1
    BY <1>2, <1>9
  <2>1. app' = g("try", D, app.at)
    <3>1. D = Puzzle!Outer(C)
      BY DEF Puzzle!Outer, n
    <3> HIDE DEF g, D
    <3>2. QED  BY <1>5, <1>9, <2>0, <3>1
  <2>2. /\ Len(D) = n
        /\ \A i \in 1 .. n - 1 : D[i] = C[i]
        /\ D[n] = [C[n] EXCEPT !.digit = @ + 1]
    BY <1>2, <1>9
  <2>3. C[n] \in Calls /\ C[n].digit \in 1 .. N
    BY <1>1, <1>2, <1>3, <1>9 DEF Path, Settled
  <2>4. D[n].at = C[n].at /\ D[n].digit = C[n].digit + 1 /\ D[n] \in Calls
    BY <1>2, <2>2, <2>3 DEF Calls
  <2>5. D \in Seq(Calls)
    <3>1. \A i \in 1 .. n : D[i] \in Calls
      BY <1>2, <1>3, <2>2, <2>4
    <3>2. D \in [1 .. n -> Calls]
      BY <3>1
    <3> HIDE DEF D
    <3>3. QED  BY <1>2, <3>2
  <2> HIDE DEF D
  <2>6. Path(T, P, D, n - 1, D[n].at)
    <3>1. P[a] = 0 /\ C[n + 1].digit > N
      BY <1>3, <1>4, <1>9
    <3>2. Ticks(C, D, n)
      BY <2>2, <2>4 DEF Ticks
    <3>3. QED  BY <1>6, <1>9, <3>1, <3>2, Back
  <2>7. D # <<>> /\ Len(D) = n
    BY <1>9, <2>2
  <2>8. QED  BY <1>1, <1>4, <2>1, <2>5, <2>6, <2>7 DEF Search, Shape, Searching, Started
<1>10. CASE d > N /\ n = 0
  <2> DEFINE D == [i \in 1 .. n |-> IF i = n THEN [C[i] EXCEPT !.digit = @ + 1] ELSE C[i]]
  <2>0. Len(C) = 1
    BY <1>2, <1>10
  <2>1. app' = g("returned", D, app.at)
    <3>1. D = Puzzle!Outer(C)
      BY DEF Puzzle!Outer, n
    <3> HIDE DEF g, D
    <3>2. QED  BY <1>5, <1>10, <2>0, <3>1
  <2>2. D \in Seq(Calls)
    BY <1>10
  <2> HIDE DEF D
  <2>3. Running(T, B, C, 0, a, P) /\ C[1].digit > N /\ P[a] = 0
    BY <1>2, <1>3, <1>4, <1>6, <1>10
  <2>4. /\ \A s \in Puzzle!Squares : P[s] = T[s + 1]
        /\ ~\E c \in [Puzzle!Squares -> 1 .. N] : Completes(T, c)
    BY <2>3, Given_Up
  <2>5. QED  BY <1>1, <1>4, <2>1, <2>2, <2>4 DEF Search, Shape, Searching, Started
<1>11. QED  BY <1>2, <1>3, <1>7, <1>8, <1>9, <1>10

LEMMA SearchKept ==
  ASSUME Puzzle!ConstantsOK, Search, [Puzzle!Next]_app
  PROVE  Search'
<1>1. CASE \E line \in Lines[Len(app.typed) \div N + 1] : Puzzle!ReadLine(line)
  BY <1>1, Reads
<1>2. CASE UNCHANGED app
  BY <1>2 DEF Search, Shape, Searching, Started
<1>3. QED  BY <1>1, <1>2, Solves, Comes, Tries DEF Puzzle!Next

LEMMA Finds ==
  ASSUME Puzzle!ConstantsOK, Search
  PROVE  Puzzle!Solved
<1>1. app.phase = "printed" => Puzzle!Completion(app.board)
  BY Rules DEF Search, Searching
<1>2. ASSUME app.phase = "returned", NEW digits \in [Puzzle!Squares \ Puzzle!Given -> 1 .. N], Puzzle!Completion(Puzzle!Filled(digits))
      PROVE  FALSE
  <2>1. \A s \in Puzzle!Squares : app.typed[s + 1] \in Digits
    BY <1>2, TypedKept DEF Search, Searching, Started
  <2>2. Puzzle!Filled(digits) \in [Puzzle!Squares -> 1 .. N]
    BY <2>1 DEF Puzzle!Filled, Puzzle!Given, Digits, Puzzle!ConstantsOK
  <2>3. Completes(app.typed, Puzzle!Filled(digits))
    BY <1>2, Rules
  <2>4. QED  BY <1>2, <2>2, <2>3 DEF Search, Searching
<1>3. ASSUME app.phase \in {"solve", "try", "returned"}, NEW s \in Puzzle!Squares,
             \A i \in DOMAIN app.calls : app.calls[i].at # s
      PROVE  app.board[s] = app.typed[s + 1]
  <2>1. DOMAIN app.calls = 1 .. Len(app.calls)
    BY DEF Search, Shape
  <2>2. app.phase = "returned" \/ Untouched(app.typed, app.board, app.calls)
    BY <1>3 DEF Search, Searching, Path
  <2>3. QED  BY <1>3, <2>1, <2>2 DEF Search, Searching, Untouched
<1>4. QED  BY <1>1, <1>2, <1>3 DEF Puzzle!Solved

LEMMA SearchBegins == ASSUME Puzzle!ConstantsOK, Puzzle!Init PROVE Search
<1>1. <<>> \in Seq(Calls) /\ <<>> \in Seq(Digits) /\ 0 \in 0 .. N * N
  BY DEF Puzzle!ConstantsOK
<1>2. QED  BY <1>1 DEF Puzzle!Init, Search, Shape, Searching

(* For a board and boxes of any size and whatever digits are typed: a board     *)
(* that is printed completes the digits typed, a solver that returns without    *)
(* printing leaves them as they were and they have no completion (c3191).      *)
THEOREM SolverSolves == GameSpec => []Solved
<1> DEFINE Held == tape = "sudoku" => Search
<1>1. GameInit => Held
  BY GamesConstants, SearchBegins DEF GameInit
<1>2. Held /\ [GameNext /\ UNCHANGED tape]_<<tape, app>> => Held'
  <2> SUFFICES ASSUME Held, [GameNext /\ UNCHANGED tape]_<<tape, app>>, tape' = "sudoku"
               PROVE  Search'
    OBVIOUS
  <2>1. Search /\ [Puzzle!Next]_app
    BY DEF GameNext
  <2>2. QED  BY <2>1, GamesConstants, SearchKept
<1>3. Held => Solved
  BY GamesConstants, Finds DEF Solved
<1>4. QED  BY <1>1, <1>2, <1>3, PTL DEF GameSpec
=============================================================================
