------------------------------- MODULE Unijack -------------------------------
(***************************************************************************)
(* c/unijack: blackjack by the American rules, which main chooses.  A card is *)
(* a place in the shoe, a hand a sequence of cards.  The shoe is dealt from   *)
(* at random (auto_shuffling), so of cards[current_index ..] only the set     *)
(* counts.  Names, colours and what is printed are left out.                 *)
(***************************************************************************)
EXTENDS Integers, Sequences, Folds, Functions

CONSTANTS Shoe,        \* the rank of each card: 0 ace, 1 = two, ... 9 = ten, 10-12 faces
          CHIPS,       \* 100 in the source
          Wagers,      \* what may be typed as a wager
          MAXROUNDS    \* bound: rounds

VARIABLE table

TARGET_SCORE == 21
MINIMUM_DEALER_SCORE == 17
MAX_CARDS_IN_HAND == 21
minimum_wager == 10
init_hand == [cards |-> <<>>, wager |-> 0]
NoRound == [player |-> <<>>, dealer |-> <<>>, wager |-> 0, before |-> 0]

(* phase: "wager", "player", "paid" or "closed"; down: cards not visible;            *)
(* last: history, once paid, the hands of the round and the chips before it. *)
Init == table = [rest |-> DOMAIN Shoe, player |-> init_hand, dealer |-> init_hand, chips |-> CHIPS,
                 down |-> {}, phase |-> "wager", round |-> 0, last |-> NoRound]

-----------------------------------------------------------------------------
get_card_values(c) == IF Shoe[c] = 0 THEN 1 ELSE IF Shoe[c] >= 10 THEN 10 ELSE Shoe[c] + 1

(* Mutant: every ace counts 11 that can. *)
score_from_hand_Aces(cards) ==
  LET total == FoldFunction(+, 0, [i \in DOMAIN cards |-> get_card_values(cards[i])])
      aces == {i \in DOMAIN cards : Shoe[cards[i]] = 0}
  IN  IF aces # {} /\ total <= TARGET_SCORE THEN total + 10 ELSE total

score_from_hand(cards) ==
  LET total == FoldFunction(+, 0, [i \in DOMAIN cards |-> get_card_values(cards[i])])
      aces == {i \in DOMAIN cards : Shoe[cards[i]] = 0}
  IN  IF aces # {} /\ total + 10 <= TARGET_SCORE THEN total + 10 ELSE total

(* Outcomes of a hand against another. *)
Examine(cards) ==
  LET score == score_from_hand(cards)
  IN  IF score > TARGET_SCORE THEN "BUST" ELSE IF score = TARGET_SCORE /\ Len(cards) = 2 THEN "BLACKJACK" ELSE "WIN"
(* A blackjack turns only a bust of the other hand into LOOSE. *)
compare_hands(hand1, hand2) ==
  LET outcome1 == Examine(hand1)
      outcome2 == Examine(hand2)
      score1 == score_from_hand(hand1)
      score2 == score_from_hand(hand2)
  IN  CASE outcome1 = "BLACKJACK" /\ outcome2 = "BLACKJACK" -> "PUSH"
        [] outcome1 # "BLACKJACK" /\ outcome2 = "BLACKJACK" -> IF outcome1 = "BUST" THEN "LOOSE" ELSE outcome1
        [] outcome1 = "WIN" /\ outcome2 = "WIN" ->
             IF score1 < score2 THEN "LOOSE" ELSE IF score1 > score2 THEN "WIN" ELSE "PUSH"
        [] OTHER -> outcome1

-----------------------------------------------------------------------------
(* reload_shoe when nothing is left, then any card of the rest; the tables    *)
(* after it, the card being in to's hand.                                    *)
add_card_to_hand(hand, c) == IF Len(hand.cards) < MAX_CARDS_IN_HAND THEN [hand EXCEPT !.cards = Append(@, c)] ELSE hand
draw_card(t, to, visible) ==
  LET rest == IF t.rest = {} THEN DOMAIN Shoe ELSE t.rest
  IN  {[t EXCEPT !.rest = rest \ {c}, ![to] = add_card_to_hand(@, c),
                 !.down = IF visible THEN @ \ {c} ELSE @ \cup {c}] : c \in rest}

(* Mutant: the dealer's hole card lies open. *)
deal_initial_cards_Open(t) ==
  UNION {UNION {UNION {draw_card(t3, "dealer", TRUE) : t3 \in draw_card(t2, "player", TRUE)}
                : t2 \in draw_card(t1, "dealer", TRUE)} : t1 \in draw_card(t, "player", TRUE)}
deal_initial_cards(t) ==
  {IF score_from_hand(u.dealer.cards) = TARGET_SCORE THEN [u EXCEPT !.down = @ \ Range(u.dealer.cards)] ELSE u
   : u \in UNION {UNION {UNION {draw_card(t3, "dealer", FALSE) : t3 \in draw_card(t2, "player", TRUE)}
                         : t2 \in draw_card(t1, "dealer", TRUE)} : t1 \in draw_card(t, "player", TRUE)}}

(* collect_wagers: 0 leaves the table; less than the minimum, or more than the *)
(* chips, which an empty line may stand for, is asked for again.             *)
collect_wagers(chip_count) ==
  /\ table.phase = "wager" /\ table.round < MAXROUNDS
  /\ IF chip_count = 0 THEN table' = [table EXCEPT !.phase = "closed"]
     ELSE /\ chip_count >= minimum_wager /\ chip_count <= table.chips
          /\ table' \in deal_initial_cards(
               [table EXCEPT !.chips = @ - chip_count, !.player = [init_hand EXCEPT !.wager = chip_count],
                             !.dealer = init_hand, !.phase = "player", !.round = @ + 1])

(* interact_with_player *)
Hit == /\ table.phase = "player"
       /\ score_from_hand(table.player.cards) <= TARGET_SCORE
       /\ table' \in draw_card(table, "player", TRUE)

RECURSIVE DealerDraws(_)
DealerDraws(t) ==
  IF score_from_hand(t.dealer.cards) >= MINIMUM_DEALER_SCORE THEN {t}
  ELSE UNION {DealerDraws(u) : u \in draw_card(t, "dealer", TRUE)}
interact_with_dealer(t) == DealerDraws([t EXCEPT !.down = @ \ Range(t.dealer.cards)])

Payout(outcome, wager) ==
  CASE outcome \in {"BUST", "LOOSE"} -> 0
    [] outcome = "PUSH" -> wager
    [] outcome = "WIN" -> 2 * wager
    [] outcome = "BLACKJACK" -> (3 * wager) \div 2 + wager
pay_gains(t) ==
  [t EXCEPT !.chips = @ + Payout(compare_hands(t.player.cards, t.dealer.cards), t.player.wager)]
cleanup_table(t) ==
  [t EXCEPT !.player = init_hand, !.dealer = init_hand, !.rest = DOMAIN Shoe, !.down = {}, !.phase = "paid",
            !.last = [player |-> t.player.cards, dealer |-> t.dealer.cards, wager |-> t.player.wager,
                      before |-> table.chips + t.player.wager]]

(* The player stands or is bust; the rest of play_new_round.                 *)
Stand == /\ table.phase = "player"
         /\ \E t \in interact_with_dealer(table) : table' = cleanup_table(pay_gains(t))
(* run_game *)
StartRound == /\ table.phase = "paid"
              /\ table' = [table EXCEPT !.phase = IF table.chips > 0 THEN "wager" ELSE "closed", !.last = NoRound]
Next == StartRound \/ Hit \/ Stand \/ \E chip_count \in Wagers : collect_wagers(chip_count)
Spec == Init /\ [][Next]_table

-----------------------------------------------------------------------------
(* The game by its rules: an ace is 1 or 11, the best total counts.          *)
Totals(cards) ==
  {FoldFunction(+, 0, [i \in DOMAIN cards |-> IF Shoe[cards[i]] = 0 /\ i \in eleven THEN 11 ELSE get_card_values(cards[i])])
   : eleven \in SUBSET {i \in DOMAIN cards : Shoe[cards[i]] = 0}}
Best(cards) == LET ok == {n \in Totals(cards) : n <= 21} IN IF ok = {} THEN 0 ELSE CHOOSE n \in ok : \A m \in ok : m <= n
Natural(cards) == Len(cards) = 2 /\ Best(cards) = 21
Due(r) ==
  CASE Best(r.player) = 0 -> 0
    [] Best(r.player) # 0 /\ Natural(r.player) -> IF Natural(r.dealer) THEN r.wager ELSE r.wager + (3 * r.wager) \div 2
    [] Best(r.player) # 0 /\ ~Natural(r.player) ->
         IF Natural(r.dealer) \/ Best(r.player) < Best(r.dealer) THEN 0
         ELSE IF Best(r.player) = Best(r.dealer) THEN r.wager ELSE 2 * r.wager

(* A round ends with the chips the rules give, whatever was drawn, unless the  *)
(* dealer has a blackjack and the player none; the dealer has drawn up to 17 and no further; no    *)
(* card is in two places; and the dealer's second card is hidden while the     *)
(* player plays, unless it makes a blackjack.                                *)
Fair ==
  LET r == table.last
      inHand == Range(table.player.cards) \cup Range(table.dealer.cards)
      played == table.phase = "paid"
  IN  /\ played /\ (Natural(r.dealer) => Natural(r.player)) => table.chips = r.before - r.wager + Due(r)
      /\ played => LET n == Len(r.dealer)
                   IN  /\ Best(r.dealer) \notin 1 .. 16
                       /\ n > 2 => Best(SubSeq(r.dealer, 1, n - 1)) \in 1 .. 16
      /\ IsInjective(table.player.cards \o table.dealer.cards) /\ inHand \cap table.rest = {}
      /\ table.phase = "player" =>
           table.down = IF Natural(table.dealer.cards) THEN {} ELSE {table.dealer.cards[2]}

(* "Resolve one blackjack": the dealer's blackjack beats every hand but one.  *)
DealerBlackjackWins ==
  LET r == table.last
  IN  table.phase = "paid" /\ Natural(r.dealer) /\ ~Natural(r.player) =>
        table.chips = r.before - r.wager
=============================================================================
