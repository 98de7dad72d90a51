-------------------------- MODULE PokerGameProofs --------------------------
(***************************************************************************)
(* What holds at a table of any size and stakes.                           *)
(*                                                                         *)
(* One step of the game runs through several tables: the stake, the turn,  *)
(* the street, the payout, the end of the hand, the blinds of the next.    *)
(* So the inductive invariant is a predicate of a table; every operator    *)
(* from table to table has a lemma that keeps it, every action a lemma     *)
(* that composes those.                                                    *)
(*                                                                         *)
(* It comes in two parts.  Sane is about the bets.  HandOK is about the    *)
(* course of a hand: the board keeps up with the street, the turn keeps    *)
(* off the folded, and an all-in player has nothing left.  These three     *)
(* hold together, on top of Sane: that a call leaves an all-in player      *)
(* without chips needs the turn to be with somebody who has not folded,    *)
(* for whom a call never gives chips back.                                 *)
(***************************************************************************)
EXTENDS PokerGame, ChipMathProofs, FiniteSetTheorems

\* The constants are naturals.
LEMMA Constants ==
  /\ MaxPlayers \in Nat /\ StartingChips \in Nat /\ SmallBlind \in Nat
  /\ BigBlind \in Nat /\ MaxBetPerHand \in Nat /\ MaxBetMultiplier \in Nat
  /\ MaxPot \in Nat
BY TableAssumption

\* Whoever is at the table is a player, and the order lists players.
LEMMA SeatedPlayers ==
  ASSUME NEW t \in TableType
  PROVE  /\ t.order \in Seq(Players) /\ Len(t.order) \in 0..MaxPlayers
         /\ Seated(t) \subseteq Players
<1>1. PICK n \in 0..MaxPlayers : t.order \in [1..n -> 1..n]
  BY DEF TableType
<1>2. Len(t.order) = n /\ t.order \in Seq(Players)
  BY <1>1, Constants DEF Players
<1> QED BY <1>2, Constants DEF Seated, Players

\* Any selection from the order lists players of the selection.
LEMMA FilterPlayers ==
  ASSUME NEW t \in TableType, NEW S
  PROVE  Filter(t.order, S) \in Seq(Players \cap S)
BY SeatedPlayers, FilterType

\* The active players are at the table.
LEMMA ActiveSeated ==
  ASSUME NEW t \in TableType
  PROVE  Active(t) \in Seq(Seated(t)) /\ Active(t) \in Seq(Players)
<1> DEFINE S == Playable(t) \ t.is_folded
<1>1. Active(t) \in Seq(Players \cap S)
  BY FilterPlayers DEF Active
<1>2. Players \cap S \subseteq Seated(t) /\ Players \cap S \subseteq Players
  BY DEF Playable
<1> HIDE DEF S
<1> QED BY <1>1, <1>2, SeqMembers

\* The first of a sequence of players, or nobody.
LEMMA FirstOfType ==
  ASSUME NEW ids \in Seq(Players)
  PROVE  FirstOf(ids) \in {NoPlayer} \cup Players
BY SeqMembers DEF FirstOf

\* The bet to match is the bet of somebody who has not folded, or nothing.
LEMMA CurrentBetIsMax ==
  ASSUME NEW t \in TableType
  PROVE  /\ CurrentBet(t) \in Nat
         /\ \A p \in Unfolded(t) : t.current_bet[p] <= CurrentBet(t)
         /\ CurrentBet(t) = 0 \/ \E p \in Unfolded(t) : t.current_bet[p] = CurrentBet(t)
<1> DEFINE bets == {0} \cup {t.current_bet[p] : p \in Unfolded(t)}
<1>1. t.current_bet \in [Players -> Nat] /\ Unfolded(t) \subseteq Players
  BY SeatedPlayers DEF TableType, Unfolded
<1>2. PICK u \in Nat : \A p \in Players : t.current_bet[p] <= u
  BY <1>1, Constants, UpperBound DEF Players
<1>3. bets \in SUBSET Nat /\ bets # {} /\ \A b \in bets : b <= u
  <2>1. \A p \in Unfolded(t) : t.current_bet[p] \in Nat /\ t.current_bet[p] <= u
    BY <1>1, <1>2
  <2> QED BY <2>1
<1>4. Max(bets) \in bets /\ \A b \in bets : b <= Max(bets)
  <2> HIDE DEF bets
  <2> QED BY <1>3, MaxNat
<1>5. CurrentBet(t) = Max(bets)
  BY DEF CurrentBet
<1>6. Max(bets) \in Nat
  BY <1>3, <1>4
<1>7. \A p \in Unfolded(t) : t.current_bet[p] \in bets
  OBVIOUS
<1>8. Max(bets) = 0 \/ \E p \in Unfolded(t) : t.current_bet[p] = Max(bets)
  BY <1>4
<1> HIDE DEF bets
<1> QED BY <1>4, <1>5, <1>6, <1>7, <1>8


-----------------------------------------------------------------------------
(* The invariant.                                                          *)

\* The map's order lists everyone at the table once.
OrderOK(t) == IsInjective(t.order) /\ Range(t.order) = Seated(t)

\* Nobody has bet before sitting down.
NoEarlyBets(t) == \A p \in Players \ Seated(t) : t.current_bet[p] = 0

Doubled(t) == \A p \in Unfolded(t) : 2 * t.current_bet[p] <= t.min_raise

Covered(t) == Total(t.current_bet) <= t.pot

Sane(t) ==
  /\ t \in TableType /\ OrderOK(t) /\ NoEarlyBets(t)
  /\ Doubled(t) /\ Covered(t)

\* Folding, and what has nothing to do with bets, keeps a table sane.
LEMMA BetsUntouched ==
  ASSUME NEW t, Sane(t), NEW u \in TableType,
         u.order = t.order, u.current_bet = t.current_bet, u.pot = t.pot,
         u.min_raise = t.min_raise, t.is_folded \subseteq u.is_folded
  PROVE  Sane(u)
<1>1. Seated(u) = Seated(t) /\ Unfolded(u) \subseteq Unfolded(t)
  BY DEF Seated, Unfolded
<1> QED BY <1>1 DEF Sane, OrderOK, NoEarlyBets, Doubled, Covered

-----------------------------------------------------------------------------
(* Starting a hand.                                                        *)

\* p's chips, bet and the pot may take any value.
LEMMA MoveType ==
  ASSUME NEW t \in TableType, NEW p \in Players,
         NEW c \in Nat, NEW b \in Nat, NEW q \in Nat
  PROVE  [t EXCEPT !.chips[p] = c, !.current_bet[p] = b, !.pot = q] \in TableType
BY DEF TableType

\* While the blinds are posted: no bet above the big blind, all of them in the pot.
Blinded(t) ==
  /\ t \in TableType /\ OrderOK(t) /\ NoEarlyBets(t)
  /\ \A p \in Players : t.current_bet[p] <= BigBlind
  /\ Covered(t)

\* Posting a blind moves chips from one player to the pot and to its bet, and nothing else.
LEMMA PostBlindKeeps ==
  ASSUME NEW t, Blinded(t), NEW p \in Seated(t), NEW blind \in Nat, blind <= BigBlind
  PROVE  Blinded(PostBlind(t, p, blind)) /\ PostBlind(t, p, blind).order = t.order
<1> DEFINE amount == Min({blind, t.chips[p]})
           u == [t EXCEPT !.chips[p] = t.chips[p] - amount, !.current_bet[p] = amount,
                          !.pot = t.pot + amount]
<1>1. t \in TableType /\ p \in Players
  BY SeatedPlayers DEF Blinded
<1>2. t.chips[p] \in Nat /\ t.pot \in Nat /\ t.current_bet \in [Players -> Nat]
  BY <1>1 DEF TableType
<1>3. amount \in Nat /\ amount <= t.chips[p] /\ amount <= blind
  <2>1. blind \in Int /\ t.chips[p] \in Int
    BY <1>2
  <2> QED BY <1>2, <2>1, MinPair, Zenon
<1>4. PostBlind(t, p, blind) = u
  BY DEF PostBlind
<1> HIDE DEF amount
<1>5. t.chips[p] - amount \in Nat /\ t.pot + amount \in Nat
  BY <1>2, <1>3
<1>6. u \in TableType
  BY <1>1, <1>3, <1>5, MoveType, Zenon
<1>7. /\ u.order = t.order /\ u.pot = t.pot + amount
      /\ u.current_bet = [t.current_bet EXCEPT ![p] = amount]
  BY <1>1 DEF TableType
<1> HIDE DEF u
<1>8. Seated(u) = Seated(t) /\ OrderOK(u)
  BY <1>7 DEF Seated, OrderOK, Blinded
<1>9. NoEarlyBets(u)
  BY <1>1, <1>2, <1>7, <1>8 DEF NoEarlyBets, Blinded
<1>10. \A q \in Players : u.current_bet[q] <= BigBlind
  BY <1>1, <1>2, <1>3, <1>7, Constants DEF Blinded
<1>11. Covered(u)
  <2>1. Total(u.current_bet) = Total(t.current_bet) - t.current_bet[p] + amount
    <3>1. t.current_bet \in [Players -> Int] /\ amount \in Int
      BY <1>2, <1>3
    <3> QED BY <1>1, <1>7, <3>1, Constants, SumToExcept DEF Total, Players
  <2>2. Total(t.current_bet) \in Nat /\ t.current_bet[p] \in Nat
    BY <1>1, <1>2, Constants, SumToNat DEF Total, Players
  <2>3. Total(t.current_bet) <= t.pot
    BY DEF Blinded, Covered
  <2> QED BY <1>2, <1>3, <1>7, <2>1, <2>2, <2>3 DEF Covered
<1> QED BY <1>4, <1>6, <1>7, <1>8, <1>9, <1>10, <1>11 DEF Blinded

\* Reading a sequence at an index modulo its length.
LEMMA AtModulo ==
  ASSUME NEW P, NEW ids \in Seq(P), Len(ids) > 0, NEW k \in Nat
  PROVE  k % Len(ids) \in Nat /\ ids[(k % Len(ids)) + 1] \in P
<1>1. k % Len(ids) \in 0..(Len(ids) - 1)
  OBVIOUS
<1> DEFINE i == (k % Len(ids)) + 1
<1>2. i \in 1..Len(ids)
  BY <1>1
<1> HIDE DEF i
<1>3. ids[i] \in P
  BY <1>2
<1> QED BY <1>1, <1>3 DEF i

\* The blinds of a table without bets.
LEMMA PostBlindsSane ==
  ASSUME NEW t \in TableType, OrderOK(t),
         t.current_bet = [p \in Players |-> 0], t.pot = 0
  PROVE  Sane(PostBlinds(t)) /\ PostBlinds(t).order = t.order
<1>1. Blinded(t)
  <2>1. \A p \in Players : t.current_bet[p] = 0
    OBVIOUS
  <2>2. Seated(t) \subseteq Players
    BY SeatedPlayers
  <2>3. Total(t.current_bet) = 0
    BY Constants, SumToZero DEF Total, Players
  <2> QED BY <2>1, <2>2, <2>3, Constants DEF Blinded, NoEarlyBets, Covered
<1> DEFINE ids == Active(t)
           sb == t.dealer_position % Len(ids)
           bb == (sb + 1) % Len(ids)
           first == PostBlind(t, ids[sb+1], SmallBlind)
           second == PostBlind(first, ids[bb+1], BigBlind)
<1>2. CASE Len(ids) < 2
  <2>1. PostBlinds(t) = t
    BY <1>2 DEF PostBlinds
  <2>2. Doubled(t)
    <3>1. \A p \in Unfolded(t) : t.current_bet[p] = 0
      BY SeatedPlayers DEF Unfolded
    <3>2. t.min_raise \in Nat
      BY DEF TableType
    <3>3. ASSUME NEW p \in Unfolded(t) PROVE 2 * t.current_bet[p] <= t.min_raise
      <4>1. t.current_bet[p] = 0
        BY <3>1
      <4> QED BY <3>2, <4>1
    <3> QED BY <3>3 DEF Doubled
  <2> QED BY <1>1, <2>1, <2>2 DEF Blinded, Sane
<1>3. CASE ~(Len(ids) < 2)
  <2>1. ids \in Seq(Seated(t)) /\ Len(ids) \in Nat
    BY ActiveSeated
  <2>2. t.dealer_position \in Nat
    BY DEF TableType
  <2>3. sb \in Nat /\ ids[sb+1] \in Seated(t) /\ sb + 1 \in Nat
    <3> HIDE DEF ids
    <3> QED BY <1>3, <2>1, <2>2, AtModulo
  <2>4. ids[bb+1] \in Seated(t)
    <3> HIDE DEF ids, sb
    <3> QED BY <1>3, <2>1, <2>3, AtModulo
  <2> HIDE DEF ids, sb, bb
  <2>5. Blinded(first) /\ first.order = t.order
    BY <1>1, <2>3, Constants, TableAssumption, PostBlindKeeps
  <2>6. ids[bb+1] \in Seated(first)
    BY <2>4, <2>5 DEF Seated
  <2> HIDE DEF first
  <2>7. Blinded(second) /\ second.order = t.order
    BY <2>5, <2>6, Constants, PostBlindKeeps
  <2> DEFINE double == 2 * BigBlind
             u == [second EXCEPT !.min_raise = double]
  <2>8. PostBlinds(t) = u
    BY <1>3 DEF PostBlinds, ids, sb, bb, first
  <2> HIDE DEF second
  <2>9. /\ u \in TableType /\ u.order = second.order /\ u.pot = second.pot
        /\ u.current_bet = second.current_bet /\ u.min_raise = 2 * BigBlind
    <3>1. double \in Nat
      BY Constants
    <3>2. second \in TableType
      BY <2>7 DEF Blinded
    <3> HIDE DEF double
    <3>3. u \in TableType /\ u.min_raise = double
      BY <3>1, <3>2 DEF TableType
    <3>4. u.order = second.order /\ u.pot = second.pot /\ u.current_bet = second.current_bet
      BY <3>2 DEF TableType
    <3> QED BY <3>3, <3>4 DEF double
  <2> HIDE DEF u
  <2>10. Seated(u) = Seated(second) /\ OrderOK(u) /\ NoEarlyBets(u) /\ Covered(u)
    BY <2>7, <2>9 DEF Blinded, Seated, OrderOK, NoEarlyBets, Covered
  <2>11. Doubled(u)
    <3>1. Unfolded(u) \subseteq Players
      BY <2>9, SeatedPlayers DEF Unfolded
    <3>2. \A p \in Players : u.current_bet[p] \in Nat /\ u.current_bet[p] <= BigBlind
      BY <2>7, <2>9 DEF Blinded, TableType
    <3> QED BY <2>9, <3>1, <3>2, Constants DEF Doubled
  <2> QED BY <2>7, <2>8, <2>9, <2>10, <2>11 DEF Sane
<1> QED BY <1>2, <1>3

\* A new hand is sane whatever the last one left behind.
LEMMA StartHandSane ==
  ASSUME NEW t \in TableType, OrderOK(t)
  PROVE  Sane(StartHand(t))
<1> DEFINE cleared == ClearHand(t)
           blinds == PostBlinds(cleared)
           dealt == DealHoleCards(blinds)
           ids == Active(dealt)
           next == IF Len(ids) >= 3 THEN ids[3] ELSE FirstOf(ids)
           u == [dealt EXCEPT !.current_street = "Preflop",
                              !.game_stage = "BettingRound", !.current_player_id = next]
<1>1. /\ cleared \in TableType /\ cleared.order = t.order /\ cleared.pot = 0
      /\ cleared.current_bet = [p \in Players |-> 0]
  <2> DEFINE none == [p \in Players |-> 0]
  <2>1. cleared \in TableType
    <3>1. none \in [Players -> Nat]
      OBVIOUS
    <3> DEFINE Cleared(c) ==
            [t EXCEPT !.current_bet = none, !.hole_cards = {}, !.has_acted = {},
                      !.is_all_in = {}, !.is_folded = {}, !.community_cards = c,
                      !.deck = TRUE, !.pot = 0]
    <3>2. cleared = Cleared(0)
      BY DEF ClearHand
    <3> HIDE DEF none, cleared
    <3>3. \A c \in 0..5 : Cleared(c) \in TableType
      BY <3>1 DEF TableType
    <3>4. 0 \in 0..5
      OBVIOUS
    <3> HIDE DEF Cleared
    <3> QED BY <3>2, <3>3, <3>4
  <2>2. cleared.order = t.order /\ cleared.pot = 0
    BY DEF ClearHand, TableType
  <2>3. cleared.current_bet = [p \in Players |-> 0]
    BY DEF ClearHand, TableType
  <2> QED BY <2>1, <2>2, <2>3
<1> HIDE DEF cleared
<1>2. OrderOK(cleared)
  BY <1>1 DEF OrderOK, Seated
<1>3. Sane(blinds)
  BY <1>1, <1>2, PostBlindsSane
<1> HIDE DEF blinds
<1>4. Sane(dealt)
  <2>1. Playable(blinds) \subseteq Players
    BY <1>3, SeatedPlayers DEF Sane, Playable
  <2>2. /\ dealt \in TableType /\ dealt.order = blinds.order /\ dealt.pot = blinds.pot
        /\ dealt.current_bet = blinds.current_bet /\ dealt.is_folded = blinds.is_folded
        /\ dealt.min_raise = blinds.min_raise
    BY <1>3, <2>1 DEF DealHoleCards, Sane, TableType
  <2> HIDE DEF dealt
  <2> QED BY <1>3, <2>2, BetsUntouched
<1> HIDE DEF dealt
<1>5. next \in {NoPlayer} \cup Players
  <2>1. ids \in Seq(Players)
    BY <1>4, ActiveSeated DEF Sane
  <2> HIDE DEF ids
  <2>2. Len(ids) >= 3 => 3 \in 1..Len(ids)
    BY <2>1
  <2>3. Len(ids) >= 3 => ids[3] \in Players
    BY <2>1, <2>2, SeqMembers
  <2> QED BY <2>1, <2>3, FirstOfType
<1> HIDE DEF next
<1>6. /\ u \in TableType /\ u.order = dealt.order /\ u.pot = dealt.pot
      /\ u.current_bet = dealt.current_bet /\ u.is_folded = dealt.is_folded
      /\ u.min_raise = dealt.min_raise
  BY <1>4, <1>5 DEF Sane, TableType, Streets, Stages
<1>7. StartHand(t) = u
  BY DEF StartHand, cleared, blinds, dealt, next
<1> HIDE DEF u
<1> QED BY <1>4, <1>6, <1>7, BetsUntouched

-----------------------------------------------------------------------------
(* Ending a hand.                                                          *)

\* Ending a hand keeps a table sane, whether or not the next hand is dealt.
LEMMA EndHandSane ==
  ASSUME NEW t, Sane(t)
  PROVE  Sane(EndHand(t))
<1> DEFINE ids == Filter(t.order, Playable(t))
           position == IF ids = <<>> THEN t.dealer_position
                       ELSE ((t.dealer_position % Len(ids)) + 1) % Len(ids)
           rotated == [t EXCEPT !.dealer_position = position]
           stopped == [rotated EXCEPT !.game_stage = "WaitingForPlayers"]
<1>1. t \in TableType
  BY DEF Sane
<1>2. position \in Nat
  <2>1. ids \in Seq(Players \cap Playable(t)) /\ t.dealer_position \in Nat
    BY <1>1, FilterPlayers DEF TableType
  <2> HIDE DEF ids
  <2>2. CASE ids = <<>>
    BY <2>1, <2>2
  <2>3. CASE ids # <<>>
    <3>1. Len(ids) > 0 /\ Len(ids) \in Nat
      BY <2>1, <2>3
    <3>2. t.dealer_position % Len(ids) \in Nat
      BY <2>1, <3>1
    <3>3. ((t.dealer_position % Len(ids)) + 1) % Len(ids) \in Nat
      BY <3>1, <3>2
    <3> QED BY <2>3, <3>3
  <2> QED BY <2>2, <2>3
<1> HIDE DEF position
<1>3. /\ rotated \in TableType /\ rotated.order = t.order /\ rotated.pot = t.pot
      /\ rotated.current_bet = t.current_bet /\ rotated.is_folded = t.is_folded
      /\ rotated.min_raise = t.min_raise
  BY <1>1, <1>2 DEF TableType
<1> HIDE DEF rotated
<1>4. Sane(rotated)
  BY <1>3, BetsUntouched
<1>5. Sane(StartHand(rotated))
  BY <1>4, StartHandSane DEF Sane
<1>6. Sane(stopped)
  <2>1. /\ stopped \in TableType /\ stopped.order = rotated.order
        /\ stopped.pot = rotated.pot /\ stopped.current_bet = rotated.current_bet
        /\ stopped.is_folded = rotated.is_folded /\ stopped.min_raise = rotated.min_raise
    BY <1>4 DEF Sane, TableType, Stages
  <2> HIDE DEF stopped
  <2> QED BY <1>4, <2>1, BetsUntouched
<1>7. EndHand(t) = StartHand(rotated) \/ EndHand(t) = stopped
  BY DEF EndHand, rotated, position
<1> QED BY <1>5, <1>6, <1>7

\* A pot is shared out in whole chips.
LEMMA ShareNat ==
  ASSUME NEW t \in TableType, NEW winners \in Seq(Players), NEW p,
         NEW level \in BetLevels(t)
  PROVE  Share(t, winners, level, p) \in Nat
<1> DEFINE eligible == Eligible(t, level)
           below == {0} \cup {l \in BetLevels(t) : l < level}
           ws == Filter(winners, eligible)
           pot == SidePot(t, level)
<1>1. BetLevels(t) \subseteq Nat /\ level \in Nat /\ eligible \subseteq Players
  <2>1. Unfolded(t) \subseteq Players /\ t.current_bet \in [Players -> Nat]
    BY SeatedPlayers DEF Unfolded, TableType
  <2> QED BY <2>1 DEF BetLevels, Eligible
<1>2. Cardinality(eligible) \in Nat
  <2>1. IsFiniteSet(Players)
    BY Constants, FS_Interval DEF Players
  <2>2. IsFiniteSet(eligible)
    BY <1>1, <2>1, FS_Subset
  <2> HIDE DEF eligible
  <2> QED BY <2>2, FS_CardinalityType
<1>3. Max(below) \in Nat /\ Max(below) <= level
  <2>1. below \in SUBSET Nat /\ below # {} /\ \A l \in below : l <= level
    BY <1>1
  <2> HIDE DEF below
  <2>2. Max(below) \in below
    BY <1>1, <2>1, MaxNat
  <2> QED BY <2>1, <2>2
<1>4. pot \in Nat
  <2>1. pot = (level - Max(below)) * Cardinality(eligible)
    BY DEF SidePot
  <2>2. level - Max(below) \in Nat
    <3> HIDE DEF below
    <3> QED BY <1>1, <1>3
  <2> HIDE DEF below, eligible, pot
  <2> QED BY <1>2, <2>1, <2>2
<1>5. ws \in Seq(Players \cap eligible) /\ Len(ws) \in Nat
  <2> HIDE DEF eligible
  <2>1. ws \in Seq(Players \cap eligible)
    BY FilterType
  <2> HIDE DEF ws
  <2> QED BY <2>1
<1> HIDE DEF eligible, ws, pot
<1>6. CASE \E i \in 1..Len(ws) : ws[i] = p
  <2>1. Len(ws) > 0
    BY <1>5, <1>6
  <2>2. pot \div Len(ws) \in Nat
    BY <1>4, <1>5, <2>1
  <2> DEFINE odd == IF \E i \in 1..(pot % Len(ws)) : ws[i] = p THEN 1 ELSE 0
  <2>3. Share(t, winners, level, p) = pot \div Len(ws) + odd
    BY <1>6 DEF Share, ws, eligible, pot
  <2>4. odd \in Nat
    OBVIOUS
  <2> HIDE DEF odd
  <2> QED BY <2>2, <2>3, <2>4
<1>7. CASE ~ \E i \in 1..Len(ws) : ws[i] = p
  BY <1>7 DEF Share, ws, eligible, pot
<1> QED BY <1>6, <1>7

\* What a player wins at a showdown is a natural number.
LEMMA WinningsNat ==
  ASSUME NEW t \in TableType, NEW winners \in Seq(Players), NEW p
  PROVE  Winnings(t, winners, p) \in Nat
<1> DEFINE n == CurrentBet(t)
           share == [level \in 1..n |->
                       IF level \in BetLevels(t) THEN Share(t, winners, level, p) ELSE 0]
<1>1. n \in Nat
  BY CurrentBetIsMax
<1>2. \A level \in 1..n : share[level] \in Nat
  BY ShareNat
<1>3. Winnings(t, winners, p) = SumTo(share, n)
  BY DEF Winnings
<1> HIDE DEF n, share
<1> QED BY <1>1, <1>2, <1>3, SumToNat

\* Paying the pots and going on to the next hand.
LEMMA ShowdownSane ==
  ASSUME NEW t, Sane(t), NEW winners \in Seq(Players)
  PROVE  Sane(Showdown(t, winners))
<1> DEFINE chips == [p \in Players |-> t.chips[p] + Winnings(t, winners, p)]
           paid == [t EXCEPT !.chips = chips]
<1>1. t \in TableType
  BY DEF Sane
<1>2. chips \in [Players -> Nat]
  <2>1. ASSUME NEW p \in Players PROVE t.chips[p] + Winnings(t, winners, p) \in Nat
    <3>1. t.chips[p] \in Nat
      BY <1>1 DEF TableType
    <3>2. Winnings(t, winners, p) \in Nat
      BY <1>1, WinningsNat
    <3> QED BY <3>1, <3>2
  <2> QED BY <2>1
<1>3. Showdown(t, winners) = EndHand(paid)
  BY DEF Showdown
<1> HIDE DEF chips
<1>4. /\ paid \in TableType /\ paid.order = t.order /\ paid.pot = t.pot
      /\ paid.current_bet = t.current_bet /\ paid.is_folded = t.is_folded
      /\ paid.min_raise = t.min_raise
  BY <1>1, <1>2 DEF TableType
<1> HIDE DEF paid
<1> QED BY <1>3, <1>4, BetsUntouched, EndHandSane

-----------------------------------------------------------------------------
(* Advancing the turn.                                                     *)

\* Moving to a street and dealing its cards.
LEMMA DealSane ==
  ASSUME NEW t, Sane(t), NEW street \in Streets, NEW count \in Nat
  PROVE  Sane(DealCommunityCards([t EXCEPT !.current_street = street], count))
<1> DEFINE moved == [t EXCEPT !.current_street = street]
           dealt == DealCommunityCards(moved, count)
           cards == moved.community_cards + count
<1> SUFFICES Sane(dealt)
  OBVIOUS
<1>1. /\ moved \in TableType /\ moved.order = t.order /\ moved.pot = t.pot
      /\ moved.current_bet = t.current_bet /\ moved.is_folded = t.is_folded
      /\ moved.min_raise = t.min_raise
  BY DEF Sane, TableType
<1>2. Sane(moved)
  <2> HIDE DEF moved
  <2> QED BY <1>1, BetsUntouched
<1> HIDE DEF moved
<1>3. CASE dealt = moved
  BY <1>2, <1>3
<1>4. CASE dealt # moved
  <2>1. dealt = [moved EXCEPT !.community_cards = cards] /\ cards \in 0..5
    <3>1. moved.community_cards \in 0..5
      BY <1>1 DEF TableType
    <3>2. /\ dealt = [moved EXCEPT !.community_cards = cards]
          /\ cards <= IF moved.current_street = "Flop" THEN 4 ELSE 5
      BY <1>4 DEF DealCommunityCards
    <3> QED BY <3>1, <3>2
  <2> HIDE DEF cards, dealt
  <2>2. /\ dealt \in TableType /\ dealt.order = moved.order /\ dealt.pot = moved.pot
        /\ dealt.current_bet = moved.current_bet /\ dealt.is_folded = moved.is_folded
        /\ dealt.min_raise = moved.min_raise
    BY <1>1, <2>1 DEF TableType
  <2> QED BY <1>2, <2>2, BetsUntouched
<1> QED BY <1>3, <1>4

\* Opening the next street, or the showdown after the river, keeps a table sane.
LEMMA NextStreetSane ==
  ASSUME NEW t, Sane(t), NEW winners \in Seq(Players)
  PROVE  Sane(NextStreet(t, winners))
<1>1. CASE t.current_street \in {"Preflop", "Flop", "Turn"}
  <2>1. \E street \in Streets, count \in Nat :
          NextStreet(t, winners)
            = DealCommunityCards([t EXCEPT !.current_street = street], count)
    <3>1. CASE t.current_street = "Preflop"
      <4>1. NextStreet(t, winners)
              = DealCommunityCards([t EXCEPT !.current_street = "Flop"], 3)
        BY <3>1 DEF NextStreet
      <4> QED BY <4>1 DEF Streets
    <3>2. CASE t.current_street = "Flop"
      <4>1. NextStreet(t, winners)
              = DealCommunityCards([t EXCEPT !.current_street = "Turn"], 1)
        BY <3>2 DEF NextStreet
      <4> QED BY <4>1 DEF Streets
    <3>3. CASE t.current_street = "Turn"
      <4>1. NextStreet(t, winners)
              = DealCommunityCards([t EXCEPT !.current_street = "River"], 1)
        BY <3>3 DEF NextStreet
      <4> QED BY <4>1 DEF Streets
    <3> QED BY <1>1, <3>1, <3>2, <3>3
  <2> QED BY <2>1, DealSane
<1>2. CASE t.current_street = "River"
  <2> DEFINE u == [t EXCEPT !.current_street = "Showdown"]
  <2>1. NextStreet(t, winners) = Showdown(u, winners)
    BY <1>2 DEF NextStreet
  <2>2. /\ u \in TableType /\ u.order = t.order /\ u.pot = t.pot
        /\ u.current_bet = t.current_bet /\ u.is_folded = t.is_folded
        /\ u.min_raise = t.min_raise
    BY DEF Sane, TableType, Streets
  <2> HIDE DEF u
  <2> QED BY <2>1, <2>2, BetsUntouched, ShowdownSane
<1>3. CASE t.current_street = "Showdown"
  <2>1. NextStreet(t, winners) = t
    BY <1>3 DEF NextStreet
  <2> QED BY <2>1
<1>4. t.current_street \in Streets
  BY DEF Sane, TableType
<1> QED BY <1>1, <1>2, <1>3, <1>4 DEF Streets

\* The player after any other is one of those asked for.
LEMMA NextAfterMember ==
  ASSUME NEW P, NEW ids \in Seq(P), ids # <<>>, NEW p
  PROVE  NextAfter(ids, p) \in P
<1>1. Len(ids) \in Nat /\ Len(ids) > 0
  OBVIOUS
<1>2. CASE \E i \in 1..Len(ids) : ids[i] = p
  <2> DEFINE i == CHOOSE i \in 1..Len(ids) : ids[i] = p
  <2>1. i \in 1..Len(ids)
    BY <1>2
  <2>2. NextAfter(ids, p) = ids[(i % Len(ids)) + 1]
    BY <1>2 DEF NextAfter
  <2> HIDE DEF i
  <2>3. i \in Nat
    BY <1>1, <2>1
  <2> QED BY <1>1, <2>2, <2>3, AtModulo
<1>3. CASE ~ \E i \in 1..Len(ids) : ids[i] = p
  <2>1. NextAfter(ids, p) = ids[1]
    BY <1>3 DEF NextAfter
  <2> QED BY <2>1, SeqMembers
<1> QED BY <1>2, <1>3

\* Advancing the turn keeps a table sane, wherever it leads.
LEMMA AdvanceActionSane ==
  ASSUME NEW t, Sane(t), NEW winners \in Seq(Players)
  PROVE  Sane(AdvanceAction(t, winners))
<1> DEFINE ids == Active(t)
           next == NextAfter(ids, t.current_player_id)
           moved == [t EXCEPT !.current_player_id = next]
<1>1. CASE ids = <<>>
  <2>1. AdvanceAction(t, winners) = EndHand(t)
    BY <1>1 DEF AdvanceAction
  <2> QED BY <2>1, EndHandSane
<1>2. CASE ids # <<>>
  <2>1. next \in Players
    BY <1>2, ActiveSeated, NextAfterMember DEF Sane
  <2>2. AdvanceAction(t, winners) \in {NextStreet(moved, winners), moved}
    BY <1>2 DEF AdvanceAction
  <2> HIDE DEF next
  <2>3. /\ moved \in TableType /\ moved.order = t.order /\ moved.pot = t.pot
        /\ moved.current_bet = t.current_bet /\ moved.is_folded = t.is_folded
        /\ moved.min_raise = t.min_raise
    BY <2>1 DEF Sane, TableType
  <2> HIDE DEF moved
  <2>4. Sane(moved)
    BY <2>3, BetsUntouched
  <2> QED BY <2>2, <2>4, NextStreetSane
<1> QED BY <1>1, <1>2

\* A verdict lists players.
LEMMA VerdictPlayers ==
  ASSUME NEW t \in TableType, NEW winners \in Verdicts(t)
  PROVE  winners \in Seq(Players)
<1>1. CASE winners = <<>>
  BY <1>1
<1>2. CASE \E n \in Players : winners \in [1..n -> Unfolded(t)]
  <2>1. PICK n \in Players : winners \in [1..n -> Unfolded(t)]
    BY <1>2
  <2>2. n \in Nat /\ Unfolded(t) \subseteq Players
    BY Constants, SeatedPlayers DEF Players, Unfolded
  <2>3. winners \in [1..n -> Players]
    BY <2>1, <2>2
  <2> HIDE DEF Players
  <2> QED BY <2>2, <2>3
<1> QED BY <1>1, <1>2 DEF Verdicts

\* Every handler ends in Advance.
LEMMA AdvanceSane ==
  ASSUME NEW t, Sane(t), Advance(t)
  PROVE  Sane(table')
<1>1. PICK winners \in Verdicts(t) : table' = AdvanceAction(t, winners)
  BY DEF Advance
<1>2. winners \in Seq(Players)
  BY <1>1, VerdictPlayers DEF Sane
<1> QED BY <1>1, <1>2, AdvanceActionSane

-----------------------------------------------------------------------------
(* Putting chips in.                                                       *)

\* No more than half of min_raise has to be matched.
LEMMA CurrentBetDoubled ==
  ASSUME NEW t, Sane(t)
  PROVE  CurrentBet(t) \in Nat /\ 2 * CurrentBet(t) <= t.min_raise
<1>1. t \in TableType /\ t.min_raise \in Nat
  BY DEF Sane, TableType
<1>2. CurrentBet(t) \in Nat
  BY <1>1, CurrentBetIsMax
<1>3. CASE CurrentBet(t) = 0
  BY <1>1, <1>3
<1>4. CASE \E p \in Unfolded(t) : t.current_bet[p] = CurrentBet(t)
  BY <1>2, <1>4 DEF Sane, Doubled
<1> QED BY <1>1, <1>2, <1>3, <1>4, CurrentBetIsMax

\* A new bet of p keeps the table sane if p pays for it and min_raise keeps up.
LEMMA NewBetSane ==
  ASSUME NEW t, Sane(t), NEW u \in TableType, NEW p \in Players,
         NEW paid \in Nat, NEW bet \in Nat,
         u.order = t.order, u.is_folded = t.is_folded, u.pot = t.pot + paid,
         u.current_bet = [t.current_bet EXCEPT ![p] = bet],
         p \in Seated(t), bet <= t.current_bet[p] + paid,
         p \in Unfolded(t) => 2 * bet <= u.min_raise,
         \A q \in Unfolded(t) : 2 * t.current_bet[q] <= u.min_raise \/ q = p
  PROVE  Sane(u)
<1>1. t \in TableType /\ t.current_bet \in [Players -> Nat] /\ t.pot \in Nat
  BY DEF Sane, TableType
<1>2. Seated(u) = Seated(t) /\ Unfolded(u) = Unfolded(t) /\ OrderOK(u)
  BY DEF Sane, OrderOK, Seated, Unfolded
<1>3. \A q \in Players : u.current_bet[q] = IF q = p THEN bet ELSE t.current_bet[q]
  BY <1>1
<1>4. NoEarlyBets(u)
  BY <1>2, <1>3 DEF Sane, NoEarlyBets
<1>5. Doubled(u)
  <2>1. ASSUME NEW q \in Unfolded(u) PROVE 2 * u.current_bet[q] <= u.min_raise
    <3>1. q \in Unfolded(t) /\ q \in Players
      BY <1>1, <1>2, SeatedPlayers DEF Unfolded
    <3>2. CASE q = p
      <4>1. u.current_bet[q] = bet
        BY <1>3, <3>1, <3>2
      <4> QED BY <3>1, <3>2, <4>1
    <3>3. CASE q # p
      <4>1. u.current_bet[q] = t.current_bet[q]
        BY <1>3, <3>1, <3>3
      <4> QED BY <3>1, <3>3, <4>1
    <3> QED BY <3>2, <3>3
  <2> QED BY <2>1 DEF Doubled
<1>6. Covered(u)
  <2>1. Total(u.current_bet) = Total(t.current_bet) - t.current_bet[p] + bet
    <3>1. t.current_bet \in [Players -> Int] /\ bet \in Int
      BY <1>1
    <3>2. MaxPlayers \in Nat /\ p \in 1..MaxPlayers
      BY Constants DEF Players
    <3>3. t.current_bet \in [1..MaxPlayers -> Int]
      BY <3>1 DEF Players
    <3>4. SumTo([t.current_bet EXCEPT ![p] = bet], MaxPlayers)
            = SumTo(t.current_bet, MaxPlayers) - t.current_bet[p] + bet
      BY <3>1, <3>2, <3>3, SumToExcept
    <3> QED BY <3>4 DEF Total
  <2>2. Total(t.current_bet) \in Nat /\ t.current_bet[p] \in Nat
    BY <1>1, Constants, SumToNat DEF Total, Players
  <2>3. Total(t.current_bet) <= t.pot
    BY DEF Sane, Covered
  <2> QED BY <1>1, <2>1, <2>2, <2>3 DEF Covered
<1> QED BY <1>2, <1>4, <1>5, <1>6 DEF Sane

\* What Stake changes.
LEMMA StakeFields ==
  ASSUME NEW t \in TableType, NEW p \in Players, NEW paid \in Nat, NEW bet \in Nat,
         paid <= t.chips[p]
  PROVE  LET u == Stake(t, p, paid, bet)
         IN  /\ u \in TableType
             /\ u.order = t.order /\ u.is_folded = t.is_folded
             /\ u.pot = t.pot + paid /\ u.min_raise = t.min_raise
             /\ u.current_bet = [t.current_bet EXCEPT ![p] = bet]
<1> DEFINE chips == t.chips[p] - paid
           pot == t.pot + paid
           acted == t.has_acted \cup {p}
           allIn == IF t.chips[p] = paid THEN t.is_all_in \cup {p} ELSE t.is_all_in
           u == [t EXCEPT !.chips[p] = chips, !.current_bet[p] = bet, !.pot = pot,
                          !.has_acted = acted, !.is_all_in = allIn]
<1>1. chips \in Nat /\ pot \in Nat
  <2>1. t.chips[p] \in Nat /\ t.pot \in Nat
    BY DEF TableType
  <2> QED BY <2>1
<1>2. acted \in SUBSET Players /\ allIn \in SUBSET Players
  BY DEF TableType
<1>3. Stake(t, p, paid, bet) = u
  BY DEF Stake
<1> HIDE DEF chips, pot, acted, allIn
<1>4. u \in TableType
  BY <1>1, <1>2 DEF TableType
<1>5. /\ u.order = t.order /\ u.is_folded = t.is_folded
      /\ u.pot = pot /\ u.min_raise = t.min_raise
      /\ u.current_bet = [t.current_bet EXCEPT ![p] = bet]
  BY DEF TableType
<1> HIDE DEF u
<1> QED BY <1>3, <1>4, <1>5 DEF pot

\* A stake of p that also sets min_raise.
LEMMA StakeSane ==
  ASSUME NEW t, Sane(t), NEW p \in Seated(t), NEW paid \in Nat, NEW bet \in Nat,
         NEW min \in Nat, paid <= t.chips[p], bet <= t.current_bet[p] + paid,
         p \in Unfolded(t) => 2 * bet <= min,
         \A q \in Unfolded(t) : 2 * t.current_bet[q] <= min
  PROVE  Sane([Stake(t, p, paid, bet) EXCEPT !.min_raise = min])
<1> DEFINE staked == Stake(t, p, paid, bet)
           u == [staked EXCEPT !.min_raise = min]
<1>1. t \in TableType /\ p \in Players
  BY SeatedPlayers DEF Sane
<1>2. /\ staked \in TableType
      /\ staked.order = t.order /\ staked.is_folded = t.is_folded
      /\ staked.pot = t.pot + paid
      /\ staked.current_bet = [t.current_bet EXCEPT ![p] = bet]
  BY <1>1, StakeFields
<1> HIDE DEF staked
<1>3. /\ u \in TableType /\ u.order = staked.order /\ u.is_folded = staked.is_folded
      /\ u.pot = staked.pot /\ u.current_bet = staked.current_bet /\ u.min_raise = min
  BY <1>2 DEF TableType
<1> HIDE DEF u
<1>4. Sane(u)
  BY <1>1, <1>2, <1>3, NewBetSane
<1> QED BY <1>4 DEF u, staked

-----------------------------------------------------------------------------
(* The steps.                                                              *)

IInv == Sane(table) /\ inactivity \in BOOLEAN

\* A new game satisfies the invariant.
LEMMA InitIInv == Init => IInv
<1> SUFFICES ASSUME Init PROVE IInv
  OBVIOUS
<1> DEFINE none == [p \in Players |-> 0]
           start == [order |-> <<>>, chips |-> none, current_bet |-> none,
                     has_acted |-> {}, is_all_in |-> {}, is_folded |-> {},
                     is_sitting_out |-> {}, hole_cards |-> {},
                     community_cards |-> 0, deck |-> FALSE, pot |-> 0,
                     current_street |-> "Preflop", dealer_position |-> 0,
                     current_player_id |-> NoPlayer, min_raise |-> 2 * BigBlind,
                     game_stage |-> "WaitingForPlayers"]
<1>1. table = start
  BY DEF Init
<1>2. table \in TableType
  <2>1. none \in [Players -> Nat] /\ 2 * BigBlind \in Nat /\ 0 \in 0..5
    BY Constants
  <2>2. <<>> \in UNION {[1..n -> 1..n] : n \in 0..MaxPlayers}
    <3>1. 0 \in 0..MaxPlayers /\ <<>> \in [1..0 -> 1..0]
      BY Constants
    <3> QED BY <3>1
  <2> DEFINE m == 2 * BigBlind
             board == 0
             empty == <<>>
             orders == UNION {[1..n -> 1..n] : n \in 0..MaxPlayers}
  <2>3. m \in Nat /\ board \in 0..5 /\ empty \in orders
    BY <2>1, <2>2
  <2>4. start = [order |-> empty, chips |-> none, current_bet |-> none,
                 has_acted |-> {}, is_all_in |-> {}, is_folded |-> {},
                 is_sitting_out |-> {}, hole_cards |-> {},
                 community_cards |-> board, deck |-> FALSE, pot |-> 0,
                 current_street |-> "Preflop", dealer_position |-> 0,
                 current_player_id |-> NoPlayer, min_raise |-> m,
                 game_stage |-> "WaitingForPlayers"]
    OBVIOUS
  <2> HIDE DEF none, m, board, empty, start, orders
  <2> QED BY <1>1, <2>1, <2>3, <2>4 DEF TableType, Streets, Stages, orders
<1>3. /\ table.order = <<>> /\ table.current_bet = none /\ table.pot = 0
      /\ table.min_raise = 2 * BigBlind
  BY <1>1
<1>4. Seated(table) = {} /\ Unfolded(table) = {}
  BY <1>3 DEF Seated, Unfolded
<1>5. OrderOK(table)
  BY <1>3, <1>4 DEF OrderOK, IsInjective, Range
<1>6. NoEarlyBets(table) /\ Doubled(table)
  BY <1>3, <1>4 DEF NoEarlyBets, Doubled
<1>7. Covered(table)
  BY <1>3, Constants, SumToZero DEF Covered, Total, Players
<1> QED BY <1>2, <1>5, <1>6, <1>7 DEF IInv, Sane, Init

\* A permutation of 1..n reaches all of it.
LEMMA PermutationRange ==
  ASSUME NEW n \in Nat, NEW o \in [1..n -> 1..n], IsInjective(o)
  PROVE  Range(o) = 1..n
<1>1. IsFiniteSet(1..n)
  BY FS_Interval
<1>2. o \in Injection(1..n, 1..n)
  BY DEF Injection
<1>3. o \in Surjection(1..n, 1..n)
  BY <1>1, <1>2, FS_Injection
<1> QED BY <1>3 DEF Surjection, Range

\* Joining preserves the invariant, with the hand it may start.
LEMMA AddPlayerStep ==
  ASSUME IInv, AddPlayer
  PROVE  IInv'
<1> DEFINE p == Len(table.order) + 1
<1>1. PICK order \in {o \in [1..p -> 1..p] : IsInjective(o)} :
        LET joined == [table EXCEPT !.order = order, !.chips[p] = StartingChips]
        IN  table' = IF p = 2 THEN StartHand(joined) ELSE joined
  BY DEF AddPlayer
<1> DEFINE joined == [table EXCEPT !.order = order, !.chips[p] = StartingChips]
<1>2. table \in TableType /\ Len(table.order) \in Nat /\ Len(table.order) < MaxPlayers
  BY SeatedPlayers DEF IInv, Sane, AddPlayer
<1>3. p \in Nat /\ p \in 0..MaxPlayers /\ p \in Players
  BY <1>2, Constants DEF Players
<1>4. joined \in TableType
  <2>1. order \in UNION {[1..n -> 1..n] : n \in 0..MaxPlayers}
    BY <1>1, <1>3
  <2> HIDE DEF p
  <2> QED BY <1>2, <1>3, <2>1, Constants DEF TableType
<1>5. /\ joined.order = order /\ joined.current_bet = table.current_bet
      /\ joined.pot = table.pot /\ joined.is_folded = table.is_folded
      /\ joined.min_raise = table.min_raise
  BY <1>2 DEF TableType
<1> HIDE DEF joined
<1>6. Seated(joined) = 1..p /\ Seated(joined) = Seated(table) \cup {p}
  BY <1>2, <1>3, <1>5 DEF Seated
<1>7. OrderOK(joined)
  BY <1>3, <1>5, <1>6, PermutationRange DEF OrderOK
<1>8. Sane(joined)
  <2>1. p \in Players \ Seated(table)
    BY <1>2, <1>3 DEF Seated
  <2>2. table.current_bet[p] = 0 /\ table.min_raise \in Nat
    BY <1>2, <2>1 DEF IInv, Sane, NoEarlyBets, TableType
  <2>3. NoEarlyBets(joined)
    BY <1>5, <1>6 DEF IInv, Sane, NoEarlyBets
  <2>4. Doubled(joined)
    <3>1. ASSUME NEW q \in Unfolded(joined)
          PROVE  2 * joined.current_bet[q] <= joined.min_raise
      <4>1. CASE q = p
        BY <1>5, <2>2, <4>1
      <4>2. CASE q # p
        <5>1. q \in Unfolded(table)
          BY <1>5, <1>6, <4>2 DEF Unfolded
        <5> QED BY <1>5, <5>1 DEF IInv, Sane, Doubled
      <4> QED BY <4>1, <4>2
    <3> QED BY <3>1 DEF Doubled
  <2>5. Covered(joined)
    BY <1>5 DEF IInv, Sane, Covered
  <2> QED BY <1>4, <1>7, <2>3, <2>4, <2>5 DEF Sane
<1>9. Sane(StartHand(joined))
  BY <1>4, <1>7, StartHandSane
<1>10. table' \in {StartHand(joined), joined}
  BY <1>1 DEF joined
<1> QED BY <1>8, <1>9, <1>10 DEF IInv, AddPlayer

\* Sitting out and returning preserve the invariant.
LEMMA SitOutStep ==
  ASSUME IInv, NEW p \in Players, SitOut(p) \/ ReturnToGame(p)
  PROVE  IInv'
<1> DEFINE u == table'
<1>1. PICK S \in SUBSET Players : u = [table EXCEPT !.is_sitting_out = S]
  <2>1. table.is_sitting_out \in SUBSET Players
    BY DEF IInv, Sane, TableType
  <2> QED BY <2>1 DEF SitOut, ReturnToGame
<1>2. /\ u \in TableType /\ u.order = table.order /\ u.pot = table.pot
      /\ u.current_bet = table.current_bet /\ u.is_folded = table.is_folded
      /\ u.min_raise = table.min_raise
  BY <1>1 DEF IInv, Sane, TableType
<1>3. Sane(u)
  BY <1>2, BetsUntouched DEF IInv
<1> QED BY <1>3 DEF IInv, SitOut, ReturnToGame

\* Folding and checking leave the bets alone.
LEMMA FoldSane ==
  ASSUME NEW t, Sane(t), NEW p \in Players
  PROVE  /\ Sane([t EXCEPT !.is_folded = @ \cup {p}, !.has_acted = @ \cup {p}])
         /\ Sane([t EXCEPT !.has_acted = @ \cup {p}])
<1> DEFINE folded == t.is_folded \cup {p}
           acted == t.has_acted \cup {p}
           u == [t EXCEPT !.is_folded = folded, !.has_acted = acted]
           v == [t EXCEPT !.has_acted = acted]
<1>1. t \in TableType
  BY DEF Sane
<1>2. folded \in SUBSET Players /\ acted \in SUBSET Players /\ t.is_folded \subseteq folded
  BY <1>1 DEF TableType
<1> HIDE DEF folded, acted
<1>3. /\ u \in TableType /\ u.order = t.order /\ u.pot = t.pot
      /\ u.current_bet = t.current_bet /\ u.is_folded = folded /\ u.min_raise = t.min_raise
  BY <1>1, <1>2 DEF TableType
<1>4. /\ v \in TableType /\ v.order = t.order /\ v.pot = t.pot
      /\ v.current_bet = t.current_bet /\ v.is_folded = t.is_folded
      /\ v.min_raise = t.min_raise
  BY <1>1, <1>2 DEF TableType
<1> HIDE DEF u, v
<1>5. Sane(u) /\ Sane(v)
  BY <1>2, <1>3, <1>4, BetsUntouched
<1> QED BY <1>5 DEF u, v, folded, acted

\* Folding and checking preserve the invariant.
LEMMA FoldStep ==
  ASSUME IInv, NEW p \in Players, Fold(p) \/ Check(p)
  PROVE  IInv'
<1>1. \E u : Sane(u) /\ Advance(u)
  BY FoldSane DEF IInv, Fold, Check
<1> QED BY <1>1, AdvanceSane DEF IInv, Advance

\* What a call changes: the bet ends at the current bet or below, and the pot grows
\* by what was paid, or not at all when chips come back.
LEMMA CalledFields ==
  ASSUME NEW t, Sane(t), NEW p \in Seated(t)
  PROVE  \E paid \in Nat, bet \in Nat :
           /\ Called(t, p) \in TableType
           /\ Called(t, p).order = t.order /\ Called(t, p).is_folded = t.is_folded
           /\ Called(t, p).pot = t.pot + paid
           /\ Called(t, p).min_raise = t.min_raise
           /\ Called(t, p).current_bet = [t.current_bet EXCEPT ![p] = bet]
           /\ bet <= t.current_bet[p] + paid
           /\ bet <= CurrentBet(t)
<1> DEFINE nothing == 0
           gap == CurrentBet(t) - t.current_bet[p]
           amount == CallAmount(t, p)
           paid == Max({nothing, amount})
           bet == t.current_bet[p] + amount
           chips == t.chips[p] - amount
           pot == t.pot + paid
           acted == t.has_acted \cup {p}
           allIn == IF t.chips[p] = amount THEN t.is_all_in \cup {p} ELSE t.is_all_in
           u == [t EXCEPT !.chips[p] = chips, !.current_bet[p] = bet, !.pot = pot,
                          !.has_acted = acted, !.is_all_in = allIn]
<1>1. /\ t \in TableType /\ p \in Players
      /\ t.chips[p] \in Nat /\ t.current_bet[p] \in Nat /\ t.pot \in Nat
  BY SeatedPlayers DEF Sane, TableType
<1>2. CurrentBet(t) \in Nat
  BY <1>1, CurrentBetIsMax
<1>3. /\ amount \in Int /\ amount <= gap /\ amount <= t.chips[p]
      /\ amount = gap \/ amount = t.chips[p]
  <2>1. gap \in Int /\ t.chips[p] \in Int
    BY <1>1, <1>2
  <2>2. amount = Min({gap, t.chips[p]})
    BY DEF CallAmount
  <2> HIDE DEF gap, amount
  <2> QED BY <2>1, <2>2, MinPair, Zenon
<1>4. bet \in Nat /\ bet <= CurrentBet(t) /\ chips \in Nat
  <2> HIDE DEF amount
  <2> QED BY <1>1, <1>2, <1>3
<1>5. paid \in Nat /\ amount <= paid
  <2>1. nothing \in Int /\ nothing = 0
    OBVIOUS
  <2> HIDE DEF nothing, amount
  <2>2. paid \in Int /\ paid >= nothing /\ paid >= amount
    BY <1>3, <2>1, MaxPair, Zenon
  <2> HIDE DEF paid
  <2> QED BY <1>3, <2>1, <2>2
<1>6. pot \in Nat /\ bet <= t.current_bet[p] + paid
  <2> HIDE DEF amount, paid
  <2> QED BY <1>1, <1>3, <1>5
<1>7. acted \in SUBSET Players /\ allIn \in SUBSET Players
  <2> HIDE DEF amount
  <2> QED BY <1>1 DEF TableType
<1>8. Called(t, p) = u
  <2>1. Called(t, p) = [Stake(t, p, amount, bet) EXCEPT !.pot = pot]
    BY DEF Called
  <2> HIDE DEF amount, bet, paid
  <2>2. Stake(t, p, amount, bet) =
          [t EXCEPT !.chips[p] = chips, !.current_bet[p] = bet, !.pot = t.pot + amount,
                    !.has_acted = acted, !.is_all_in = allIn]
    BY DEF Stake
  <2> HIDE DEF pot, chips, acted, allIn
  <2> QED BY <1>1, <2>1, <2>2 DEF TableType
<1> HIDE DEF chips, bet, pot, acted, allIn, amount, paid
<1>9. u \in TableType
  BY <1>1, <1>4, <1>6, <1>7 DEF TableType
<1>10. /\ u.order = t.order /\ u.is_folded = t.is_folded
       /\ u.pot = pot /\ u.min_raise = t.min_raise
       /\ u.current_bet = [t.current_bet EXCEPT ![p] = bet]
  BY <1>1 DEF TableType
<1> HIDE DEF u
<1>11. u.pot = t.pot + paid
  BY <1>10 DEF pot
<1> QED BY <1>4, <1>5, <1>6, <1>8, <1>9, <1>10, <1>11

\* A call raises no bet above the current one.
LEMMA CalledSane ==
  ASSUME NEW t, Sane(t), NEW p \in Seated(t)
  PROVE  Sane(Called(t, p))
<1> DEFINE u == Called(t, p)
<1>1. t \in TableType /\ p \in Players /\ t.min_raise \in Nat
  BY SeatedPlayers DEF Sane, TableType
<1>2. CurrentBet(t) \in Nat /\ 2 * CurrentBet(t) <= t.min_raise
  BY CurrentBetDoubled
<1>3. PICK paid \in Nat, bet \in Nat :
        /\ u \in TableType
        /\ u.order = t.order /\ u.is_folded = t.is_folded
        /\ u.pot = t.pot + paid /\ u.min_raise = t.min_raise
        /\ u.current_bet = [t.current_bet EXCEPT ![p] = bet]
        /\ bet <= t.current_bet[p] + paid
        /\ bet <= CurrentBet(t)
  BY CalledFields
<1> HIDE DEF u
<1>4. \A q \in Unfolded(t) : 2 * t.current_bet[q] <= u.min_raise \/ q = p
  BY <1>3 DEF Sane, Doubled
<1>5. 2 * bet <= u.min_raise
  BY <1>1, <1>2, <1>3
<1>6. Sane(u)
  BY <1>1, <1>3, <1>4, <1>5, NewBetSane
<1> QED BY <1>6 DEF u

LEMMA CallStep ==
  ASSUME IInv, NEW p \in Seated(table), Call(p)
  PROVE  IInv'
BY CalledSane, AdvanceSane DEF IInv, Call, Advance

\* What a player stakes to set min_raise to twice its bet, at the current bet or above.
LEMMA RaisedSane ==
  ASSUME NEW t, Sane(t), NEW p \in Seated(t), NEW paid \in Nat, NEW bet \in Nat,
         paid <= t.chips[p], bet <= t.current_bet[p] + paid, CurrentBet(t) <= bet
  PROVE  Sane([Stake(t, p, paid, bet) EXCEPT !.min_raise = 2 * bet])
<1> DEFINE min == 2 * bet
<1>1. min \in Nat /\ 2 * bet <= min
  OBVIOUS
<1>2. \A q \in Unfolded(t) : 2 * t.current_bet[q] <= min
  <2>1. ASSUME NEW q \in Unfolded(t) PROVE 2 * t.current_bet[q] <= min
    <3>1. CurrentBet(t) \in Nat /\ t.current_bet[q] <= CurrentBet(t)
      BY CurrentBetIsMax DEF Sane
    <3>2. t.current_bet[q] \in Nat
      BY SeatedPlayers DEF Sane, TableType, Unfolded
    <3> QED BY <3>1, <3>2
  <2> QED BY <2>1
<1> HIDE DEF min
<1>3. Sane([Stake(t, p, paid, bet) EXCEPT !.min_raise = min])
  BY <1>1, <1>2, StakeSane
<1> QED BY <1>3 DEF min

\* A bet is no smaller than the current bet.
LEMMA BetSane ==
  ASSUME NEW t, Sane(t), NEW p \in Seated(t), NEW amount \in Nat, ValidBet(t, p, amount)
  PROVE  /\ amount <= t.chips[p]
         /\ Sane([Stake(t, p, amount, amount) EXCEPT !.min_raise = 2 * amount])
<1>1. t.current_bet[p] \in Nat /\ CurrentBet(t) \in Nat
  BY SeatedPlayers, CurrentBetIsMax DEF Sane, TableType
<1>2. amount <= t.chips[p] /\ CurrentBet(t) <= amount
  BY <1>1 DEF ValidBet
<1>3. amount <= t.current_bet[p] + amount
  BY <1>1
<1> QED BY <1>2, <1>3, RaisedSane

LEMMA BetStep ==
  ASSUME IInv, NEW p \in Seated(table), NEW amount \in Nat, Bet(p, amount)
  PROVE  IInv'
BY BetSane, AdvanceSane DEF IInv, Bet, Advance

\* A raise ends above the current bet.
LEMMA RaiseSane ==
  ASSUME NEW t, Sane(t), NEW p \in Seated(t), NEW amount \in Nat,
         ValidRaise(t, p, CurrentBet(t) + amount)
  PROVE  LET total == CurrentBet(t) + amount
             paid == total - t.current_bet[p]
         IN  /\ paid \in Nat /\ total \in Nat /\ paid <= t.chips[p]
             /\ Sane([Stake(t, p, paid, total) EXCEPT !.min_raise = 2 * total])
<1> DEFINE total == CurrentBet(t) + amount
           paid == total - t.current_bet[p]
<1>1. t.current_bet[p] \in Nat /\ CurrentBet(t) \in Nat
  BY SeatedPlayers, CurrentBetIsMax DEF Sane, TableType
<1>2. total > t.current_bet[p] /\ paid <= t.chips[p]
  BY DEF ValidRaise
<1>3. total \in Nat /\ CurrentBet(t) <= total
  BY <1>1
<1> HIDE DEF total
<1>4. paid \in Nat /\ total <= t.current_bet[p] + paid
  BY <1>1, <1>2, <1>3
<1> HIDE DEF paid
<1>5. Sane([Stake(t, p, paid, total) EXCEPT !.min_raise = 2 * total])
  BY <1>2, <1>3, <1>4, RaisedSane
<1> QED BY <1>2, <1>3, <1>4, <1>5 DEF paid, total

LEMMA RaiseStep ==
  ASSUME IInv, NEW p \in Seated(table), NEW amount \in Nat, Raise(p, amount)
  PROVE  IInv'
<1> DEFINE total == CurrentBet(table) + amount
           paid == total - table.current_bet[p]
           u == [Stake(table, p, paid, total) EXCEPT !.min_raise = 2 * total]
<1>1. Sane(u)
  BY RaiseSane DEF IInv, Raise
<1>2. Advance(u)
  BY DEF Raise
<1> HIDE DEF u
<1> QED BY <1>1, <1>2, AdvanceSane DEF IInv, Advance

\* An all-in is a call for less or a raise.
LEMMA AllInSane ==
  ASSUME NEW t, Sane(t), NEW p \in Seated(t)
  PROVE  LET total == t.current_bet[p] + t.chips[p]
         IN  Sane([Stake(t, p, t.chips[p], total) EXCEPT
                     !.min_raise = IF total > CurrentBet(t)
                                   THEN Max({@, 2 * total}) ELSE @])
<1> DEFINE paid == t.chips[p]
           total == t.current_bet[p] + paid
           double == 2 * total
           min == IF total > CurrentBet(t)
                  THEN Max({t.min_raise, double}) ELSE t.min_raise
           staked == Stake(t, p, paid, total)
<1>1. /\ t \in TableType /\ p \in Players
      /\ paid \in Nat /\ t.current_bet[p] \in Nat /\ t.min_raise \in Nat
  BY SeatedPlayers DEF Sane, TableType
<1>2. CurrentBet(t) \in Nat /\ 2 * CurrentBet(t) <= t.min_raise
  BY CurrentBetDoubled
<1>3. staked.min_raise = t.min_raise
  <2>1. total \in Nat /\ paid <= t.chips[p]
    BY <1>1
  <2>2. paid \in Nat /\ p \in Players /\ t \in TableType
    BY <1>1
  <2> HIDE DEF total, paid, min
  <2>3. /\ staked \in TableType
        /\ staked.order = t.order /\ staked.is_folded = t.is_folded
        /\ staked.pot = t.pot + paid /\ staked.min_raise = t.min_raise
        /\ staked.current_bet = [t.current_bet EXCEPT ![p] = total]
    BY <2>1, <2>2, StakeFields
  <2> QED BY <2>3
<1>4. total \in Nat /\ double \in Nat
  BY <1>1
<1>5. min \in Nat /\ t.min_raise <= min /\ double <= min
  <2>1. CASE total > CurrentBet(t)
    <3>1. min = Max({t.min_raise, double})
      BY <2>1
    <3> HIDE DEF min, double
    <3>2. min \in Int /\ min >= t.min_raise /\ min >= double
      <4>1. t.min_raise \in Int /\ double \in Int
        BY <1>1, <1>4
      <4> QED BY <3>1, <4>1, MaxPair, Zenon
    <3> QED BY <1>1, <1>4, <3>2
  <2>2. CASE ~(total > CurrentBet(t))
    <3>1. min = t.min_raise
      BY <2>2
    <3>2. double <= t.min_raise
      <4> HIDE DEF total
      <4> QED BY <1>1, <1>2, <1>4, <2>2
    <3> HIDE DEF min, double
    <3> QED BY <1>1, <3>1, <3>2
  <2> QED BY <2>1, <2>2
<1>6. \A q \in Unfolded(t) : 2 * t.current_bet[q] <= min
  <2>1. ASSUME NEW q \in Unfolded(t) PROVE 2 * t.current_bet[q] <= min
    <3>1. 2 * t.current_bet[q] <= t.min_raise
      BY DEF Sane, Doubled
    <3>2. t.current_bet[q] \in Nat
      BY SeatedPlayers DEF Sane, TableType, Unfolded
    <3> HIDE DEF min
    <3> QED BY <1>1, <1>5, <3>1, <3>2
  <2> QED BY <2>1
<1>7. paid <= t.chips[p] /\ total <= t.current_bet[p] + paid
  BY <1>1
<1>8. Sane([staked EXCEPT !.min_raise = min])
  <2>1. 2 * total <= min
    BY <1>5
  <2> HIDE DEF min, total, paid
  <2> QED BY <1>1, <1>4, <1>5, <1>6, <1>7, <2>1, StakeSane
<1> HIDE DEF staked
<1>9. Sane([staked EXCEPT !.min_raise = IF total > CurrentBet(t)
                                        THEN Max({@, 2 * total}) ELSE @])
  <2>1. min = IF total > CurrentBet(t)
              THEN Max({staked.min_raise, 2 * total}) ELSE staked.min_raise
    BY <1>3
  <2> HIDE DEF min, total
  <2> QED BY <1>8, <2>1
<1> QED BY <1>9 DEF staked

LEMMA AllInStep ==
  ASSUME IInv, NEW p \in Seated(table), AllIn(p)
  PROVE  IInv'
BY AllInSane, AdvanceSane DEF IInv, AllIn, Advance

\* The inactivity task touches nothing but the stage.
LEMMA InactivityStep ==
  ASSUME IInv, InactivityCount \/ InactivityReset
  PROVE  IInv'
<1>1. CASE InactivityCount
  BY <1>1 DEF IInv, InactivityCount
<1>2. CASE InactivityReset
  <2> DEFINE u == [table EXCEPT !.game_stage = "WaitingForPlayers"]
  <2>1. /\ u \in TableType /\ u.order = table.order /\ u.pot = table.pot
        /\ u.current_bet = table.current_bet /\ u.is_folded = table.is_folded
        /\ u.min_raise = table.min_raise
    BY DEF IInv, Sane, TableType, Stages
  <2>2. table' = u \/ table' = table
    BY <1>2 DEF InactivityReset
  <2>3. inactivity' \in BOOLEAN
    BY <1>2 DEF InactivityReset
  <2> HIDE DEF u
  <2>4. Sane(u)
    BY <2>1, BetsUntouched DEF IInv
  <2> QED BY <2>2, <2>3, <2>4 DEF IInv
<1> QED BY <1>1, <1>2

\* Every step preserves the invariant.
LEMMA NextIInv == IInv /\ [Next]_vars => IInv'
<1> SUFFICES ASSUME IInv, [Next]_vars PROVE IInv'
  OBVIOUS
<1>1. Seated(table) \subseteq Players /\ \A a \in Amounts : a \in Nat
  BY SeatedPlayers, Constants DEF IInv, Sane, Amounts
<1>2. CASE AddPlayer
  BY <1>2, AddPlayerStep
<1>3. CASE \E p \in Players : SitOut(p) \/ ReturnToGame(p)
  BY <1>3, SitOutStep
<1>4. CASE PlayerActs
  <2>1. PICK p \in Seated(table) :
          \/ Fold(p) \/ Check(p) \/ Call(p) \/ AllIn(p)
          \/ \E amount \in Amounts : Bet(p, amount) \/ Raise(p, amount)
    BY <1>4 DEF PlayerActs
  <2>2. CASE Fold(p) \/ Check(p)
    BY <1>1, <2>2, FoldStep
  <2>3. CASE Call(p)
    BY <2>3, CallStep
  <2>4. CASE AllIn(p)
    BY <2>4, AllInStep
  <2>5. CASE \E amount \in Amounts : Bet(p, amount) \/ Raise(p, amount)
    BY <1>1, <2>5, BetStep, RaiseStep
  <2> QED BY <2>1, <2>2, <2>3, <2>4, <2>5
<1>5. CASE InactivityCount \/ InactivityReset
  BY <1>5, InactivityStep
<1>6. CASE UNCHANGED vars
  BY <1>6 DEF vars, IInv
<1> QED BY <1>2, <1>3, <1>4, <1>5, <1>6 DEF Next

-----------------------------------------------------------------------------
(* The theorems.                                                           *)

\* The invariant holds in every state of every behaviour.
LEMMA Invariance == Spec => []IInv
BY InitIInv, NextIInv, PTL DEF Spec

\* Whatever the players do, at a table of any size and stakes, every field of the
\* game stays in its range and the iteration order lists every player once.
THEOREM TypeCorrect == Spec => []TypeOK
<1>1. IInv => TypeOK
  BY DEF IInv, Sane, OrderOK, TypeOK
<1> QED BY <1>1, Invariance, PTL

\* No player still in the hand ever has more than half of min_raise in front of it.
THEOREM RaisesDouble == Spec => []RaiseDoublesBet
<1>1. IInv => RaiseDoublesBet
  BY DEF IInv, Sane, Doubled, RaiseDoublesBet
<1> QED BY <1>1, Invariance, PTL

\* The pot always holds at least the sum of the bets the showdown will pay out by.
THEOREM PotCovers == Spec => []PotCoversBets
<1>1. IInv => PotCoversBets
  BY DEF IInv, Sane, Covered, PotCoversBets
<1> QED BY <1>1, Invariance, PTL

-----------------------------------------------------------------------------
\* The fields of the struct.
Fields ==
  {"order", "chips", "current_bet", "has_acted", "is_all_in", "is_folded",
   "is_sitting_out", "hole_cards", "community_cards", "deck", "pot", "current_street",
   "dealer_position", "current_player_id", "min_raise", "game_stage"}

LEMMA TableFields ==
  ASSUME NEW t \in TableType
  PROVE  DOMAIN t = Fields
BY DEF TableType, Fields

-----------------------------------------------------------------------------
(* The invariant of a hand.                                                *)

BoardOK(t) ==
  t.deck =>
    t.community_cards = CASE t.current_street = "Preflop" -> 0
                          [] t.current_street = "Flop" -> 3
                          [] t.current_street = "Turn" -> 4
                          [] OTHER -> 5

\* Nobody is all-in before sitting down.
AllInSeated(t) == t.is_all_in \subseteq Seated(t)

AllInOK(t) == t.game_stage = "BettingRound" => \A p \in t.is_all_in : t.chips[p] = 0

TurnOK(t) == t.game_stage = "BettingRound" => t.current_player_id \notin t.is_folded

HandOK(t) == BoardOK(t) /\ AllInSeated(t) /\ AllInOK(t) /\ TurnOK(t)

\* What a handler hands to advance_action: whoever acted may have folded.
ReadyToAdvance(t) == BoardOK(t) /\ AllInSeated(t) /\ AllInOK(t)

-----------------------------------------------------------------------------
(* A hand starts and ends.                                                 *)

\* What the blinds and the deal leave alone.
SameHand(t, u) ==
  /\ DOMAIN u = Fields
  /\ u.community_cards = t.community_cards
  /\ u.is_all_in = t.is_all_in /\ u.is_folded = t.is_folded

LEMMA PostBlindSameHand ==
  ASSUME NEW t, DOMAIN t = Fields, NEW p, NEW blind
  PROVE  SameHand(t, PostBlind(t, p, blind))
BY DEF PostBlind, SameHand, Fields

LEMMA PostBlindsSameHand ==
  ASSUME NEW t, DOMAIN t = Fields
  PROVE  SameHand(t, PostBlinds(t))
<1> DEFINE ids == Active(t)
           sb == t.dealer_position % Len(ids)
           bb == (sb + 1) % Len(ids)
           first == PostBlind(t, ids[sb+1], SmallBlind)
           second == PostBlind(first, ids[bb+1], BigBlind)
           u == [second EXCEPT !.min_raise = 2 * BigBlind]
<1>1. SameHand(t, first)
  BY PostBlindSameHand
<1>2. DOMAIN first = Fields
  BY <1>1 DEF SameHand
<1> HIDE DEF first
<1>3. SameHand(first, second)
  BY <1>2, PostBlindSameHand
<1>4. PostBlinds(t) = u \/ PostBlinds(t) = t
  BY DEF PostBlinds, first
<1> HIDE DEF second
<1>5. SameHand(second, u)
  BY <1>3 DEF SameHand, Fields
<1> HIDE DEF u
<1>6. SameHand(t, u)
  BY <1>1, <1>3, <1>5 DEF SameHand
<1>7. SameHand(t, t)
  BY DEF SameHand
<1> QED BY <1>4, <1>6, <1>7

\* A new hand starts with nothing on the board, nobody folded and nobody all-in.
LEMMA StartHandOK ==
  ASSUME NEW t \in TableType
  PROVE  HandOK(StartHand(t))
<1> DEFINE cleared == ClearHand(t)
           blinds == PostBlinds(cleared)
           dealt == DealHoleCards(blinds)
           ids == Active(dealt)
           next == IF Len(ids) >= 3 THEN ids[3] ELSE FirstOf(ids)
           u == [dealt EXCEPT !.current_street = "Preflop",
                              !.game_stage = "BettingRound", !.current_player_id = next]
<1>1. /\ DOMAIN cleared = Fields /\ cleared.community_cards = 0
      /\ cleared.is_all_in = {} /\ cleared.is_folded = {}
  <2>1. DOMAIN t = Fields
    BY TableFields
  <2> QED BY <2>1 DEF ClearHand, Fields
<1> HIDE DEF cleared
<1>2. SameHand(cleared, blinds)
  BY <1>1, PostBlindsSameHand
<1> HIDE DEF blinds
<1>3. SameHand(blinds, dealt)
  BY <1>2 DEF SameHand, DealHoleCards, Fields
<1> HIDE DEF dealt, next
<1>4. /\ u.community_cards = 0 /\ u.is_all_in = {} /\ u.is_folded = {}
      /\ u.current_street = "Preflop"
  BY <1>1, <1>2, <1>3 DEF SameHand, Fields
<1>5. StartHand(t) = u
  BY DEF StartHand, cleared, blinds, dealt, next
<1> HIDE DEF u
<1> QED BY <1>4, <1>5 DEF HandOK, BoardOK, AllInSeated, AllInOK, TurnOK

\* The end of a hand needs nothing of the chips: the next hand takes the flags back, or
\* none is dealt.
LEMMA EndHandOK ==
  ASSUME NEW t \in TableType, BoardOK(t), AllInSeated(t)
  PROVE  HandOK(EndHand(t))
<1> DEFINE ids == Filter(t.order, Playable(t))
           position == IF ids = <<>> THEN t.dealer_position
                       ELSE ((t.dealer_position % Len(ids)) + 1) % Len(ids)
           rotated == [t EXCEPT !.dealer_position = position]
           stopped == [rotated EXCEPT !.game_stage = "WaitingForPlayers"]
<1>1. DOMAIN t = Fields
  BY TableFields
<1>2. rotated \in TableType
  <2>1. position \in Nat
    <3>1. ids \in Seq(Players \cap Playable(t)) /\ t.dealer_position \in Nat
      BY FilterPlayers DEF TableType
    <3> HIDE DEF ids
    <3>2. CASE ids = <<>>
      BY <3>1, <3>2
    <3>3. CASE ids # <<>>
      <4>1. Len(ids) > 0 /\ Len(ids) \in Nat
        BY <3>1, <3>3
      <4>2. t.dealer_position % Len(ids) \in Nat
        BY <3>1, <4>1
      <4>3. ((t.dealer_position % Len(ids)) + 1) % Len(ids) \in Nat
        BY <4>1, <4>2
      <4> QED BY <3>3, <4>3
    <3> QED BY <3>2, <3>3
  <2> HIDE DEF position
  <2> QED BY <2>1 DEF TableType
<1>3. EndHand(t) = StartHand(rotated) \/ EndHand(t) = stopped
  BY DEF EndHand
<1> HIDE DEF position
<1>4. /\ stopped.deck = t.deck /\ stopped.community_cards = t.community_cards
      /\ stopped.current_street = t.current_street /\ stopped.order = t.order
      /\ stopped.is_all_in = t.is_all_in /\ stopped.game_stage = "WaitingForPlayers"
  BY <1>1 DEF Fields
<1> HIDE DEF rotated, stopped
<1>5. HandOK(stopped)
  BY <1>4 DEF HandOK, BoardOK, AllInSeated, AllInOK, TurnOK, Seated
<1> QED BY <1>2, <1>3, <1>5, StartHandOK

-----------------------------------------------------------------------------
(* A hand advances.                                                        *)

\* Opening a street deals exactly its cards: the limit never refuses them.
LEMMA DealOK ==
  ASSUME NEW t \in TableType, HandOK(t),
         NEW street \in Streets, NEW count \in Nat,
         \/ t.current_street = "Preflop" /\ street = "Flop" /\ count = 3
         \/ t.current_street = "Flop" /\ street = "Turn" /\ count = 1
         \/ t.current_street = "Turn" /\ street = "River" /\ count = 1
  PROVE  HandOK(DealCommunityCards([t EXCEPT !.current_street = street], count))
<1> DEFINE moved == [t EXCEPT !.current_street = street]
           cards == moved.community_cards + count
           more == [moved EXCEPT !.community_cards = cards]
           dealt == DealCommunityCards(moved, count)
<1>1. DOMAIN t = Fields
  BY TableFields
<1>2. /\ DOMAIN moved = Fields /\ moved.current_street = street
      /\ moved.deck = t.deck /\ moved.community_cards = t.community_cards
      /\ moved.order = t.order /\ moved.is_all_in = t.is_all_in
      /\ moved.is_folded = t.is_folded /\ moved.chips = t.chips
      /\ moved.game_stage = t.game_stage /\ moved.current_player_id = t.current_player_id
  BY <1>1 DEF Fields
<1> HIDE DEF moved
<1>3. dealt = IF t.deck /\ cards <= (IF street = "Flop" THEN 4 ELSE 5) THEN more ELSE moved
  BY <1>2 DEF DealCommunityCards
<1>4. t.deck => /\ cards <= (IF street = "Flop" THEN 4 ELSE 5)
                /\ street = "Flop" => cards = 3
                /\ street = "Turn" => cards = 4
                /\ street = "River" => cards = 5
  BY <1>2 DEF HandOK, BoardOK
<1> HIDE DEF cards
<1>5. /\ more.current_street = street /\ more.deck = t.deck /\ more.community_cards = cards
      /\ more.order = t.order /\ more.is_all_in = t.is_all_in
      /\ more.is_folded = t.is_folded /\ more.chips = t.chips
      /\ more.game_stage = t.game_stage /\ more.current_player_id = t.current_player_id
  BY <1>2 DEF Fields
<1> HIDE DEF more
<1>6. CASE t.deck
  <2>1. dealt = more
    BY <1>3, <1>4, <1>6
  <2> HIDE DEF dealt
  <2>2. BoardOK(more)
    BY <1>4, <1>5, <1>6 DEF BoardOK
  <2>3. AllInSeated(more) /\ AllInOK(more) /\ TurnOK(more)
    BY <1>5 DEF HandOK, AllInSeated, AllInOK, TurnOK, Seated
  <2>4. HandOK(dealt)
    BY <2>1, <2>2, <2>3 DEF HandOK
  <2> QED BY <2>4 DEF dealt, moved
<1>7. CASE ~t.deck
  <2>1. dealt = moved
    BY <1>3, <1>7
  <2> HIDE DEF dealt
  <2>2. BoardOK(moved)
    BY <1>2, <1>7 DEF BoardOK
  <2>3. AllInSeated(moved) /\ AllInOK(moved) /\ TurnOK(moved)
    BY <1>2 DEF HandOK, AllInSeated, AllInOK, TurnOK, Seated
  <2>4. HandOK(dealt)
    BY <2>1, <2>2, <2>3 DEF HandOK
  <2> QED BY <2>4 DEF dealt, moved
<1> QED BY <1>6, <1>7

\* Winnings come to players who are still marked all-in; the end of the hand follows
\* at once.
LEMMA ShowdownOK ==
  ASSUME NEW t \in TableType, BoardOK(t), AllInSeated(t), NEW winners \in Seq(Players)
  PROVE  HandOK(Showdown(t, winners))
<1> DEFINE chips == [p \in Players |-> t.chips[p] + Winnings(t, winners, p)]
           paid == [t EXCEPT !.chips = chips]
<1>1. DOMAIN t = Fields
  BY TableFields
<1>2. chips \in [Players -> Nat]
  <2>1. ASSUME NEW p \in Players PROVE t.chips[p] + Winnings(t, winners, p) \in Nat
    <3>1. t.chips[p] \in Nat
      BY DEF TableType
    <3>2. Winnings(t, winners, p) \in Nat
      BY WinningsNat
    <3> QED BY <3>1, <3>2
  <2> QED BY <2>1
<1>3. Showdown(t, winners) = EndHand(paid)
  BY <1>1 DEF Showdown, Fields
<1> HIDE DEF chips
<1>4. paid \in TableType
  BY <1>2 DEF TableType
<1>5. /\ paid.order = t.order /\ paid.deck = t.deck /\ paid.community_cards = t.community_cards
      /\ paid.current_street = t.current_street /\ paid.is_all_in = t.is_all_in
  BY <1>1 DEF Fields
<1> HIDE DEF paid
<1>6. BoardOK(paid) /\ AllInSeated(paid)
  BY <1>5 DEF BoardOK, AllInSeated, Seated
<1> QED BY <1>3, <1>4, <1>6, EndHandOK

LEMMA NextStreetOK ==
  ASSUME NEW t \in TableType, HandOK(t), NEW winners \in Seq(Players)
  PROVE  HandOK(NextStreet(t, winners))
<1>1. CASE t.current_street = "Preflop"
  <2>1. NextStreet(t, winners) = DealCommunityCards([t EXCEPT !.current_street = "Flop"], 3)
    BY <1>1 DEF NextStreet
  <2> DEFINE three == 3
  <2>2. three \in Nat /\ three = 3 /\ "Flop" \in Streets
    BY DEF Streets
  <2> HIDE DEF three
  <2>3. HandOK(DealCommunityCards([t EXCEPT !.current_street = "Flop"], three))
    BY <1>1, <2>2, DealOK
  <2> QED BY <2>1, <2>2, <2>3
<1>2. CASE t.current_street = "Flop"
  <2>1. NextStreet(t, winners) = DealCommunityCards([t EXCEPT !.current_street = "Turn"], 1)
    BY <1>2 DEF NextStreet
  <2>2. "Turn" \in Streets
    BY DEF Streets
  <2> QED BY <1>2, <2>1, <2>2, DealOK
<1>3. CASE t.current_street = "Turn"
  <2>1. NextStreet(t, winners) = DealCommunityCards([t EXCEPT !.current_street = "River"], 1)
    BY <1>3 DEF NextStreet
  <2>2. "River" \in Streets
    BY DEF Streets
  <2> QED BY <1>3, <2>1, <2>2, DealOK
<1>4. CASE t.current_street = "River"
  <2> DEFINE u == [t EXCEPT !.current_street = "Showdown"]
  <2>1. NextStreet(t, winners) = Showdown(u, winners)
    BY <1>4 DEF NextStreet
  <2>2. u \in TableType
    BY DEF TableType, Streets
  <2>3. /\ u.order = t.order /\ u.deck = t.deck /\ u.community_cards = t.community_cards
        /\ u.current_street = "Showdown" /\ u.is_all_in = t.is_all_in
    <3>1. DOMAIN t = Fields
      BY TableFields
    <3> QED BY <3>1 DEF Fields
  <2> HIDE DEF u
  <2>4. BoardOK(u) /\ AllInSeated(u)
    BY <1>4, <2>3 DEF HandOK, BoardOK, AllInSeated, Seated
  <2> QED BY <2>1, <2>2, <2>4, ShowdownOK
<1>5. CASE t.current_street = "Showdown"
  BY <1>5 DEF NextStreet
<1>6. t.current_street \in Streets
  BY DEF TableType
<1> QED BY <1>1, <1>2, <1>3, <1>4, <1>5, <1>6 DEF Streets

\* Nobody who is given the turn has folded.
LEMMA ActiveUnfolded ==
  ASSUME NEW t \in TableType
  PROVE  Active(t) \in Seq(Players \ t.is_folded)
<1> DEFINE S == Playable(t) \ t.is_folded
<1>1. Active(t) \in Seq(Players \cap S)
  BY FilterPlayers DEF Active
<1>2. Players \cap S \subseteq Players \ t.is_folded
  OBVIOUS
<1> HIDE DEF S
<1> QED BY <1>1, <1>2, SeqMembers

\* Advancing takes the turn away from whoever just folded.
LEMMA AdvanceActionOK ==
  ASSUME NEW t \in TableType, ReadyToAdvance(t),
         NEW winners \in Seq(Players)
  PROVE  HandOK(AdvanceAction(t, winners))
<1> DEFINE ids == Active(t)
           next == NextAfter(ids, t.current_player_id)
           moved == [t EXCEPT !.current_player_id = next]
<1>1. CASE ids = <<>>
  <2>1. AdvanceAction(t, winners) = EndHand(t)
    BY <1>1 DEF AdvanceAction
  <2> QED BY <2>1, EndHandOK DEF ReadyToAdvance
<1>2. CASE ids # <<>>
  <2>1. next \in Players \ t.is_folded
    BY <1>2, ActiveUnfolded, NextAfterMember
  <2>2. AdvanceAction(t, winners) \in {NextStreet(moved, winners), moved}
    BY <1>2 DEF AdvanceAction
  <2> HIDE DEF next
  <2>3. moved \in TableType
    BY <2>1 DEF TableType
  <2>4. /\ moved.order = t.order /\ moved.is_folded = t.is_folded
        /\ moved.deck = t.deck /\ moved.community_cards = t.community_cards
        /\ moved.current_street = t.current_street /\ moved.is_all_in = t.is_all_in
        /\ moved.chips = t.chips /\ moved.game_stage = t.game_stage
        /\ moved.current_player_id = next
    <3>1. DOMAIN t = Fields
      BY TableFields
    <3> QED BY <3>1 DEF Fields
  <2> HIDE DEF moved
  <2>5. HandOK(moved)
    BY <2>1, <2>4 DEF HandOK, ReadyToAdvance, BoardOK, AllInSeated, AllInOK, TurnOK, Seated
  <2> QED BY <2>2, <2>3, <2>5, NextStreetOK
<1> QED BY <1>1, <1>2

\* Every handler ends in Advance.
LEMMA AdvanceOK ==
  ASSUME NEW t \in TableType, ReadyToAdvance(t), Advance(t)
  PROVE  HandOK(table')
<1>1. PICK winners \in Verdicts(t) : table' = AdvanceAction(t, winners)
  BY DEF Advance
<1>2. winners \in Seq(Players)
  BY <1>1, VerdictPlayers
<1> QED BY <1>1, <1>2, AdvanceActionOK

-----------------------------------------------------------------------------
(* Chips are put in.                                                       *)

\* Whatever else changes.
LEMMA StaysReady ==
  ASSUME NEW t, ReadyToAdvance(t), NEW u,
         u.order = t.order, u.chips = t.chips, u.is_all_in = t.is_all_in, u.deck = t.deck,
         u.community_cards = t.community_cards, u.current_street = t.current_street,
         u.game_stage = t.game_stage
  PROVE  ReadyToAdvance(u)
BY DEF ReadyToAdvance, BoardOK, AllInSeated, AllInOK, Seated

\* A player is marked all-in just when it has nothing left, if it pays what it has at
\* most and gets nothing back.
LEMMA StakeReady ==
  ASSUME NEW t \in TableType, ReadyToAdvance(t), NEW p \in Seated(t),
         NEW paid \in Int, NEW bet,
         t.game_stage = "BettingRound" => paid \in 0..t.chips[p]
  PROVE  ReadyToAdvance(Stake(t, p, paid, bet)) /\ DOMAIN Stake(t, p, paid, bet) = Fields
<1> DEFINE chips == t.chips[p] - paid
           allIn == IF t.chips[p] = paid THEN t.is_all_in \cup {p} ELSE t.is_all_in
           u == Stake(t, p, paid, bet)
<1>1. DOMAIN t = Fields /\ t.chips \in [Players -> Nat] /\ p \in Players
  BY TableFields, SeatedPlayers DEF TableType
<1>2. /\ DOMAIN u = Fields /\ u.order = t.order /\ u.deck = t.deck
      /\ u.community_cards = t.community_cards /\ u.current_street = t.current_street
      /\ u.game_stage = t.game_stage
      /\ u.chips = [t.chips EXCEPT ![p] = chips] /\ u.is_all_in = allIn
  BY <1>1 DEF Stake, Fields
<1> HIDE DEF u
<1>3. BoardOK(u)
  BY <1>2 DEF BoardOK, ReadyToAdvance
<1>4. AllInSeated(u)
  BY <1>2 DEF AllInSeated, Seated, ReadyToAdvance
<1>5. AllInOK(u)
  <2>1. SUFFICES ASSUME t.game_stage = "BettingRound", NEW q \in allIn
                 PROVE  u.chips[q] = 0
    BY <1>2 DEF AllInOK
  <2>2. t.chips[p] \in Nat /\ paid \in Nat /\ paid <= t.chips[p]
    BY <1>1, <2>1
  <2>3. \A r \in t.is_all_in : t.chips[r] = 0 /\ r \in Players
    BY <2>1, SeatedPlayers DEF ReadyToAdvance, AllInOK, AllInSeated
  <2>4. CASE q = p
    <3>1. u.chips[q] = t.chips[p] - paid
      BY <1>1, <1>2, <2>4
    <3>2. t.chips[p] = paid \/ t.chips[p] = 0
      BY <2>1, <2>3, <2>4
    <3> QED BY <2>2, <3>1, <3>2
  <2>5. CASE q # p
    <3>1. q \in t.is_all_in
      BY <2>1, <2>5
    <3> QED BY <1>1, <1>2, <2>3, <2>5, <3>1
  <2> QED BY <2>4, <2>5
<1> QED BY <1>2, <1>3, <1>4, <1>5 DEF ReadyToAdvance, u

\* A stake that also sets min_raise.
LEMMA StakeAndMinReady ==
  ASSUME NEW t \in TableType, ReadyToAdvance(t), NEW p \in Seated(t),
         NEW paid \in Nat, paid <= t.chips[p], NEW bet, NEW min
  PROVE  ReadyToAdvance([Stake(t, p, paid, bet) EXCEPT !.min_raise = min])
<1> DEFINE u == Stake(t, p, paid, bet)
           v == [u EXCEPT !.min_raise = min]
<1>1. paid \in 0..t.chips[p] /\ paid \in Int
  BY SeatedPlayers DEF TableType
<1>2. ReadyToAdvance(u) /\ DOMAIN u = Fields
  BY <1>1, StakeReady
<1> HIDE DEF u
<1>3. /\ v.order = u.order /\ v.chips = u.chips /\ v.is_all_in = u.is_all_in
      /\ v.deck = u.deck /\ v.community_cards = u.community_cards
      /\ v.current_street = u.current_street /\ v.game_stage = u.game_stage
  BY <1>2 DEF Fields
<1> HIDE DEF v
<1>4. ReadyToAdvance(v)
  BY <1>2, <1>3, StaysReady
<1> QED BY <1>4 DEF u, v

-----------------------------------------------------------------------------
(* The steps of a hand.                                                    *)

\* While a hand runs, whoever is taken to have the turn has not folded.
LEMMA TurnUnfolded ==
  ASSUME NEW t, Sane(t), TurnOK(t), t.game_stage = "BettingRound",
         NEW p \in Seated(t), p = Turn(t)
  PROVE  p \in Unfolded(t)
<1>1. t \in TableType
  BY DEF Sane
<1>2. CASE t.current_player_id # NoPlayer
  BY <1>2 DEF Turn, TurnOK, Unfolded
<1>3. CASE t.current_player_id = NoPlayer
  <2>1. p = FirstOf(Active(t)) /\ p # NoPlayer
    BY <1>1, <1>3, SeatedPlayers DEF Turn, Players, NoPlayer
  <2>2. Active(t) # <<>> /\ p = Active(t)[1]
    BY <2>1 DEF FirstOf
  <2> DEFINE ids == Active(t)
  <2>3. ids \in Seq(Players \ t.is_folded)
    BY <1>1, ActiveUnfolded
  <2>4. ids # <<>> /\ p = ids[1]
    BY <2>2
  <2> HIDE DEF ids
  <2>5. 1 \in 1..Len(ids)
    BY <2>3, <2>4
  <2>6. p \in Players \ t.is_folded
    BY <2>3, <2>4, <2>5
  <2> QED BY <2>6 DEF Unfolded
<1> QED BY <1>2, <1>3

\* A call never gives chips back while a hand runs.
LEMMA CalledReady ==
  ASSUME NEW t, Sane(t), HandOK(t), NEW p \in Seated(t), p = Turn(t)
  PROVE  ReadyToAdvance(Called(t, p))
<1> DEFINE gap == CurrentBet(t) - t.current_bet[p]
           amount == CallAmount(t, p)
           bet == t.current_bet[p] + amount
           pot == t.pot + Max({0, amount})
           u == Stake(t, p, amount, bet)
           v == [u EXCEPT !.pot = pot]
<1>1. /\ t \in TableType /\ p \in Players
      /\ t.chips[p] \in Nat /\ t.current_bet[p] \in Nat
  BY SeatedPlayers DEF Sane, TableType
<1>2. CurrentBet(t) \in Nat
  BY <1>1, CurrentBetIsMax
<1>3. /\ amount \in Int /\ amount <= t.chips[p]
      /\ amount = gap \/ amount = t.chips[p]
  <2>1. gap \in Int /\ t.chips[p] \in Int
    BY <1>1, <1>2
  <2>2. amount = Min({gap, t.chips[p]})
    BY DEF CallAmount
  <2> HIDE DEF gap, amount
  <2> QED BY <2>1, <2>2, MinPair, Zenon
<1> HIDE DEF amount
<1>4. t.game_stage = "BettingRound" => amount \in 0..t.chips[p]
  <2>1. SUFFICES ASSUME t.game_stage = "BettingRound" PROVE amount \in 0..t.chips[p]
    OBVIOUS
  <2>2. p \in Unfolded(t)
    BY <2>1, TurnUnfolded DEF HandOK
  <2>3. t.current_bet[p] <= CurrentBet(t)
    BY <1>1, <2>2, CurrentBetIsMax
  <2> QED BY <1>1, <1>2, <1>3, <2>3
<1>5. ReadyToAdvance(u) /\ DOMAIN u = Fields
  <2>1. ReadyToAdvance(t)
    BY DEF HandOK, ReadyToAdvance
  <2> HIDE DEF bet
  <2> QED BY <1>1, <1>3, <1>4, <2>1, StakeReady
<1>6. Called(t, p) = v
  BY DEF Called, amount
<1> HIDE DEF u, pot
<1>7. /\ v.order = u.order /\ v.chips = u.chips /\ v.is_all_in = u.is_all_in
      /\ v.deck = u.deck /\ v.community_cards = u.community_cards
      /\ v.current_street = u.current_street /\ v.game_stage = u.game_stage
  BY <1>5 DEF Fields
<1> HIDE DEF v
<1> QED BY <1>5, <1>6, <1>7, StaysReady

\* Folding and checking: no chips move.
LEMMA FoldHand ==
  ASSUME IInv, HandOK(table), NEW p \in Players, Fold(p) \/ Check(p)
  PROVE  HandOK(table')
<1>1. table \in TableType /\ DOMAIN table = Fields
  BY TableFields DEF IInv, Sane
<1>2. PICK F \in SUBSET Players, A \in SUBSET Players :
        Advance([table EXCEPT !.is_folded = F, !.has_acted = A])
  <2>1. table.is_folded \in SUBSET Players /\ table.is_folded \cup {p} \in SUBSET Players
          /\ table.has_acted \cup {p} \in SUBSET Players
    BY <1>1 DEF TableType
  <2>2. [table EXCEPT !.is_folded = table.is_folded, !.has_acted = @ \cup {p}]
          = [table EXCEPT !.has_acted = @ \cup {p}]
    BY <1>1 DEF TableType
  <2> QED BY <2>1, <2>2 DEF Fold, Check
<1> DEFINE u == [table EXCEPT !.is_folded = F, !.has_acted = A]
<1>3. u \in TableType
  BY <1>1 DEF TableType
<1>4. /\ u.order = table.order /\ u.chips = table.chips /\ u.is_all_in = table.is_all_in
      /\ u.deck = table.deck /\ u.community_cards = table.community_cards
      /\ u.current_street = table.current_street /\ u.game_stage = table.game_stage
  BY <1>1 DEF Fields
<1>5. Advance(u)
  BY <1>2
<1> HIDE DEF u
<1>6. ReadyToAdvance(u)
  <2>1. ReadyToAdvance(table)
    BY DEF HandOK, ReadyToAdvance
  <2> QED BY <1>4, <2>1, StaysReady
<1> QED BY <1>3, <1>5, <1>6, AdvanceOK

\* A call.
LEMMA CallHand ==
  ASSUME IInv, HandOK(table), NEW p \in Seated(table), Call(p)
  PROVE  HandOK(table')
<1>1. p = Turn(table) /\ Advance(Called(table, p))
  BY DEF Call
<1>2. Called(table, p) \in TableType
  BY CalledFields DEF IInv
<1>3. ReadyToAdvance(Called(table, p))
  BY <1>1, CalledReady DEF IInv
<1> QED BY <1>1, <1>2, <1>3, AdvanceOK

\* A bet, a raise or an all-in: a stake no larger than the player's chips.
LEMMA StakingHand ==
  ASSUME IInv, HandOK(table), NEW p \in Seated(table), NEW paid \in Nat, NEW bet \in Nat,
         NEW min \in Nat, paid <= table.chips[p],
         Advance([Stake(table, p, paid, bet) EXCEPT !.min_raise = min])
  PROVE  HandOK(table')
<1> DEFINE staked == Stake(table, p, paid, bet)
           u == [staked EXCEPT !.min_raise = min]
<1>1. table \in TableType /\ p \in Players
  BY SeatedPlayers DEF IInv, Sane
<1>2. staked \in TableType
  BY <1>1, StakeFields
<1>3. ReadyToAdvance(u)
  <2>1. ReadyToAdvance(table)
    BY DEF HandOK, ReadyToAdvance
  <2> QED BY <1>1, <2>1, StakeAndMinReady
<1>4. Advance(u)
  OBVIOUS
<1> HIDE DEF staked
<1>5. u \in TableType
  BY <1>2 DEF TableType
<1> HIDE DEF u
<1> QED BY <1>3, <1>4, <1>5, AdvanceOK

LEMMA BetHand ==
  ASSUME IInv, HandOK(table), NEW p \in Seated(table), NEW amount \in Nat,
         Bet(p, amount) \/ Raise(p, amount)
  PROVE  HandOK(table')
<1>1. table.current_bet[p] \in Nat /\ CurrentBet(table) \in Nat
  BY SeatedPlayers, CurrentBetIsMax DEF IInv, Sane, TableType
<1>2. CASE Bet(p, amount)
  <2> DEFINE min == 2 * amount
  <2>1. /\ amount <= table.chips[p]
        /\ Advance([Stake(table, p, amount, amount) EXCEPT !.min_raise = min])
    BY <1>2 DEF Bet, ValidBet
  <2>2. min \in Nat
    OBVIOUS
  <2> HIDE DEF min
  <2> QED BY <2>1, <2>2, StakingHand
<1>3. CASE Raise(p, amount)
  <2> DEFINE total == CurrentBet(table) + amount
             paid == total - table.current_bet[p]
             min == 2 * total
  <2>1. /\ total > table.current_bet[p] /\ paid <= table.chips[p]
        /\ Advance([Stake(table, p, paid, total) EXCEPT !.min_raise = min])
    BY <1>3 DEF Raise, ValidRaise
  <2>2. total \in Nat /\ min \in Nat
    BY <1>1
  <2> HIDE DEF total, min
  <2>3. paid \in Nat
    BY <1>1, <2>1, <2>2
  <2> HIDE DEF paid
  <2> QED BY <2>1, <2>2, <2>3, StakingHand
<1> QED BY <1>2, <1>3

LEMMA AllInHand ==
  ASSUME IInv, HandOK(table), NEW p \in Seated(table), AllIn(p)
  PROVE  HandOK(table')
<1> DEFINE paid == table.chips[p]
           total == table.current_bet[p] + paid
           double == 2 * total
           staked == Stake(table, p, paid, total)
           min == IF total > CurrentBet(table)
                  THEN Max({staked.min_raise, double}) ELSE staked.min_raise
<1>1. /\ table \in TableType /\ p \in Players
      /\ paid \in Nat /\ table.current_bet[p] \in Nat
  BY SeatedPlayers DEF IInv, Sane, TableType
<1>2. Advance([staked EXCEPT !.min_raise = min])
  BY DEF AllIn
<1>3. total \in Nat /\ double \in Nat /\ paid <= table.chips[p]
  BY <1>1
<1>4. staked.min_raise \in Nat
  <2>1. paid <= table.chips[p]
    BY <1>1
  <2> HIDE DEF paid, total
  <2>2. staked \in TableType
    BY <1>1, <1>3, <2>1, StakeFields
  <2> HIDE DEF staked
  <2> QED BY <2>2 DEF TableType
<1>5. min \in Nat
  <2> HIDE DEF staked, double
  <2>1. CASE total > CurrentBet(table)
    <3>1. staked.min_raise \in Int /\ double \in Int
      BY <1>3, <1>4
    <3>2. /\ Max({staked.min_raise, double}) \in Int
          /\ Max({staked.min_raise, double}) >= double
      BY <3>1, MaxPair, Zenon
    <3> QED BY <1>3, <2>1, <3>2
  <2>2. CASE ~(total > CurrentBet(table))
    BY <1>4, <2>2
  <2> QED BY <2>1, <2>2
<1> HIDE DEF min, total, paid
<1> QED BY <1>1, <1>2, <1>3, <1>5, StakingHand DEF staked

\* Whoever joins is not yet marked all-in, and a hand that goes on goes on without it.
LEMMA AddPlayerHand ==
  ASSUME IInv, HandOK(table), AddPlayer
  PROVE  HandOK(table')
<1> DEFINE p == Len(table.order) + 1
<1>1. PICK order \in {o \in [1..p -> 1..p] : IsInjective(o)} :
        LET joined == [table EXCEPT !.order = order, !.chips[p] = StartingChips]
        IN  table' = IF p = 2 THEN StartHand(joined) ELSE joined
  BY DEF AddPlayer
<1> DEFINE joined == [table EXCEPT !.order = order, !.chips[p] = StartingChips]
<1>2. /\ table \in TableType /\ DOMAIN table = Fields
      /\ Len(table.order) \in Nat /\ Len(table.order) < MaxPlayers
  BY TableFields, SeatedPlayers DEF IInv, Sane, AddPlayer
<1>3. p \in Nat /\ p \in 0..MaxPlayers /\ p \in Players
  BY <1>2, Constants DEF Players
<1>4. joined \in TableType
  <2>1. order \in UNION {[1..n -> 1..n] : n \in 0..MaxPlayers}
    BY <1>1, <1>3
  <2> HIDE DEF p
  <2> QED BY <1>2, <1>3, <2>1, Constants DEF TableType
<1>5. /\ joined.order = order /\ joined.is_all_in = table.is_all_in
      /\ joined.is_folded = table.is_folded /\ joined.deck = table.deck
      /\ joined.community_cards = table.community_cards
      /\ joined.current_street = table.current_street
      /\ joined.game_stage = table.game_stage
      /\ joined.current_player_id = table.current_player_id
      /\ joined.chips = [table.chips EXCEPT ![p] = StartingChips]
  BY <1>2 DEF Fields
<1> HIDE DEF joined
<1>6. Seated(joined) = Seated(table) \cup {p} /\ p \notin Seated(table)
  BY <1>1, <1>2, <1>3, <1>5 DEF Seated
<1>7. HandOK(joined)
  <2>1. BoardOK(joined) /\ TurnOK(joined)
    BY <1>5 DEF HandOK, BoardOK, TurnOK
  <2>2. AllInSeated(joined)
    BY <1>5, <1>6 DEF HandOK, AllInSeated
  <2>3. p \notin table.is_all_in
    BY <1>6 DEF HandOK, AllInSeated
  <2>4. \A q \in table.is_all_in : joined.chips[q] = table.chips[q]
    <3>1. table.is_all_in \subseteq Players /\ table.chips \in [Players -> Nat]
      BY <1>2 DEF TableType
    <3> HIDE DEF p
    <3> QED BY <1>5, <2>3, <3>1
  <2>5. AllInOK(joined)
    BY <1>5, <2>4 DEF HandOK, AllInOK
  <2> QED BY <2>1, <2>2, <2>5 DEF HandOK
<1>8. table' \in {StartHand(joined), joined}
  BY <1>1 DEF joined
<1> QED BY <1>4, <1>7, <1>8, StartHandOK

\* Sitting out, returning and the inactivity task look at nothing of this.
LEMMA OtherHand ==
  ASSUME IInv, HandOK(table), NEW p \in Players,
         SitOut(p) \/ ReturnToGame(p) \/ InactivityCount \/ InactivityReset
  PROVE  HandOK(table')
<1>1. DOMAIN table = Fields
  BY TableFields DEF IInv, Sane
<1>2. CASE SitOut(p) \/ ReturnToGame(p)
  <2>1. /\ table'.order = table.order /\ table'.chips = table.chips
        /\ table'.is_all_in = table.is_all_in /\ table'.is_folded = table.is_folded
        /\ table'.deck = table.deck /\ table'.community_cards = table.community_cards
        /\ table'.current_street = table.current_street
        /\ table'.game_stage = table.game_stage
        /\ table'.current_player_id = table.current_player_id
    BY <1>1, <1>2 DEF SitOut, ReturnToGame, Fields
  <2> QED BY <2>1 DEF HandOK, BoardOK, AllInSeated, AllInOK, TurnOK, Seated
<1>3. CASE InactivityCount
  BY <1>3 DEF InactivityCount
<1>4. CASE InactivityReset
  <2> DEFINE u == [table EXCEPT !.game_stage = "WaitingForPlayers"]
  <2>1. /\ u.order = table.order /\ u.is_all_in = table.is_all_in
        /\ u.deck = table.deck /\ u.community_cards = table.community_cards
        /\ u.current_street = table.current_street
        /\ u.game_stage = "WaitingForPlayers"
    BY <1>1 DEF Fields
  <2>2. table' = u \/ table' = table
    BY <1>4 DEF InactivityReset
  <2> HIDE DEF u
  <2>3. HandOK(u)
    BY <2>1 DEF HandOK, BoardOK, AllInSeated, AllInOK, TurnOK, Seated
  <2> QED BY <2>2, <2>3
<1> QED BY <1>2, <1>3, <1>4

LEMMA InitHand == Init => HandOK(table)
<1> SUFFICES ASSUME Init PROVE HandOK(table)
  OBVIOUS
<1>1. /\ table.deck = FALSE /\ table.is_all_in = {}
      /\ table.game_stage = "WaitingForPlayers"
  BY DEF Init
<1> QED BY <1>1 DEF HandOK, BoardOK, AllInSeated, AllInOK, TurnOK

LEMMA NextHand == IInv /\ HandOK(table) /\ [Next]_vars => HandOK(table')
<1> SUFFICES ASSUME IInv, HandOK(table), [Next]_vars PROVE HandOK(table')
  OBVIOUS
<1>1. Seated(table) \subseteq Players /\ \A a \in Amounts : a \in Nat
  BY SeatedPlayers, Constants DEF IInv, Sane, Amounts
<1>2. CASE AddPlayer
  BY <1>2, AddPlayerHand
<1>3. CASE \E p \in Players : SitOut(p) \/ ReturnToGame(p)
  BY <1>3, OtherHand
<1>4. CASE PlayerActs
  <2>1. PICK p \in Seated(table) :
          \/ Fold(p) \/ Check(p) \/ Call(p) \/ AllIn(p)
          \/ \E amount \in Amounts : Bet(p, amount) \/ Raise(p, amount)
    BY <1>4 DEF PlayerActs
  <2>2. CASE Fold(p) \/ Check(p)
    BY <1>1, <2>2, FoldHand
  <2>3. CASE Call(p)
    BY <2>3, CallHand
  <2>4. CASE AllIn(p)
    BY <2>4, AllInHand
  <2>5. CASE \E amount \in Amounts : Bet(p, amount) \/ Raise(p, amount)
    BY <1>1, <2>5, BetHand
  <2> QED BY <2>1, <2>2, <2>3, <2>4, <2>5
<1>5. CASE InactivityCount
  BY <1>5 DEF InactivityCount
<1>6. CASE InactivityReset
  <2>1. CASE Players # {}
    BY <1>6, <2>1, OtherHand
  <2>2. CASE Players = {}
    <3>1. table.order = <<>>
      BY <2>2, SeatedPlayers DEF IInv, Sane
    <3> QED BY <1>6, <3>1 DEF InactivityReset
  <2> QED BY <2>1, <2>2
<1>7. CASE UNCHANGED vars
  BY <1>7 DEF vars
<1> QED BY <1>2, <1>3, <1>4, <1>5, <1>6, <1>7 DEF Next

-----------------------------------------------------------------------------
(* The theorems about a hand.                                              *)

LEMMA HandAlways == Spec => []HandOK(table)
<1>1. Init => HandOK(table)
  BY InitHand
<1>2. IInv /\ HandOK(table) /\ [Next]_vars => HandOK(table)'
  BY NextHand
<1> QED BY <1>1, <1>2, Invariance, PTL DEF Spec

\* Whatever players do, join and leave, at a table of any size and stakes, the board
\* has the cards of the street: no advance, end of hand or new hand deals too few, too
\* many or none.
THEOREM BoardKeepsUp == Spec => []BoardMatchesStreet
<1>1. HandOK(table) => BoardMatchesStreet
  BY DEF HandOK, BoardOK, BoardMatchesStreet
<1> QED BY <1>1, HandAlways, PTL

\* While a hand runs a player who folded it never has the turn.
THEOREM TurnSkipsFolded == Spec => []FoldedNeverOnTurn
<1>1. HandOK(table) => FoldedNeverOnTurn
  BY DEF HandOK, TurnOK, FoldedNeverOnTurn
<1> QED BY <1>1, HandAlways, PTL

\* While a hand runs nobody marked all-in holds chips, although calls can give chips
\* back and winnings are paid before the marks are taken off.
THEOREM AllInMeansNoChips == Spec => []AllInHasNoChips
<1>1. HandOK(table) => AllInHasNoChips
  BY DEF HandOK, AllInOK, AllInHasNoChips
<1> QED BY <1>1, HandAlways, PTL

\* While a hand runs the turn is with nobody who has folded it, even before anyone has
\* been given it: what PaidOnlyAtShowdown and BankSpec suppose fails at a waiting table
\* only.
THEOREM TurnStaysInHand == Spec => [](table.game_stage = "BettingRound" => TurnIsInHand)
<1>1. IInv /\ HandOK(table) => (table.game_stage = "BettingRound" => TurnIsInHand)
  <2> SUFFICES ASSUME IInv, HandOK(table), table.game_stage = "BettingRound"
               PROVE  TurnIsInHand
    OBVIOUS
  <2>1. table \in TableType /\ table.is_folded \subseteq Players
    BY DEF IInv, Sane, TableType
  <2>2. CASE table.current_player_id # NoPlayer
    BY <2>2 DEF TurnIsInHand, Turn, HandOK, TurnOK
  <2>3. CASE table.current_player_id = NoPlayer
    <3> DEFINE ids == Active(table)
    <3>1. ids \in Seq(Players \ table.is_folded)
      BY <2>1, ActiveUnfolded
    <3>2. Turn(table) = FirstOf(ids)
      BY <2>3 DEF Turn
    <3> HIDE DEF ids
    <3>3. NoPlayer \notin Players
      BY DEF NoPlayer, Players
    <3>4. FirstOf(ids) \notin table.is_folded
      <4>1. CASE ids = <<>>
        BY <2>1, <3>3, <4>1 DEF FirstOf
      <4>2. CASE ids # <<>>
        <5>1. ids[1] \in Players \ table.is_folded
          BY <3>1, <4>2, SeqMembers
        <5> QED BY <4>2, <5>1 DEF FirstOf
      <4> QED BY <4>1, <4>2
    <3> QED BY <3>2, <3>4 DEF TurnIsInHand
  <2> QED BY <2>2, <2>3
<1> QED BY <1>1, Invariance, HandAlways, PTL
=============================================================================
