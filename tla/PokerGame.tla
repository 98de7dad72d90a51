----------------------------- MODULE PokerGame -----------------------------
(***************************************************************************)
(* The table: PokerGame of poker_server/src/game.rs.                       *)
(*                                                                         *)
(* The game sits behind one mutex and every public method runs to its end  *)
(* under it, so a method is one atomic step: handle_action validates,      *)
(* moves chips, advances the turn and, when that closes the last betting   *)
(* round, pays the pots, ends the hand and deals the next one.  The struct *)
(* is the record `table`; a &mut self method is an operator from table to  *)
(* table; a public method is an action.                                    *)
(*                                                                         *)
(* Data that no branch looks at is abstracted.  Cards are counted, not     *)
(* named, and who wins a showdown is any verdict the evaluation could      *)
(* return.  Players are numbered in the order they join.  The map          *)
(* `players` iterates in an order std leaves open, which may change when   *)
(* an insertion rehashes: `order`.  A refused request changes nothing and  *)
(* is a stuttering step.  hand_number and side_pots are never read (the    *)
(* latter never holds anything), broadcasts belong to the pipeline.        *)
(***************************************************************************)
EXTENDS ChipMath, FiniteSets, FiniteSetsExt, Functions

CONSTANTS
  MaxPlayers,        \* MAX_PLAYERS, and how many players ever join
  StartingChips,     \* STARTING_CHIPS, what a player joins with
  SmallBlind, BigBlind,
  MaxBetPerHand,     \* MAX_BET_PER_HAND
  MaxBetMultiplier,  \* MAX_BET_MULTIPLIER
  MaxPot             \* MAX_POT

ASSUME TableAssumption ==
  /\ {MaxPlayers, StartingChips, SmallBlind, BigBlind, MaxBetPerHand,
      MaxBetMultiplier, MaxPot} \subseteq Nat
  /\ SmallBlind <= BigBlind
  \* a hand draws two cards a player and five for the board from 52, so the
  \* deck never runs short and `deck` need only say whether there is one
  /\ 2 * MaxPlayers + 5 <= 52

Players == 1..MaxPlayers
NoPlayer == 0
Streets == {"Preflop", "Flop", "Turn", "River", "Showdown"}
Stages == {"WaitingForPlayers", "BettingRound", "HandComplete"}

VARIABLES
  table,       \* the PokerGame struct
  inactivity   \* TRUE: the inactivity task counted too few players and has yet to lock again

vars == <<table, inactivity>>

TableType ==
  [order: UNION {[1..n -> 1..n] : n \in 0..MaxPlayers},
   chips: [Players -> Nat], current_bet: [Players -> Nat],
   has_acted: SUBSET Players, is_all_in: SUBSET Players,
   is_folded: SUBSET Players, is_sitting_out: SUBSET Players,
   hole_cards: SUBSET Players,      \* who holds two cards
   community_cards: 0..5, deck: BOOLEAN, pot: Nat,
   current_street: Streets, dealer_position: Nat,
   current_player_id: {NoPlayer} \cup Players,
   min_raise: Nat, game_stage: Stages]

-----------------------------------------------------------------------------
(* Who is where.                                                           *)

Seated(t) == 1..Len(t.order)
\* Mutant: folding is forgotten.
UnfoldedForgetsFolds(t) == Seated(t)

Unfolded(t) == Seated(t) \ t.is_folded

\* chips > 0 and not sitting out: counted by end_hand, dealt in by start_hand
Playable(t) == {p \in Seated(t) \ t.is_sitting_out : t.chips[p] > 0}

\* Mutant: the folded are still active.
ActiveForgetsFolds(t) == Filter(t.order, Playable(t))

\* get_active_player_ids, in iteration order
Active(t) == Filter(t.order, Playable(t) \ t.is_folded)

FirstOf(s) == IF s = <<>> THEN NoPlayer ELSE s[1]

\* get_current_bet
CurrentBet(t) == Max({0} \cup {t.current_bet[p] : p \in Unfolded(t)})

AllPlayersActed(t) == Unfolded(t) \ t.is_all_in \subseteq t.has_acted
BetsEqualized(t) ==
  \A p \in Unfolded(t) : t.current_bet[p] = CurrentBet(t) \/ p \in t.is_all_in
ShouldAdvanceStreet(t) == AllPlayersActed(t) /\ BetsEqualized(t)

-----------------------------------------------------------------------------
(* Starting and ending a hand.                                             *)

\* Mutant: a short stack owes the whole blind.
PostWholeBlind(t, p, blind) ==
  [t EXCEPT !.chips[p] = @ - blind, !.current_bet[p] = blind, !.pot = @ + blind]

\* Mutant: the second blind overwrites the first in the pot.
PostBlindOverPot(t, p, blind) ==
  LET amount == Min({blind, t.chips[p]})
  IN  [t EXCEPT !.chips[p] = @ - amount, !.current_bet[p] = amount, !.pot = amount]

\* Player p puts in a blind, or all it has if that is less.
PostBlind(t, p, blind) ==
  LET amount == Min({blind, t.chips[p]})
  IN  [t EXCEPT !.chips[p] = @ - amount, !.current_bet[p] = amount,
                !.pot = @ + amount]

PostBlinds(t) ==
  LET ids == Active(t)
      sb == t.dealer_position % Len(ids)
      bb == (sb + 1) % Len(ids)
  IN  IF Len(ids) < 2 THEN t
      ELSE [PostBlind(PostBlind(t, ids[sb+1], SmallBlind), ids[bb+1], BigBlind)
              EXCEPT !.min_raise = 2 * BigBlind]

DealHoleCards(t) == [t EXCEPT !.hole_cards = Playable(t)]

\* Mutant: the board of the last hand stays.
ClearHandKeepsBoard(t) ==
  [t EXCEPT !.current_bet = [p \in Players |-> 0], !.hole_cards = {},
            !.has_acted = {}, !.is_all_in = {}, !.is_folded = {},
            !.deck = TRUE, !.pot = 0]

\* Mutant: the all-in flags of the last hand stay.
ClearHandKeepsAllIn(t) ==
  [t EXCEPT !.current_bet = [p \in Players |-> 0], !.hole_cards = {},
            !.has_acted = {}, !.is_folded = {},
            !.community_cards = 0, !.deck = TRUE, !.pot = 0]

\* create_deck and the resets of start_hand: every player, sitting out or not
ClearHand(t) ==
  [t EXCEPT !.current_bet = [p \in Players |-> 0], !.hole_cards = {},
            !.has_acted = {}, !.is_all_in = {}, !.is_folded = {},
            !.community_cards = 0, !.deck = TRUE, !.pot = 0]

StartHand(t) ==
  LET dealt == DealHoleCards(PostBlinds(ClearHand(t)))
      ids == Active(dealt)
  IN  [dealt EXCEPT
         !.current_street = "Preflop", !.game_stage = "BettingRound",
         !.current_player_id = IF Len(ids) >= 3 THEN ids[3] ELSE FirstOf(ids)]

EndHand(t) ==
  LET ids == Filter(t.order, Playable(t))
      rotated == [t EXCEPT !.dealer_position =
                    IF ids = <<>> THEN @ ELSE ((@ % Len(ids)) + 1) % Len(ids)]
  IN  IF Len(ids) >= 2 THEN StartHand(rotated)
      ELSE [rotated EXCEPT !.game_stage = "WaitingForPlayers"]

-----------------------------------------------------------------------------
(* The showdown: one pot for each distinct bet level of the players who    *)
(* have not folded, contested by those who bet at least that much.         *)

BetLevels(t) == {t.current_bet[p] : p \in Unfolded(t)}
Eligible(t, level) == {p \in Unfolded(t) : t.current_bet[p] >= level}
\* Mutant: each pot is paid from the ground up, not from the level below.
WholeLevelPot(t, level) == level * Cardinality(Eligible(t, level))

SidePot(t, level) ==
  (level - Max({0} \cup {l \in BetLevels(t) : l < level}))
    * Cardinality(Eligible(t, level))

\* What p gets of the pot at a level; `winners` is in the order of the sorted
\* evaluations and the first of them take the odd chips.
Share(t, winners, level, p) ==
  LET ws == Filter(winners, Eligible(t, level))
      pot == SidePot(t, level)
  IN  IF \E i \in 1..Len(ws) : ws[i] = p
      THEN pot \div Len(ws)
             + (IF \E i \in 1..(pot % Len(ws)) : ws[i] = p THEN 1 ELSE 0)
      ELSE 0

Winnings(t, winners, p) ==
  SumTo([level \in 1..CurrentBet(t) |->
           IF level \in BetLevels(t) THEN Share(t, winners, level, p) ELSE 0],
        CurrentBet(t))

\* The winners showdown may find: any of the players who have not folded, in any
\* order; nobody when this step reaches no showdown.
Verdicts(t) ==
  IF t.current_street = "River" /\ Active(t) # <<>> /\ ShouldAdvanceStreet(t)
  THEN {w \in UNION {[1..n -> Unfolded(t)] : n \in Players} : IsInjective(w)}
  ELSE {<<>>}

Showdown(t, winners) ==
  EndHand([t EXCEPT !.chips = [p \in Players |-> @[p] + Winnings(t, winners, p)]])

-----------------------------------------------------------------------------
(* Advancing the turn.                                                     *)

\* deal_community_cards: refused when the board would outgrow the street;
\* before the first hand there is no deck to draw from.
DealCommunityCards(t, count) ==
  LET max == IF t.current_street = "Flop" THEN 4 ELSE 5
  IN  IF t.deck /\ t.community_cards + count <= max
      THEN [t EXCEPT !.community_cards = @ + count]
      ELSE t

\* Mutant: the turn comes back to whoever had it.
NextAfterSame(ids, p) == IF \E i \in 1..Len(ids) : ids[i] = p THEN p ELSE ids[1]

\* The player after p among ids, or the first when p is not one of them.
NextAfter(ids, p) ==
  IF \E i \in 1..Len(ids) : ids[i] = p
  THEN ids[((CHOOSE i \in 1..Len(ids) : ids[i] = p) % Len(ids)) + 1]
  ELSE ids[1]

NextStreet(t, winners) ==
  CASE t.current_street = "Preflop" ->
         DealCommunityCards([t EXCEPT !.current_street = "Flop"], 3)
    [] t.current_street = "Flop" ->
         DealCommunityCards([t EXCEPT !.current_street = "Turn"], 1)
    [] t.current_street = "Turn" ->
         DealCommunityCards([t EXCEPT !.current_street = "River"], 1)
    [] t.current_street = "River" ->
         Showdown([t EXCEPT !.current_street = "Showdown"], winners)
    [] OTHER -> t

AdvanceAction(t, winners) ==
  LET ids == Active(t)
      moved == [t EXCEPT !.current_player_id = NextAfter(ids, @)]
  IN  IF ids = <<>> THEN EndHand(t)
      ELSE IF ShouldAdvanceStreet(t) THEN NextStreet(moved, winners)
      ELSE moved

-----------------------------------------------------------------------------
(* The public methods.                                                     *)

Init ==
  /\ table = [order |-> <<>>,
              chips |-> [p \in Players |-> 0],
              current_bet |-> [p \in Players |-> 0],
              has_acted |-> {}, is_all_in |-> {}, is_folded |-> {},
              is_sitting_out |-> {}, hole_cards |-> {},
              community_cards |-> 0, deck |-> FALSE, pot |-> 0,
              current_street |-> "Preflop", dealer_position |-> 0,
              current_player_id |-> NoPlayer,
              min_raise |-> 2 * BigBlind,
              game_stage |-> "WaitingForPlayers"]
  /\ inactivity = FALSE

\* The next newcomer sits down; the second to do so starts the first hand.
AddPlayer ==
  /\ Len(table.order) < MaxPlayers
  /\ LET p == Len(table.order) + 1
     IN  \E order \in {o \in [1..p -> 1..p] : IsInjective(o)} :
           LET joined == [table EXCEPT !.order = order, !.chips[p] = StartingChips]
           IN  table' = IF p = 2 THEN StartHand(joined) ELSE joined
  /\ UNCHANGED inactivity

SitOut(p) ==
  /\ p \in Seated(table)
  /\ table' = [table EXCEPT !.is_sitting_out = @ \cup {p}]
  /\ UNCHANGED inactivity

ReturnToGame(p) ==
  /\ p \in Seated(table)
  /\ table' = [table EXCEPT !.is_sitting_out = @ \ {p}]
  /\ UNCHANGED inactivity

\* is_player_turn of handle_action: neither the stage nor the player's own
\* flags are looked at.
Turn(t) ==
  IF t.current_player_id # NoPlayer THEN t.current_player_id ELSE FirstOf(Active(t))

\* The tail of handle_action: advance_action on the updated table, and nothing
\* of the inactivity task.
Advance(t) ==
  /\ \E winners \in Verdicts(t) : table' = AdvanceAction(t, winners)
  /\ UNCHANGED inactivity

\* p puts `paid` more chips in and stands at `bet`.
Stake(t, p, paid, bet) ==
  [t EXCEPT !.chips[p] = @ - paid, !.current_bet[p] = bet, !.pot = @ + paid,
            !.has_acted = @ \cup {p},
            !.is_all_in = IF t.chips[p] = paid THEN @ \cup {p} ELSE @]

\* calculate_new_pot accepts `paid`
PotAccepts(t, paid) == paid > 0 /\ t.pot + paid <= MaxPot

Fold(p) ==
  /\ p = Turn(table)
  /\ Advance([table EXCEPT !.is_folded = @ \cup {p}, !.has_acted = @ \cup {p}])

Check(p) ==
  /\ p = Turn(table)
  /\ CurrentBet(table) <= table.current_bet[p]
  /\ Advance([table EXCEPT !.has_acted = @ \cup {p}])

\* What p is short of the current bet, or all it has if that is less.  The numbers
\* are signed: for a player who folded above the current bet it is negative.
CallAmount(t, p) == Min({CurrentBet(t) - t.current_bet[p], t.chips[p]})

\* A negative amount goes from the bet back to the chips and leaves the pot alone.
Called(t, p) ==
  LET amount == CallAmount(t, p)
  IN  [Stake(t, p, amount, t.current_bet[p] + amount) EXCEPT
         !.pot = t.pot + Max({0, amount})]

Call(p) ==
  /\ p = Turn(table)
  /\ CallAmount(table, p) > 0 => PotAccepts(table, CallAmount(table, p))
  /\ Advance(Called(table, p))

\* Mutant: a bet need only be covered.
AnyBet(t, p, amount) == amount \in 1..t.chips[p]

\* validate_bet_amount and the second look at min_raise that follows it
ValidBet(t, p, amount) ==
  /\ amount > 0
  /\ CurrentBet(t) > 0 => amount >= CurrentBet(t) /\ amount >= t.min_raise
  /\ amount <= t.chips[p]
  /\ \/ amount <= t.pot * MaxBetMultiplier
     \/ t.chips[p] <= t.pot * MaxBetMultiplier
  /\ amount <= MaxBetPerHand
  /\ amount >= t.min_raise \/ t.chips[p] <= t.min_raise

\* The amount replaces what p had bet before, though the pot keeps both.
Bet(p, amount) ==
  /\ p = Turn(table)
  /\ ValidBet(table, p, amount)
  /\ PotAccepts(table, amount)
  /\ Advance([Stake(table, p, amount, amount) EXCEPT !.min_raise = 2 * amount])

\* validate_raise_amount
ValidRaise(t, p, total) ==
  /\ total > t.current_bet[p]
  /\ total >= t.min_raise
  /\ total - t.current_bet[p] <= t.chips[p]
  /\ total <= MaxBetPerHand

Raise(p, amount) ==
  LET total == CurrentBet(table) + amount
      paid == total - table.current_bet[p]
  IN  /\ p = Turn(table)
      /\ ValidRaise(table, p, total)
      /\ PotAccepts(table, paid)
      /\ Advance([Stake(table, p, paid, total) EXCEPT !.min_raise = 2 * total])

AllIn(p) ==
  LET paid == table.chips[p]
      total == table.current_bet[p] + paid
  IN  /\ p = Turn(table)
      /\ paid # 0
      /\ PotAccepts(table, paid)
      /\ Advance([Stake(table, p, paid, total) EXCEPT
                    !.min_raise = IF total > CurrentBet(table)
                                  THEN Max({@, 2 * total}) ELSE @])

\* The inactivity task of main.rs: it counts under one lock and writes the
\* stage under another.
InactivityCount ==
  /\ ~inactivity
  /\ Cardinality(Seated(table) \ table.is_sitting_out) < 2
  /\ inactivity' = TRUE
  /\ UNCHANGED table

InactivityReset ==
  /\ inactivity
  /\ inactivity' = FALSE
  /\ table' = IF table.order = <<>> THEN table
              ELSE [table EXCEPT !.game_stage = "WaitingForPlayers"]

\* The amounts a client may name that could be accepted.
Amounts == 1..(MaxPlayers * StartingChips)

PlayerActs ==
  \E p \in Seated(table) :
    \/ Fold(p)
    \/ Check(p)
    \/ Call(p)
    \/ AllIn(p)
    \/ \E amount \in Amounts : Bet(p, amount) \/ Raise(p, amount)

Next ==
  \/ AddPlayer
  \/ \E p \in Players : SitOut(p)
  \/ \E p \in Players : ReturnToGame(p)
  \/ PlayerActs
  \/ InactivityCount
  \/ InactivityReset

Spec == Init /\ [][Next]_vars

\* Whoever has the turn can change the table by a check or a call.
CanAnswer ==
  LET p == Turn(table)
  IN  /\ p \in Seated(table)
      /\ CallAmount(table, p) > 0 => PotAccepts(table, CallAmount(table, p))
      /\ \E winners \in Verdicts(Called(table, p)) :
           AdvanceAction(Called(table, p), winners) # table

\* As long as a check or a call can change the table players act again and again, if
\* only so; nobody has to fold or to put in more.  The inactivity task goes on once it
\* has counted.  (The former is WF_vars(PlayerActs) for the ENABLED of Check and Call,
\* spelt out because TLC evaluates it much faster.)
FairSpec ==
  /\ Spec
  /\ []<>~CanAnswer \/ []<><<PlayerActs>>_vars
  /\ WF_vars(InactivityReset)

-----------------------------------------------------------------------------
(* Properties.                                                             *)

Total(f) == SumTo(f, MaxPlayers)

\* Every field of the struct stays in its range, and the map's iteration order
\* lists every player once.
TypeOK ==
  /\ table \in TableType
  /\ IsInjective(table.order) /\ Range(table.order) = Seated(table)
  /\ inactivity \in BOOLEAN

\* poker_server/README.md: "Minimum raise is 2x the current bet".  Bets, raises,
\* all-ins and blinds update min_raise each in its own way, and folds change who
\* counts; a player still in the hand never has more than half of min_raise in
\* front of it.
RaiseDoublesBet ==
  \A p \in Unfolded(table) : 2 * table.current_bet[p] <= table.min_raise

\* The showdown pays by current_bet while the chips were collected in pot: what
\* it is about to pay out is in the pot, whatever was called, overwritten by a
\* later bet or folded since the blinds.
PotCoversBets == Total(table.current_bet) <= table.pot

\* The board always has the cards of the street: an end of hand, a new hand or an
\* advance never leaves one behind the other.
BoardMatchesStreet ==
  table.deck =>
    table.community_cards = CASE table.current_street = "Preflop" -> 0
                              [] table.current_street = "Flop" -> 3
                              [] table.current_street = "Turn" -> 4
                              [] OTHER -> 5

\* While a hand runs the turn is never with a player who folded it, though
\* folding, sitting out and returning all change who is next.
FoldedNeverOnTurn ==
  table.game_stage = "BettingRound" => table.current_player_id \notin table.is_folded

\* While a hand runs a player marked all-in has no chips left: no winnings of
\* the last hand remain behind a flag that exempts from acting.
AllInHasNoChips ==
  table.game_stage = "BettingRound" =>
    \A p \in table.is_all_in : table.chips[p] = 0

\* Everyone who folded keeps out of the turn.  At a waiting table the last active
\* player keeps the turn it folded on, and a call then gives it chips: see
\* FoldIsFinal.
TurnIsInHand == Turn(table) \notin table.is_folded

\* Chips come to a player who has them only by winning a showdown: its chips
\* grow only in a step that closes the river, and only if it has not folded.
PaidOnlyAtShowdown ==
  [][TurnIsInHand =>
       \A p \in Seated(table) :
         table'.chips[p] > table.chips[p] =>
           table.current_street = "River" /\ p \notin table.is_folded]_vars

\* What the table holds: the chips of every player and, until the showdown has
\* paid it, the pot.  A buy-in is the only source of chips (ChipBank).
Bank == INSTANCE ChipBank WITH
  purse <- table.chips,
  escrow <- IF table.current_street = "Showdown" THEN 0 ELSE table.pot,
  joined <- Seated(table)
BankSpec == Bank!Init /\ [][TurnIsInHand => [Bank!Next]_(Bank!bankVars)]_vars

\* poker_server/README.md: "Fold: Surrender your hand".  Nothing comes back to a
\* player for as long as it has folded, not even by a later call.
FoldIsFinal ==
  [][\A p \in table.is_folded \cap table'.is_folded :
       table'.chips[p] <= table.chips[p]]_vars

\* Who keeps a betting round open without ever being given the turn: in the hand,
\* not all-in, and not among the active players.
Blocks(p) ==
  /\ p \in Unfolded(table) \ table.is_all_in
  /\ p \notin Playable(table)

\* With every client answering on its turn, hands keep ending: as long as someone
\* can act and nobody blocks, a new hand is dealt again and again or the table waits
\* for players because too few are left.  (A table left at "Showdown" is excepted: it
\* waits, and players who return do not wake it.)
HandsEnd ==
  <>[](/\ Active(table) # <<>>
       /\ \A p \in Players : ~Blocks(p)
       /\ table.current_street # "Showdown") =>
    []<>(\/ table.game_stage = "WaitingForPlayers" /\ Cardinality(Playable(table)) < 2
         \/ table.current_street = "Preflop" /\ table.has_acted = {})

\* types.rs says has_acted is "Whether the player has acted in the current betting
\* round": when a street opens, someone who can act has yet to.
RoundsStartAfresh ==
  [][/\ table.deck
     /\ table'.current_street # table.current_street
     /\ table'.current_street \in {"Flop", "Turn", "River"}
     => Playable(table)' \cap Unfolded(table)' \cap table'.has_acted = {}]_vars

\* poker_server/README.md: "All-In: Bet all your remaining chips", "Watch the
\* showdown to see who wins!": players who are all in against each other come to a
\* showdown.
AllInsAreShownDown ==
  /\ table.deck
  /\ Cardinality(Unfolded(table)) >= 2
  /\ Unfolded(table) \subseteq table.is_all_in
  => table.current_street = "Showdown"
=============================================================================
