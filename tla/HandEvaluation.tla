--------------------------- MODULE HandEvaluation ---------------------------
(***************************************************************************)
(* Who wins a showdown: evaluate_hand and the check_* functions of         *)
(* poker_server/src/game.rs with the HandEvaluation constructors and their *)
(* order of poker_protocol/src/types.rs, beside the rules of poker as the  *)
(* best of all five-card hands.                                            *)
(*                                                                         *)
(* A card is <<rank, suit>>, ranks 2..14 with the ace at 14, and a hand is *)
(* a set of cards: a deck holds no card twice and nothing here depends on  *)
(* the order of the cards.  (With one to four cards something would, but   *)
(* no showdown has so few: hole cards come with a deck, and with a deck    *)
(* the board is complete at a showdown.)  The functions that loop over a   *)
(* HashMap of rank counts may meet the ranks in any order, so a hand has a *)
(* set of possible evaluations.                                            *)
(***************************************************************************)
EXTENDS Integers, Sequences, FiniteSets, FiniteSetsExt

CONSTANTS
  Deck,      \* the cards that may be dealt
  Players    \* the players at the showdown, 1..n

VARIABLES
  hole,      \* each player's hole cards
  board      \* the community cards

vars == <<hole, board>>

Card(rank, suit) == <<rank, suit>>
RankOf(c) == c[1]
SuitOf(c) == c[2]

Suits == {SuitOf(c) : c \in Deck}

\* create_deck: ranks from Two to Ace in four suits.
ASSUME DeckAssumption ==
  /\ Deck \subseteq (2..14) \X Suits
  /\ IsFiniteSet(Suits) /\ Cardinality(Suits) <= 4

\* showdown goes on only with players who have not folded.
ASSUME PlayersAssumption == Players \subseteq Nat /\ IsFiniteSet(Players) /\ Players # {}

-----------------------------------------------------------------------------
(* Ranks of a set of cards.                                                *)

Ranks(cards) == {RankOf(c) : c \in cards}
Count(cards, r) == Cardinality({c \in cards : RankOf(c) = r})
RanksCounted(cards, n) == {r \in Ranks(cards) : Count(cards, r) >= n}

\* The ranks of all cards, highest first, repeated as often as they occur.
Descending(cards) ==
  [i \in 1..Cardinality(cards) |->
     CHOOSE r \in Ranks(cards) :
       /\ Cardinality({c \in cards : RankOf(c) > r}) < i
       /\ Cardinality({c \in cards : RankOf(c) >= r}) >= i]

\* The n highest of the cards that have none of these ranks.
Kickers(cards, ranks, n) ==
  LET rest == {c \in cards : RankOf(c) \notin ranks}
  IN  SubSeq(Descending(rest), 1, Min({n, Cardinality(rest)}))

\* .max().unwrap_or(0)
Highest(S) == Max({0} \cup S)

-----------------------------------------------------------------------------
(* HandRank and the evaluations, from the lowest to the highest.           *)

HighCard == 0
Pair == 1
TwoPair == 2
ThreeOfAKind == 3
Straight == 4
Flush == 5
FullHouse == 6
FourOfAKind == 7
StraightFlush == 8

Evaluation(rank, primary, tiebreakers) ==
  [rank |-> rank, primary_rank |-> primary, tiebreakers |-> tiebreakers]

NoCards == Evaluation(HighCard, 0, <<>>)

Wheel == {14, 2, 3, 4, 5}

\* check_straight_from_cards: the wheel is looked for first, then the highest
\* card of the highest run of five.
Straights(ranks) ==
  LET tops == {r \in ranks : \A i \in 1..4 : r - i \in ranks}
  IN  IF Wheel \subseteq ranks THEN {Evaluation(Straight, 5, <<5, 4, 3, 2, 1>>)}
      ELSE IF tops = {} THEN {}
      ELSE {Evaluation(Straight, Max(tops), <<Max(tops)>>)}

\* get_flush_cards: the five highest of a suit of five or more.
FlushRanks(cards) ==
  {Kickers(suited, {}, 5) : suited \in
     {s \in {{c \in cards : SuitOf(c) = suit} : suit \in {SuitOf(c) : c \in cards}} :
        Cardinality(s) >= 5}}

StraightFlushes(cards) ==
  UNION {{Evaluation(StraightFlush, e.primary_rank, <<e.primary_rank>>) :
            e \in Straights({ranks[i] : i \in 1..5})} : ranks \in FlushRanks(cards)}

Fours(cards) ==
  {Evaluation(FourOfAKind, r, <<Highest(Ranks(cards) \ {r})>>) : r \in RanksCounted(cards, 4)}

\* Whichever rank of three the map yields first, over whichever other pair.
FullHouses(cards) ==
  {Evaluation(FullHouse, tp[1], <<tp[2]>>) :
     tp \in {tp \in RanksCounted(cards, 3) \X RanksCounted(cards, 2) : tp[1] # tp[2]}}

\* Mutant: five cards of a suit need not be its highest.
FlushesInAnyOrder(cards) ==
  {Evaluation(Flush, Highest(Ranks(cards)), Kickers(cards, {}, 5)) :
     ranks \in FlushRanks(cards)}

Flushes(cards) == {Evaluation(Flush, ranks[1], ranks) : ranks \in FlushRanks(cards)}

Threes(cards) ==
  {Evaluation(ThreeOfAKind, r, Kickers(cards, {r}, 2)) : r \in RanksCounted(cards, 3)}

\* Mutant: the kicker of two pairs may be one of their own ranks.
TwoPairsAnyKicker(cards) ==
  LET pairs == RanksCounted(cards, 2)
      high == Max(pairs)
      low == Max(pairs \ {high})
  IN  IF Cardinality(pairs) < 2 THEN {}
      ELSE {Evaluation(TwoPair, high, <<low, Highest(Ranks(cards) \ {high})>>)}

TwoPairs(cards) ==
  LET pairs == RanksCounted(cards, 2)
      high == Max(pairs)
      low == Max(pairs \ {high})
  IN  IF Cardinality(pairs) < 2 THEN {}
      ELSE {Evaluation(TwoPair, high, <<low, Highest(Ranks(cards) \ {high, low})>>)}

Pairs(cards) ==
  {Evaluation(Pair, r, Kickers(cards, {r}, 3)) : r \in RanksCounted(cards, 2)}

HighCards(cards) ==
  {Evaluation(HighCard, Highest(Ranks(cards)), Kickers(cards, {}, 5))}

\* evaluate_hand: the first check in descending order of rank that finds something.
Evaluate(cards) ==
  LET checks == <<StraightFlushes(cards), Fours(cards), FullHouses(cards),
                  Flushes(cards), Straights(Ranks(cards)), Threes(cards),
                  TwoPairs(cards), Pairs(cards), HighCards(cards)>>
  IN  IF cards = {} THEN {NoCards}
      ELSE checks[Min({i \in 1..9 : checks[i] # {}})]

-----------------------------------------------------------------------------
(* The order of evaluations and the winners showdown takes from it.        *)

\* Vec's order: at the first difference, a prefix below what extends it.
SeqLess(s, t) ==
  \/ \E i \in 1..Min({Len(s), Len(t)}) :
       s[i] < t[i] /\ \A j \in 1..(i-1) : s[j] = t[j]
  \/ Len(s) < Len(t) /\ s = SubSeq(t, 1, Len(s))

\* Ord for HandEvaluation, strictly
Less(e, f) ==
  SeqLess(<<e.rank, e.primary_rank>> \o e.tiebreakers,
          <<f.rank, f.primary_rank>> \o f.tiebreakers)

Cards(p) == hole[p] \cup board

\* showdown: everyone whose rank and tiebreakers are those of the first hand in
\* the sorted list.  The primary rank is not compared.
Winners(evals) ==
  {p \in Players :
     \E best \in Players :
       /\ \A q \in Players : ~Less(evals[best], evals[q])
       /\ evals[p].rank = evals[best].rank
       /\ evals[p].tiebreakers = evals[best].tiebreakers}

\* What each player's hand may be evaluated to.
Evaluations == {evals \in [Players -> UNION {Evaluate(Cards(p)) : p \in Players}] :
                  \A p \in Players : evals[p] \in Evaluate(Cards(p))}

-----------------------------------------------------------------------------
(* The deal.                                                               *)

Dealt == board \cup UNION {hole[p] : p \in Players}

Init == hole = [p \in Players |-> {}] /\ board = {}

\* deal_hole_cards; what matters at the showdown is only who holds what
DealHole(p) ==
  /\ Cardinality(hole[p]) < 2
  /\ \A q \in Players : q < p => Cardinality(hole[q]) = 2
  /\ \E c \in Deck \ Dealt : hole' = [hole EXCEPT ![p] = @ \cup {c}]
  /\ UNCHANGED board

\* deal_community_cards
DealBoard ==
  /\ \A p \in Players : Cardinality(hole[p]) = 2
  /\ Cardinality(board) < 5
  /\ \E c \in Deck \ Dealt : board' = board \cup {c}
  /\ UNCHANGED hole

Next == DealBoard \/ \E p \in Players : DealHole(p)

Spec == Init /\ [][Next]_vars

-----------------------------------------------------------------------------
(* The rules: the best five cards.                                         *)

\* The ranks of a hand, those that occur most often first.
Weight(five, r) == Count(five, r) * 15 + r
Groups(five) ==
  LET ranks == Ranks(five)
  IN  [i \in 1..Cardinality(ranks) |->
         CHOOSE r \in ranks :
           Cardinality({q \in ranks : Weight(five, q) > Weight(five, r)}) = i - 1]

\* A five-card hand by the rules: its category, then the ranks that count.
RuleOf(five) ==
  LET ranks == Ranks(five)
      groups == Groups(five)
      suited == Cardinality({SuitOf(c) : c \in five}) = 1
      straight == Cardinality(ranks) = 5
                    /\ (ranks = Wheel \/ Max(ranks) - Min(ranks) = 4)
      most == Count(five, groups[1])
  IN  IF straight THEN << IF suited THEN StraightFlush ELSE Straight,
                          IF ranks = Wheel THEN 5 ELSE groups[1] >>
      ELSE << CASE most = 4 -> FourOfAKind
                [] most = 3 /\ Len(groups) = 2 -> FullHouse
                [] suited -> Flush
                [] most = 3 /\ Len(groups) = 3 -> ThreeOfAKind
                [] most = 2 /\ Len(groups) = 3 -> TwoPair
                [] most = 2 /\ Len(groups) = 4 -> Pair
                [] OTHER -> HighCard >> \o groups

\* The best five of a hand.
BestOf(cards) ==
  LET rules == {RuleOf(five) : five \in kSubset(5, cards)}
  IN  CHOOSE r \in rules : \A s \in rules : ~SeqLess(r, s)

\* What an evaluation says in the terms of the rules.
Meaning(e) ==
  CASE e.rank \in {Straight, StraightFlush} -> <<e.rank, e.primary_rank>>
    [] e.rank \in {HighCard, Flush} -> <<e.rank>> \o e.tiebreakers
    [] OTHER -> <<e.rank, e.primary_rank>> \o e.tiebreakers

-----------------------------------------------------------------------------
(* Properties.                                                             *)

Complete == Cardinality(board) = 5

\* The three kinds of hands the evaluation need not see through: six or more cards of
\* a suit, where a straight flush may lie below the five highest (every such hand is
\* meant, those with nothing but a flush in them too); a higher straight beside the
\* wheel; and more than one full house.
SixSuited(cards) ==
  \E c \in cards : Cardinality({d \in cards : SuitOf(d) = SuitOf(c)}) >= 6
LongWheel(cards) == Wheel \cup {6} \subseteq Ranks(cards)
ManyFullHouses(cards) == Cardinality(FullHouses(cards)) > 1

\* poker_server/README.md, "standard poker hand rankings": the evaluation is the
\* best five-card hand, in category and in every rank that counts, outside the
\* three kinds above.
EvaluationIsBest ==
  Complete =>
    \A p \in Players : \A e \in Evaluate(Cards(p)) :
      \/ Meaning(e) = BestOf(Cards(p))
      \/ SixSuited(Cards(p)) \/ LongWheel(Cards(p)) \/ ManyFullHouses(Cards(p))

\* No hand is ever evaluated to more than its cards make, in those kinds either.
NeverOverrated ==
  Complete =>
    \A p \in Players : \A e \in Evaluate(Cards(p)) :
      ~SeqLess(BestOf(Cards(p)), Meaning(e))
=============================================================================
