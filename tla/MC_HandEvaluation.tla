------------------------- MODULE MC_HandEvaluation -------------------------
(* A deck for TLC that holds every kind of hand.                            *)
EXTENDS HandEvaluation

CONSTANTS s, h, d, c   \* the suits

\* Seven spades in a row with the ace, so long straights, flushes and the wheel;
\* three or four aces, deuces and sixes, so every kind of pairing; and two cards
\* apart, so hands with nothing in them.
EveryKindDeck ==
  ({14, 2, 3, 4, 5, 6, 7} \X {s}) \cup ({14, 2, 6, 10} \X {h})
    \cup ({14, 2, 12} \X {d}) \cup ({14} \X {c})

\* With one player it is the cards that matter, not which of them are on the board.
CardsOnly == <<Dealt, Cardinality(board)>>
=============================================================================
