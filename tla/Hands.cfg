\* One player, fifteen cards with every kind of hand in them.
CONSTANTS
  s = s
  h = h
  d = d
  c = c
  Deck <- EveryKindDeck
  Players = {1}
SPECIFICATION Spec
VIEW CardsOnly
CHECK_DEADLOCK FALSE
INVARIANT EvaluationIsBest
INVARIANT NeverOverrated
