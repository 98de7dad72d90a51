\* The README on folding, refuted.
CONSTANTS
  MaxPlayers = 2
  StartingChips = 3
  SmallBlind = 1
  BigBlind = 2
  MaxBetPerHand = 5
  MaxBetMultiplier = 10
  MaxPot = 100
SPECIFICATION Spec
PROPERTY FoldIsFinal
