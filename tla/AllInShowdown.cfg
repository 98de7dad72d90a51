\* The README on all-ins and the showdown, refuted.
CONSTANTS
  MaxPlayers = 2
  StartingChips = 3
  SmallBlind = 1
  BigBlind = 2
  MaxBetPerHand = 5
  MaxBetMultiplier = 10
  MaxPot = 100
SPECIFICATION Spec
INVARIANT AllInsAreShownDown
