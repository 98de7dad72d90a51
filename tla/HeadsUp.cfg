\* Two players who may sit out and return at any time.
CONSTANTS
  MaxPlayers = 2
  StartingChips = 4
  SmallBlind = 1
  BigBlind = 2
  MaxBetPerHand = 5
  MaxBetMultiplier = 10
  MaxPot = 100
SPECIFICATION FairSpec
CONSTRAINT NoMoreThanBoughtIn
INVARIANT BoardMatchesStreet
INVARIANT FoldedNeverOnTurn
INVARIANT AllInHasNoChips
PROPERTY HandsEnd
