\* Three players, no sitting out; states up to a renaming of the players.
CONSTANTS
  MaxPlayers = 3
  StartingChips = 4
  SmallBlind = 1
  BigBlind = 2
  MaxBetPerHand = 6
  MaxBetMultiplier = 10
  MaxPot = 100
SPECIFICATION Spec
CONSTRAINT NoMoreThanBoughtIn
VIEW ByPosition
CONSTRAINT NobodySitsOut
INVARIANT TypeOK
INVARIANT RaiseDoublesBet
INVARIANT PotCoversBets
PROPERTY PaidOnlyAtShowdown
PROPERTY BankSpec
