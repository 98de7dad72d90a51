\* Three connections from two or three addresses, two of them at a time and one per address,
\* for a table of two seats.
CONSTANTS
  Connections = {c1, c2, c3}
  Addresses = {home, office, cafe}
  MaxConnections = 2
  MaxPerAddress = 1
  MaxSeats = 2
  Nobody = Nobody
SPECIFICATION SpreadSpec
CHECK_DEADLOCK FALSE
INVARIANT TypeOK
INVARIANT OnlyFailedHandshakesLeak
INVARIANT SessionsHaveSenders
INVARIANT SessionsAreSeated
INVARIANT LimitsGiveWayToRaces
PROPERTY ClosingEnds
PROPERTY ShutdownEnds
