\* The README on many clients, refuted.
CONSTANTS
  Connections = {c1, c2}
  Addresses = {home}
  MaxConnections = 2
  MaxPerAddress = 2
  MaxSeats = 2
  Nobody = Nobody
SPECIFICATION FairSpec
CHECK_DEADLOCK FALSE
PROPERTY OthersAreServed
