\* The documented limits on concurrent connections, refuted.
CONSTANTS
  Connections = {c1, c2}
  Addresses = {home}
  MaxConnections = 1
  MaxPerAddress = 1
  MaxSeats = 2
  Nobody = Nobody
SPECIFICATION FairSpec
CHECK_DEADLOCK FALSE
PROPERTY RefusedOnlyAtLimit
