\* Two connections that get three messages, one of them badly signed, for a cache of
\* two nonces.  A second is two ticks; of the two clocks one is ahead by just less than a nonce
\* can make up for, the other by just too much.
CONSTANTS
  Connections = {c1, c2}
  Messages = {m1, m2, m3}
  Genuine = {m1, m2}
  Nothing = Nothing
  MaxTokens = 2
  RefillRate = 1
  Second = 2
  Window = 1
  Expiry = 3
  CacheSize = 2
  Skews = {0, 1}
  MaxWait = 1
  MaxClock = 6
SYMMETRY Alike
SPECIFICATION Spec
CHECK_DEADLOCK FALSE
INVARIANT TypeOK
INVARIANT TakenOnce
INVARIANT OrderNamesNonces
INVARIANT NeverOverfull
INVARIANT RateKept
