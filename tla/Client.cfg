\* Two sessions, three attempts in a row, and one other player.
CONSTANTS
  MaxSessions = 2
  MaxInbox = 2
  MaxClicks = 1
  MaxAttempts = 3
  InitialDelay = 1
  MaxDelay = 3
  Others = {ann}
  Nobody = Nobody
SPECIFICATION FairSpec
CHECK_DEADLOCK FALSE
INVARIANT TypeOK
INVARIANT OneReader
INVARIANT DelaysDouble
INVARIANT StatusIsTrue
INVARIANT ClicksAreOwn
PROPERTY Recovers
