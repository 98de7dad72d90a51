\* Two clients, a channel of one message, one permit of each kind, queues of one.
CONSTANTS
  Clients = {c1, c2}
  steady = c1
  ChannelCapacity = 1
  BroadcastPermits = 1
  SendPermits = 1
  QueueCapacity = 1
  MaxPublished = 2
SPECIFICATION FairSpec
CHECK_DEADLOCK FALSE
CONSTRAINT SmallCrowd
INVARIANT TypeOK
INVARIANT SentOnce
PROPERTY BroadcastsEnd
PROPERTY PublishedIsShown
