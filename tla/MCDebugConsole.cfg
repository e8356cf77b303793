CONSTANTS
  a = a
  b = b
  Channels = {a, b}
  Wildcard = all
  Default = a
  ChannelOf <- Alternating
  KeyOf <- Alternating
  Unsaved = {2}
  MaxEvents = 2
  MaxSockets = 2
  MaxMounts = 2
  MaxClicks = 1
  LogLimit = 2
SPECIFICATION FairSpec
CHECK_DEADLOCK FALSE
INVARIANTS
  JoinedIsSubscribed
  SubscribedIsListed
  SocketsFollowPage
  StreamInOrder
PROPERTIES
  ConnectingEnds
