CONSTANTS
  Publishers = {p1, p2}
  Holders = {h1, h2}
  Topics = {t1, t2}
  Subs = {s1, s2}
  None = None
  MaxMsgs = 1
  Cap = 1
  Shutdown = TRUE
SPECIFICATION FairSpec
CHECK_DEADLOCK FALSE
INVARIANTS
  BrokerTypeOK
  NoPanic
  AtMostOnceRelay
  ListedIsLive
PROPERTIES
  PublishReachesEveryOpenSub
  OnlyTheCycleBlocks
