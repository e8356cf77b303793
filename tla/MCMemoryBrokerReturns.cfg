CONSTANTS
  Publishers = {p1}
  Holders = {h1}
  Topics = {t1}
  Subs = {s1}
  None = None
  MaxMsgs = 1
  Cap = 1
  Shutdown = FALSE
SPECIFICATION FairSpec
CHECK_DEADLOCK FALSE
PROPERTIES
  PublishReturns
