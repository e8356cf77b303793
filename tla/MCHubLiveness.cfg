CONSTANTS
  c1 = c1
  c2 = c2
  c3 = c3
  u1 = u1
  u2 = u2
  lobby = lobby
  news = news
  Clients = {c1, c2}
  Public = {}
  Private = {}
  Presence = {lobby}
  Wildcard = none
  Users = {u1}
  Identities <- AnyUser
  NoUser = NoUser
  NoChannel = NoChannel
  MaxOps = 2
  AdminCalls = TRUE
SPECIFICATION FairSpec
INVARIANTS
  OneSubscriptionPerChannel
  AbsentUserIsAnnouncedRemoved
PROPERTIES
  ClosedIsForgotten
  KickedIsForgotten
  ImplementsLease
