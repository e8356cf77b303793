CONSTANTS
  c1 = c1
  c2 = c2
  c3 = c3
  u1 = u1
  u2 = u2
  lobby = lobby
  news = news
  Clients = {c1, c2}
  Public = {news}
  Private = {}
  Presence = {lobby}
  Wildcard = news
  Users = {u1, u2}
  Identities <- AnyUser
  NoUser = NoUser
  NoChannel = NoChannel
  MaxOps = 2
  AdminCalls = TRUE
SPECIFICATION Spec
SYMMETRY Symmetry
INVARIANTS
  TypeOK
  PresenceFollowsMembership
  GoneIsForgotten
  PresentUserCanBeKicked
  EmptyIsNotAnnouncedOccupied
