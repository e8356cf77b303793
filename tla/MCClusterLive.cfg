CONSTANTS
  n1 = n1
  n2 = n2
  c1 = c1
  c2 = c2
  c3 = c3
  api = api
  room = room
  all = all
  nobody = nobody
  Nodes = {n1, n2}
  Clients = {c2, c3}
  Callers = {api}
  NodeFor <- AtNodes
  Except <- OnBehalfOfNobody
  Nobody = nobody
  Channels = {room, all}
  Public = {room, all}
  Wildcard = all
  ChannelIn <- InData
  MaxEvents <- OneByCaller
  MaxJoins <- JoinOnce
  MaxSubs = 2
  Lossy = FALSE
  Crashes = TRUE
SPECIFICATION FairSpec
PROPERTY
  RelayedInTheEnd
CHECK_DEADLOCK FALSE
