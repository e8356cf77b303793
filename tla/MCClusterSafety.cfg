CONSTANTS
  n1 = n1
  n2 = n2
  c1 = c1
  c2 = c2
  c3 = c3
  api = api
  room = room
  all = all
  nobody = nobody
  Nodes = {n1, n2}
  Clients = {c1, c2}
  Callers = {api}
  NodeFor <- AtNodes
  Except <- OnBehalf
  Nobody = nobody
  Channels = {room}
  Public = {}
  Wildcard = all
  ChannelIn <- InData
  MaxEvents <- TwoByFirst
  MaxJoins <- SecondRejoins
  MaxSubs = 2
  Lossy = TRUE
  Crashes = TRUE
SPECIFICATION Spec
PROPERTIES
  ImplementsBus
  InOrderSinceJoin
CHECK_DEADLOCK FALSE
