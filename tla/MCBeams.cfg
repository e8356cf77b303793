CONSTANTS
  alice = alice
  news = news
  Users = {alice}
  Interests = {news}
  NoUser = NoUser
  MaxDevices = 1
  MaxRequests = 3
  ListLimit = 1
SPECIFICATION Spec
CHECK_DEADLOCK FALSE
INVARIANTS
  ReturnsOnlyByOverlap
  UploadsKeepEachOther
  ConfiguredIsStored
  SendingIsOneRequest
  
