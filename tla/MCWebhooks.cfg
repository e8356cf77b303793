CONSTANTS
  occupied = occupied
  vacated = vacated
  EventNames = {occupied, vacated}
  MaxHooks = 2
  MaxCalls = 3
  MaxToggles = 1
  MaxNotes = 1
  Timeout = 1
  Deadline = 2
SPECIFICATION FairSpec
CHECK_DEADLOCK FALSE
INVARIANTS
  OneAtATimeIsAccurate
  EveryHookIsAccounted
PROPERTIES
  HookIsToldInTheEnd
