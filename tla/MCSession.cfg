CONSTANTS
  alice = alice
  bob = bob
  Accounts = {alice, bob}
  NoOne = NoOne
  app1 = app1
  app2 = app2
  Apps = {app1, app2}
  NoApp = NoApp
  MaxCalls = 2
  MaxTimers = 2
SPECIFICATION Spec
SYMMETRY Symmetry
CHECK_DEADLOCK FALSE
INVARIANTS
  AppsAreTheAccounts
  CalmListIsComplete
  BusyWhileCalling
