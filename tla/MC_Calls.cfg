CONSTANTS
  Services = {s1, s2}
  Providers = {p1}
  Methods = {m1}
  Events = {}
  Fields = {}
  Triggers = {}
  Futures = {f1, f2}
  MaxCorr = 3
  MaxDepth = 1
  MaxHandles = 0
  MaxSubs = 0
  MaxSeq = 0
  Absent = Absent
  Processes <- BothProcesses
  MaxRestarts <- NoRestart
  Launchable <- BothProcesses
  Groups <- ReferenceGroups
  Policy <- ReferencePolicy
  Wanted <- UrgentStates
  Priorities <- TwoPriorities
  MaxPending = 3
SPECIFICATION CallsSpec
INVARIANTS
  CallsAccounted
  WithdrawnServiceHoldsNothing
PROPERTIES
  CallsFollowLifecycle
  FutureSettles
  UrgentServed
CHECK_DEADLOCK FALSE
