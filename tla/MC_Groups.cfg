CONSTANTS
  Processes <- ThreeProcesses
  MaxRestarts <- OneRestart
  Launchable <- BothProcesses
  Groups <- SharingGroups
  Policy <- SharingPolicy
  Wanted <- AllStates
  Priorities <- OnePriority
  MaxPending = 1
  Services = {s1, s2}
  Providers = {p1}
  Methods = {}
  Events = {e1}
  Fields = {d1}
  Triggers = {t1}
  Futures = {}
  MaxCorr = 1
  MaxDepth = 2
  MaxHandles = 1
  MaxSubs = 2
  MaxSeq = 4
  Absent = Absent
SPECIFICATION GroupsSpec
INVARIANTS
  SamplesInOrder
  LauncherAgrees
  WindowsAreQuiet
PROPERTIES
  BudgetIsFinal
  GroupFollowsPolicy
  OutcomesAreHonest
CHECK_DEADLOCK FALSE
