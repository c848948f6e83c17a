SPECIFICATION Spec
CONSTANTS
  act = act
  bad = bad
  ask = ask
  odd = odd
  Requests <- Handled
  Kind <- KindOfHandled
  Copies = 2
  InboxSize = 2
  MaxChanges = 1
  KeepaliveTicks = 0
  TimeMod = 1
  Skew = 0
  Tolerance = 0
  MaxLife = 0
  Faults <- FaultKinds
  FaultBudget = 2
INVARIANTS
  AnsweredWasExecuted
  ExecutionsAccounted
  StatusIsFresh
CHECK_DEADLOCK TRUE
PROPERTIES
  ServesRequests
