SPECIFICATION FairSpec
CONSTANTS
  act = act
  bad = bad
  ask = ask
  odd = odd
  Requests <- RefusedToo
  Kind <- KindOfRefusedToo
  Copies = 3
  InboxSize = 2
  MaxChanges = 0
  KeepaliveTicks = 1
  TimeMod = 1
  Skew = 0
  Tolerance = 0
  MaxLife = 0
  Faults <- FaultKinds
  FaultBudget = 1
PROPERTIES
  EveryRequestAnswered
  BecomesReachable
CHECK_DEADLOCK TRUE
