SPECIFICATION FairSpec
CONSTANTS
  act = act
  bad = bad
  ask = ask
  odd = odd
  Requests <- Dropped
  Kind <- KindOfDropped
  Copies = 1
  InboxSize = 2
  MaxChanges = 0
  KeepaliveTicks = 2
  TimeMod = 16
  Skew <- Ahead
  Tolerance = 1
  MaxLife = 2
  Faults <- FaultKinds
  FaultBudget = 1
INVARIANTS
  TypeOK
  LagIsBounded
PROPERTIES
  ClockSettles
CHECK_DEADLOCK TRUE
