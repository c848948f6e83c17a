SPECIFICATION Spec
CONSTANTS
  k1 = k1
  k2 = k2
  k3 = k3
  k4 = k4
  k5 = k5
  k6 = k6
  Keys <- SixKeys
  Values = {1, 2}
  Hash <- Collisions
  CapacityBits = 4
  InitialCapacities = {1, 2, 11}
  Puts <- MostPuts
  Removable <- TheThird
  NoKey = NoKey
  NoValue = NoValue
  Removed = Removed
INVARIANTS
  TypeOK
  SizeIsLive
  CrashNeedsRemovalsOrWrap
  LoopsMissRemoved
PROPERTIES
  ImplementsMap
CHECK_DEADLOCK FALSE
