SPECIFICATION Spec
CONSTANTS
  thermo = thermo
  lamp = lamp
  pump = pump
  Devices <- OneDevice
  NameLen <- LongNameLen
  Complete <- OneDevice
  Faults = {}
  FaultBudget <- OneBudget
INVARIANTS
  SavedIsRetrievable
CHECK_DEADLOCK FALSE
