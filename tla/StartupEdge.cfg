SPECIFICATION Spec
CONSTANTS
  thermo = thermo
  lamp = lamp
  pump = pump
  Devices <- EdgeDevices
  NameLen <- EdgeNameLen
  Complete <- EdgeComplete
  Faults <- FaultKinds
  FaultBudget <- EdgeBudget
INVARIANTS
  TypeOK
  RunningIsOnline
  RegistrationsAccounted
  BackoffLaw
  NewestIdentity
PROPERTIES
  NoReRegistration
CHECK_DEADLOCK FALSE
