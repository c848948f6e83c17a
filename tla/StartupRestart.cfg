SPECIFICATION RelaunchSpec
CONSTANTS
  thermo = thermo
  lamp = lamp
  pump = pump
  Devices <- RestartDevices
  NameLen <- RestartNameLen
  Complete <- RestartDevices
  Faults <- RestartFaults
  FaultBudget <- RestartBudget
INVARIANTS
  OneIdentity
PROPERTIES
  NoReRegistration
  KeepsIdentity
  ComesOnline
CHECK_DEADLOCK FALSE
