SPECIFICATION Spec
CONSTANTS
  Fds <- FourFds
  BufferSize = 2
  Faults <- DnsOnly
  FaultBudget = 3
INVARIANTS
  SamePort
CHECK_DEADLOCK FALSE
