SPECIFICATION FairSpec
CONSTANTS
  Fds <- FourFds
  BufferSize = 2
  Faults <- Calls
  FaultBudget = 4
INVARIANTS
  TypeOK
  ListenerHears
  DescriptorsAccounted
  ListenerIsItself
PROPERTIES
  KeepsSending
CHECK_DEADLOCK FALSE
