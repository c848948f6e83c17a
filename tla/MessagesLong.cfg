SPECIFICATION Spec
CONSTANTS
  CapacityBits = 3
  InitialCapacity = 2
  StatusOptions <- SomeComponents
  ActionOptions <- SomeActions
  EventOptions <- SomeEvents
  Infos <- SomeInfos
  MaxStatus = 2
  MaxActions = 2
  MaxEvents = 5
  Username <- User
  Uuid <- AUuid
  Now <- ATime
  OwnTrId <- AnId
  Garbage = {0, 165}
  Texts <- LongTexts
  Payloads <- SomePayloads
  EventNames <- SomeNames
  Requests <- SomeRequests
INVARIANTS
  AttributesAreFound
CHECK_DEADLOCK FALSE
