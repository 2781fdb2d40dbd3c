SPECIFICATION Spec
CONSTANTS
  Neighbours <- Both
  File <- DelayThenRight
  Relayed <- FromBothSides
  MaxIdle = 1
  MaxRelays = 2
  PipeCapacity = 1
  MaxDescriptors = 2
  NeighboursEnd = TRUE
  MessageUnits = 2
  BufferUnits = 3
INVARIANTS
  TypeOK
  PollErrnoExplained
  DiscardNeedsTwoRelays
  OpenedByPackets
  DelayRespected
PROPERTIES
  StaleErrnoFromLeft
  ReadsWholeFile
CHECK_DEADLOCK FALSE
