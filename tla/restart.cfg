SPECIFICATION Spec
CONSTANTS
  MAX_IP = 3
  Switches = {1, 2}
  Left <- ChainLeft
  Right <- ChainRight
  MaxStarts = 2
  RelaysPerRead = 1
  NSwitches = 2
  ControllerStops = TRUE
  Ranges <- MovingRange
  Traffic <- OtherTraffic
  MaxLines = 1
  ExitingSwitches = {1, 2}
CHECK_DEADLOCK FALSE
PROPERTIES
  ContractKept
INVARIANTS
  QueryFromRegistered
  
  
