SPECIFICATION Spec
CONSTANTS
  MAX_IP = 3
  Switches = {1, 2}
  Left <- ChainLeft
  Right <- ChainRight
  MaxStarts = 1
  RelaysPerRead = 2
  NSwitches = 2
  ControllerStops = FALSE
  Ranges <- OwnRange
  Traffic <- OtherTraffic
  MaxLines = 1
  ExitingSwitches = {2}
CHECK_DEADLOCK FALSE
INVARIANTS
  ControllerSurvives
