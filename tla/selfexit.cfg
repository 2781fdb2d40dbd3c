SPECIFICATION Spec
CONSTANTS
  MAX_IP = 3
  Switches = {1, 2, 3}
  Left <- ChainLeft
  Right <- ChainRight
  MaxStarts = 1
  RelaysPerRead = 2
  NSwitches = 3
  ControllerStops = FALSE
  Ranges <- OwnRange
  Traffic <- EndsTraffic
  MaxLines = 1
  ExitingSwitches = {}
CHECK_DEADLOCK FALSE
INVARIANTS
  SwitchesSurvive
