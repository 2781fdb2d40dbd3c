SPECIFICATION Spec
CONSTANTS
  MAX_IP = 3
  Switches = {1, 2}
  Left <- ChainLeft
  Right <- ChainRight
  MaxStarts = 1
  RelaysPerRead = 2
  NSwitches = 2
  ControllerStops = FALSE
  Ranges <- OwnRange
  Traffic <- FirstToSecond
  MaxLines = 2
  ExitingSwitches = {}
PROPERTIES
  EachRelayHandled
