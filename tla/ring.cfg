SPECIFICATION Spec
CONSTANTS
  MAX_IP = 4
  Switches = {1, 2, 3, 4}
  Left <- RingLeft
  Right <- RingRight
  MaxStarts = 2
  RelaysPerRead = 2
  NSwitches = 3
  ControllerStops = FALSE
  Ranges <- OwnRange
  Traffic <- ThirdToNobody
  MaxLines = 1
  ExitingSwitches = {1, 2}
CHECK_DEADLOCK FALSE
INVARIANTS
  ClientsConsistent
