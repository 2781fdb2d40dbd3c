SPECIFICATION Spec
CONSTANTS
  MAX_IP = 3
  Switches = {1, 2, 3}
  Left <- ChainLeft
  Right <- ChainRight
  MaxStarts = 1
  RelaysPerRead = 1
  NSwitches = 3
  ControllerStops = FALSE
  Ranges <- OwnRange
  Traffic <- LineTraffic
  MaxLines = 1
  ExitingSwitches = {}
CHECK_DEADLOCK FALSE
INVARIANTS
  TypeOK
  UnsolvedUnmatched
  OwnTrafficStays
  ForwardPortExists
  NoDuplicateRules
  AnswersBounded
  ListingAddsUp
  NoBounce
