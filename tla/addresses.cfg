SPECIFICATION Spec
CONSTANTS
  Switches = {1, 2, 3}
  MAX_IP = 2
  INT_MAX = 5
  PORT_MAX = 3
  Registry <- Chain
  Files <- AllFiles
INVARIANTS
  TypeOK
  DeliveredAsWritten
  OthersSendNumbers
  EndsOfNegative
CHECK_DEADLOCK FALSE
