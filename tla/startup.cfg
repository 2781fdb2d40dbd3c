SPECIFICATION Spec
CONSTANTS
  Switches = {1, 2}
  MAX_IP = 2
  INT_MAX = 8
  PORT_MAX = 3
  SwitchArgs <- Lines
  ContArgs <- Server
  LookupErrno = {0, 2, 22}
  Leftover <- Earlier
INVARIANTS
  TypeOK
  ReadersBeforeOpen
  ErrnoEndsExplained
CHECK_DEADLOCK FALSE
