SPECIFICATION Spec
CONSTANTS
  MAX_IP = 2
  Switches = {1, 2, 3, 4}
INVARIANTS
  AnswerIsNearest
  AnswerResolves
  HopsAgree
  SearchEnds
