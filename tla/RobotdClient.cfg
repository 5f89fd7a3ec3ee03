SPECIFICATION RobotdSpec
CONSTANTS
  stopper = stopper
  Callers <- OneCaller
  Ids = {1, 2, 3}
  Buffer = 2
  MaxFaults = 2
INVARIANTS
  RobotdTypeOK
  NobodyStranded
  NothingKept
PROPERTIES
  AnswersAreTrue
  RequestsReturn
  Reconnects
CHECK_DEADLOCK FALSE
