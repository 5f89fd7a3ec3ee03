SPECIFICATION Spec
CONSTANTS
  Cmds <- MotionCmds
  PanicThreads = {"panic1"}
  Puppet = TRUE
INVARIANTS
  TypeOK
  StopCovered
  NotArmedWithoutRobotd
  PerformanceClean
  MutedSilent
PROPERTIES
  ProtocolSpec
