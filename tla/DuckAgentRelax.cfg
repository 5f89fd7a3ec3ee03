SPECIFICATION Spec
CONSTANTS
  Cmds <- TorqueCmds
  PanicThreads = {}
  Puppet = FALSE
PROPERTIES
  TorqueKept
