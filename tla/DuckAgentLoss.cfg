SPECIFICATION Spec
CONSTANTS
  Cmds <- FewCmds
  PanicThreads = {}
  Puppet = FALSE
INVARIANT LossFaults
