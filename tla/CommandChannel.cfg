SPECIFICATION Spec
CONSTANTS
  d1 = d1
  d2 = d2
  Ducks <- Pair
  Cast <- Pair
  Kinds = {"play", "pause", "panic"}
  Tries = 2
  Remembers = 1
  MaxCalls = 2
  MaxRestarts = 1
INVARIANTS
  CommandTypeOK
  ShowIsOn
PROPERTIES
  InOrder
  EveryCallReturns
  PromiseSpec
CHECK_DEADLOCK FALSE
