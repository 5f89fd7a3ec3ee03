SPECIFICATION Spec
CONSTANTS
  Fresh = 2
  SeqReset = 3
  Channels = {"move"}
  Carries <- StickAndButton
  QueueMax = 1
  Life = 0
  RestartGap = 4
  MaxSeq = 2
  MaxRuns = 2
  MaxSent = 2
  MaxOrders = 3
  MaxMutes = 1
  MaxNet = 2
  MaxInbox = 1
INVARIANTS
  PuppetTypeOK
  MuteHolds
PROPERTIES
  ActionsOnce
  NoActionAcrossMute
  RestartHeard
