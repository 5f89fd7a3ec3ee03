SPECIFICATION Spec
CONSTANTS
  Ducks = {d1, d2}
  None = None
  Scripts <- PlainScripts
  Lead = 2
  OnTime = 0
  MaxLate = 3
  CallTime = 1
  Duration = 4
  Events = {1, 3}
  SeekTo = {2}
  MaxTime = 7
SYMMETRY Symmetry
CHECK_DEADLOCK FALSE
INVARIANTS
  TypeOK
  CastTogether
  PauseHolds
  EventsOnceUnpaused
  MasterInStepUnpaused
