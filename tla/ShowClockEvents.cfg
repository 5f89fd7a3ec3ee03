SPECIFICATION Spec
CONSTANTS
  Ducks = {d1, d2}
  None = None
  Scripts <- HeldScripts
  Lead = 2
  OnTime = 0
  MaxLate = 3
  CallTime = 1
  Duration = 4
  Events = {1, 3}
  SeekTo = {2}
  MaxTime = 8
SYMMETRY Symmetry
CHECK_DEADLOCK FALSE
INVARIANT EventsOnce
