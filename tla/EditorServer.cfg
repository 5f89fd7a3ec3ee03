SPECIFICATION EditorSpec
CONSTANTS
  h1 = h1
  h2 = h2
  Handlers <- TwoHandlers
  Docs <- TwoDocs
  Existing <- Shows
  Texts <- TwoTexts
  Jobs = {"x", "y"}
  MaxFaults = 1
INVARIANTS
  EditorTypeOK
  SavesHold
  DoneIsBaked
PROPERTIES
  JobEndsOnce
  EveryJobEnds
CHECK_DEADLOCK FALSE
