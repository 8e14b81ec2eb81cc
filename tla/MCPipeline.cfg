CONSTANTS
  Lengths = {1, 2, 3, 4}
  Texts <- MCTexts
  ChunkSizes = {2, 3}
  MaxFaults = 2
SPECIFICATION PFairSpec
INVARIANTS
  PTypeOK
  ExitCodeIsTrue
PROPERTY
  Exits
CHECK_DEADLOCK FALSE
