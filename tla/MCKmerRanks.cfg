CONSTANTS
  Inputs <- MCInputs
  ChunkSizes = {1, 2, 3, 4, 9, 16, 27}
  KWrap = 128
SPECIFICATION Spec
INVARIANTS
  TypeOK
  KeyInHistogram
  RanksWritten
  ChunksCutAlike
CHECK_DEADLOCK FALSE
