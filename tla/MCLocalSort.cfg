CONSTANTS
  Short = {1, 2, 3, 4, 5, 6, 7, 8}
  Long = {6, 10}
  Texts <- MCTexts
  ChunkSizes = {1, 2, 3, 4, 5, 10}
SPECIFICATION MCSpec
INVARIANTS
  TypeOK
  BitsCompareSuffixes
  HandsOver
CHECK_DEADLOCK FALSE
