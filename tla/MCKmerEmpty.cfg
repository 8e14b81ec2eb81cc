CONSTANTS
  Inputs <- Empty
  ChunkSizes = {1, 4}
  KWrap = 128
SPECIFICATION FairSpec
PROPERTY SearchEnds
CHECK_DEADLOCK FALSE
