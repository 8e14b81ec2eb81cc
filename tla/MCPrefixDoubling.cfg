CONSTANTS
  Sigma = 2
  MaxLen = 6
  Texts <- MCTexts
  ChunkSizes = {1, 2, 3, 4, 7}
  KmerLengths = {1, 2, 3}
SPECIFICATION FairSpec
INVARIANTS
  TypeOK
  RanksArePrefixRanks
  DroppedAreUnique
  FinishedAreUnique
  FinalRanksAreSuffixRanks
PROPERTIES
  OrderNeverInverted
  LoopEnds
CHECK_DEADLOCK FALSE
