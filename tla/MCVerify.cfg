CONSTANTS
  MaxLength = 3
  MaxRanks = 4
  Texts <- MCTexts
  ChunkSizes = {1, 2, 3}
  RankFiles <- MCRankFiles
  SAFiles <- MCSAFiles
SPECIFICATION Spec
INVARIANTS
  TypeOK
  AcceptsOnlySuffixArrays
  AcceptsRightFiles
CHECK_DEADLOCK FALSE
