CONSTANTS
  Sigma = 2
  Lengths = {1, 2, 3, 4, 5}
  Texts <- MCTexts
  ChunkSizes = {1, 2, 3, 4}
SPECIFICATION FairSpec
INVARIANTS
  TypeOK
  NeverFails
  CurrentsFollowRanks
  TriplesInOrder
  WindowCoversLive
PROPERTIES
  ImplementsDoubling
  Terminates
CHECK_DEADLOCK FALSE
