CONSTANTS
  COUNT_ESCAPE = 3
  ChunkSizes = {1, 2, 3, 4, 5, 6, 7, 8, 9, 10}
  LeastCapacity = 2
SPECIFICATION Spec
INVARIANTS
  TypeOK
  RoomForPair
  AllRunsWritten
CHECK_DEADLOCK FALSE
