CONSTANTS
  COUNT_ESCAPE = 255
  ChunkSizes = {1, 2, 3, 4, 5, 6, 7, 8, 9, 10}
  LeastCapacity = 0
SPECIFICATION Spec
INVARIANT RoomForPair
CHECK_DEADLOCK FALSE
