CONSTANTS
  Sigma = 2
  Lengths = {1, 2, 3, 4, 5, 6}
  Inputs <- MCInputs
  ChunkSizes = {1, 2, 3, 4, 7}
  MaxIteration = 2
  CurCapacities = {1, 2, 3}
  COUNT_ESCAPE = 2
SPECIFICATION Spec
INVARIANTS
  TypeOK
  NeverFails
  HeapIsSound
  WrittenIsResolved
  DoneIsComplete
PROPERTIES
  PopsInOrder
