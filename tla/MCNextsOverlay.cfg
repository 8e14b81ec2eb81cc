CONSTANTS
  MaxRecords = 5
  Records <- MCRecords
  Files <- MCFiles
  Capacities = {1, 2, 3, 4}
  Outputs <- MCOutputs
  MaxWrites = 6
SPECIFICATION Spec
INVARIANTS
  TypeOK
  ReadsTheFile
  DrainedAtEnd
  OutputInOrder
CHECK_DEADLOCK FALSE
