\* Three cells on two worker processes, any of which may die.
CONSTANTS
  NumCells = 3
  MaxWorkers = 2
  Normalized = {1, 2}
  MayHang = {}
SPECIFICATION FairSpec
INVARIANTS
  NoFalseSuccess
PROPERTIES
  ImplementsBatchRun
  RunEnds
