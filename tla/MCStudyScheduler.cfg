\* Two successive runs of one scheduler: five cells, then two direct cells, none of
\* which hangs.
CONSTANTS
  NumCells = 5
  StrategyOf <- MCStrategyOf
  NumRuns = 2
  Batch <- MCBatch
  MaxWorkers = 2
  MayHang = {}
SPECIFICATION FairSpec
INVARIANTS
  DeviceExclusive
  ResultsMatchWork
  CheckpointRecoverable
  NoOrphanWorkers
PROPERTIES
  ImplementsBatchRun
  RunEnds
