\* The same with a cell that may hang: the 300 s limit does not end the run.
CONSTANTS
  NumCells = 3
  MaxWorkers = 2
  Normalized = {}
  MayHang = {2}
SPECIFICATION FairSpec
PROPERTY HungCellGivenUp
