CONSTANTS
  NumDatasets = 3
  MaxWorkers = 2
  MaxRuns = 2
  Plans <- MCPlans
  Label <- MCLabel
  Setups <- MCSetups
  BroadWeights <- MCBroadWeights
  FineOffsets <- MCFineOffsets
  NumPolicies = 4
  Patiences = {0, 1, 2}
  Sources <- MCSources
  MaxStarts = 3
  NumStudies = 2
  StudyGrids <- MCStudyGrids
  CountName <- MCCountName
  StemName <- MCStemName
  DisplayOrder <- MCDisplayOrder
  MaxGrids = 2
  MaxPlots = 2
SPECIFICATION DriverSpec
\* Commands, studies and preparations end.
CHECK_DEADLOCK FALSE
INVARIANT BoardWhole
