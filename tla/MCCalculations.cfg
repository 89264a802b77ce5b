\* Every expansion of a study or a matrix over small lists of arguments, and
\* every decay formula over nine days.
CONSTANTS
  MemLists <- MCMemLists
  ModelLists <- MCModelLists
  RerankerLists <- MCRerankerLists
  BestStrategies <- MCBestStrategies
  StrategyLists <- MCStrategyLists
  PolicyLists <- MCPolicyLists
  LambdaLists <- MCLambdaLists
  MaxAge = 8
  Lambda = 693
  Exp <- MCExp
  Settings <- MCSettings
SPECIFICATION CalculationSpec
INVARIANTS
  LostOnlyByRounding
  WorkersRunTheirCells
  RerankerIsolated
  MatrixIsFullGrid
  DecayWithinBounds
