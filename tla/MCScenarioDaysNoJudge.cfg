\* An async day without an answer evaluator.
CONSTANTS
  MaxAge = 8
  Lambda = 288
  Exp <- MCExp
  Ids = {"a", "b"}
  LastDay = 4
  Settings <- MCSettings
  Importances = {10, 20, 45, 100}
  EventPlans <- MCEventPlans
  QueryPlans <- MCQueryPlans
  NumQueries = 3
  EventIds = {"a", "b"}
  NumScenarios = 1
  Thresholds = {15}
  Stores = {"s"}
  Setups <- MCNoJudge
SPECIFICATION ScaleSpec
INVARIANT EveryHitCounted
