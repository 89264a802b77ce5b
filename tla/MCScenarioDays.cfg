\* Two scenarios: every formula, two thresholds, events on one or two days.
\* A day of three queries: both paths, with and without an answer evaluator.
CONSTANTS
  MaxAge = 8
  Lambda = 288
  Exp <- MCExp
  Ids = {"a", "b"}
  LastDay = 4
  Settings <- MCSettings
  Importances = {10, 20, 45, 100}
  EventPlans <- MCEventPlans
  QueryPlans <- MCQueryPlans
  NumQueries = 3
  EventIds = {"a", "b"}
  NumScenarios = 2
  Thresholds = {15, 40}
  Stores = {"s", "t"}
  Setups <- MCAllSetups
SPECIFICATION ScaleSpec
INVARIANTS
  DebounceMissesNoPrune
  ScenariosApart
  QueriesInOrder
PROPERTY StoresFailAlone
