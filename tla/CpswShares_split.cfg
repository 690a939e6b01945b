SPECIFICATION Spec
CONSTANTS
  N = 1
  MaxQueues = 2
  Pool = 12
  Rates = {10}
  Granted <- RatesGranted
  LinkSpeeds = {10, 1000}
  Rings = {6, 4}
  Faults = TRUE
INVARIANTS
  PoolShared
  ShapersMatch
  BudgetsAddUp
