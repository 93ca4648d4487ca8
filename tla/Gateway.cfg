CONSTANTS
  Worker = {w1, w2}
  Task = {t1}
  Provider = {p1}
  WorstCase = {2}
  Excess = 1
  MaxCost = 5
  MaxCalls = 5
  MaxRetries = 2
  MaxRuntime = 2
  MaxAttempts = 3
  Threshold = 2
  Cooldown = 2
  None = None
SPECIFICATION Spec
INVARIANTS CostCeiling NeverUndercounts RetryCeiling NotHammered TypeOK
PROPERTY CallEnds
