SPECIFICATION FairSpec
CONSTANTS
  Task = {t1}
  Worker = {w1}
  Client = {c1}
  Free = Free
  Orphan = Orphan
  NoTask = NoTask
  MaxModelCalls = 3
  MaxAttempts = 2
  MaxAutoRequeues = 1
  LeaseMayLapse = FALSE
  FaultsOccur = FALSE
  MaxFailures = 1
  MaxRetryOps = 0
  MaxCancelOps = 0
PROPERTY QueuedIsTakenUp
