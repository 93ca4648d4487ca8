SPECIFICATION FairSpec
CONSTANTS
  Task = {t1, t2}
  Worker = {w1}
  Client = {c1}
  Free = Free
  Orphan = Orphan
  NoTask = NoTask
  MaxModelCalls = 1
  MaxAttempts = 1
  MaxAutoRequeues = 1
  LeaseMayLapse = FALSE
  FaultsOccur = TRUE
  MaxFailures = 1
  MaxRetryOps = 0
  MaxCancelOps = 0
PROPERTIES ImplementsLifecycle RunningResolves
