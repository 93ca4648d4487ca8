SPECIFICATION Spec
CONSTANTS
  Task = {t1}
  Worker = {w1, w2}
  Client = {c1, c2}
  Free = Free
  Orphan = Orphan
  NoTask = NoTask
  MaxModelCalls = 2
  MaxAttempts = 2
  MaxAutoRequeues = 1
  LeaseMayLapse = FALSE
  FaultsOccur = TRUE
  MaxFailures = 1
  MaxRetryOps = 1
  MaxCancelOps = 1
SYMMETRY Interchangeable
INVARIANT TypeOK
INVARIANT MutualExclusion
INVARIANT ChargedBeforeSent
INVARIANT CallCeiling
INVARIANT CompletedHasOutput
INVARIANT OutputIsLatestAnswer
PROPERTY AnsweredNeverAsksAgain
