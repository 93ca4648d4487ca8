SPECIFICATION Spec
CONSTANTS
  Worker = {w1, w2}
  TTL = 20
  Refresh = 5
  Timeout = 2
  StartDelay = 1
  Sweep = 10
  Poll = 5
  Pause = 1
  None = None
  Orphan = Orphan
SYMMETRY Symmetry
INVARIANTS
  TypeOK
  OutlivesBriefly
  RecoveredInTime
