SPECIFICATION Spec
CONSTANTS
  Code = {p, q}
  Mission = {m}
  Request = {r1, r2}
  MaxActive = 1
  MaxCalls = 2
  None = None
  Absent = Absent
INVARIANTS TypeOK ActiveWithinCap AuditMatchesRows ReferencedIsListed
PROPERTIES RequestsEnd RefusalEnds
