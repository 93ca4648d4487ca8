SPECIFICATION Spec
CONSTANTS
  Session = {s1}
  Sub = {a1}
  Parent <- OneSession
  Request = {r1, r2}
  Reaper = {p1}
  None = None
  Outcome = {"completed"}
  MaxDetours = 1
INVARIANTS TypeOK Agreement
PROPERTIES ClosedForGood LossIsTrue EndClosesAll TransactionsEnd SilentIsReaped
