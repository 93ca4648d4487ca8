SPECIFICATION Spec
CONSTANTS
  Session = {s1}
  Sub = {a1}
  Parent <- OneSession
  Request = {r1, r2}
  Reaper = {}
  None = None
  Outcome = {"completed", "failed"}
  MaxDetours = 0
PROPERTY EndStateIsFinal
