SPECIFICATION Spec
CONSTANTS
  a = a
  b = b
  Code <- Codes
  Persona <- Codes
  Seeds <- AllSeeds
  Request = {r1, r2}
  Cap = 2
  Attempts = 2
  MaxVersions = 2
  None = None
SYMMETRY Symmetry
PROPERTIES RegisteredIsStored
