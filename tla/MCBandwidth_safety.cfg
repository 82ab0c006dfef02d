CONSTANTS
  Jobs = {j1, j2}
  Sessions = {s1}
  Requests = {r1, r2}
  None = None
  ServerToken = ServerToken
SPECIFICATION Spec
SYMMETRY Symmetry
INVARIANTS TypeOK SingleActiveOwnTokens
