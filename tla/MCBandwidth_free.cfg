CONSTANTS
  Jobs = {j1, j2}
  Sessions = {s1}
  Requests = {r1}
  None = None
  ServerToken = ServerToken
SPECIFICATION Spec
INVARIANT ServerStopFrees
