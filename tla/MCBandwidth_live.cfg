CONSTANTS
  Jobs = {j1}
  Sessions = {s1, s2}
  Requests = {r1}
  None = None
  ServerToken = ServerToken
SPECIFICATION FairSpec
PROPERTIES JobLockFreed SessionAutoStops
