SPECIFICATION Spec
CONSTANTS
  Ifaces = {eth0, eth1}
  Contents = {c1, c2}
  Absent = Absent
  Torn = Torn
  None = None
  Actions = {"snap-restore"}
  Window = 1
  MaxClock = 0
  MaxCrashes = 0
  Prompt = TRUE
SYMMETRY Symmetry
INVARIANT Restored
CHECK_DEADLOCK FALSE
