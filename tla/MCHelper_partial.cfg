SPECIFICATION Spec
CONSTANTS
  Ifaces = {eth0, eth1}
  Contents = {c1, c2}
  Absent = Absent
  Torn = Torn
  None = None
  Actions = {"snap-restore"}
  Window = 2
  MaxClock = 1
  MaxCrashes = 0
  Prompt = TRUE
SYMMETRY Symmetry
INVARIANT FailureLeavesFiles
CHECK_DEADLOCK FALSE
