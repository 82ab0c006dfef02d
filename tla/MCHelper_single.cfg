SPECIFICATION Spec
CONSTANTS
  Ifaces = {eth0, eth1}
  Contents = {c1, c2}
  Absent = Absent
  Torn = Torn
  None = None
  Actions = {"net-apply", "dns-set"}
  Window = 1
  MaxClock = 1
  MaxCrashes = 1
  Prompt = TRUE
SYMMETRY Symmetry
INVARIANTS TypeOK FailureLeavesFiles OkMeansApplied
PROPERTY ImplementsNetConfig
CHECK_DEADLOCK FALSE
