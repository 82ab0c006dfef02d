SPECIFICATION FairSpec
CONSTANTS
  Ifaces = {eth0, eth1}
  Contents = {c1, c2}
  Absent = Absent
  Torn = Torn
  None = None
  Actions = {"snap-restore", "net-reload", "argv"}
  Window = 2
  MaxClock = 1
  MaxCrashes = 1
  Prompt = TRUE
INVARIANT Recoverable
PROPERTY Answered
CHECK_DEADLOCK FALSE
