SPECIFICATION ServicesSpec
CONSTANTS
  Threads = {t1, t2}
  Entries = {e1, e2, e3}
  Keep = 2
  Inodes = {i1, i2, i3}
  None = None
  Torn = Torn
  Keys = {admin, guest}
  Tokens = {s1, s2}
  Clients = {c1}
  Nobody = Nobody
  MaxFailures = 2
  Lockout = 2
  Rate = 2
  Window = 2
  Lifetime = 2
  MaxTime = 3
INVARIANTS ServicesTypeOK  NeverTorn GuessesBounded RateKept SessionsAsGranted
PROPERTY ImplementsFileLog
SYMMETRY Symmetry
