SPECIFICATION FairSpec
CONSTANTS
  LastJob = 3
  Threads = {1, 2}
  Quick = {2}
  MaxTracked = 2
  Local = {1}
  External = {2, 3}
  Workers = 1
  Keep = 2
  LastDay = 2
  Stored <- McStored
INVARIANTS TypeOK OncePerCheck StagesApart DoneMeansComplete
PROPERTIES Registry ReportFiled ImplementsLog JobEnds
CHECK_DEADLOCK FALSE
