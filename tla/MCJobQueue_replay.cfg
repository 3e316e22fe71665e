SPECIFICATION Spec
CONSTANTS
  MaxJobs = 2
  Tasks = {t1, t2, t3}
  Concurrency = 2
  MaxAttempts = 2
  Lease = 1
  InitialBackoff = 1
  MaxBackoff = 2
  OverdueCap = 1
  MaxFaults = 0
  MaxReopens = 0
  HandlersFitLease = FALSE
  t1 = t1
  t2 = t2
  t3 = t3
SYMMETRY TaskSymmetry
PROPERTIES
  CompletedNeverReplayed
