SPECIFICATION Spec
CONSTANTS
  MaxJobs = 2
  Tasks = {t1, t2, t3}
  Concurrency = 2
  MaxAttempts = 3
  Lease = 2
  InitialBackoff = 2
  MaxBackoff = 3
  OverdueCap = 1
  MaxFaults = 2
  MaxReopens = 1
  HandlersFitLease = TRUE
  t1 = t1
  t2 = t2
  t3 = t3
SYMMETRY TaskSymmetry
INVARIANTS
  TypeOK
  PermitsConserved
  LeaseIffClaimed
  TasksOwnTheirRows
  AttemptsAccounted
PROPERTIES
  FinishedStaysFinished
  ImplementsLedger
