SPECIFICATION FairSpec
CONSTANTS
  Langs = {"fr", "en"}
  Names = {n1, n2}
  Clients = {"c1", "c2"}
  n1 = n1
  n2 = n2
  MaxWorkers = 1
  HasFfprobe = TRUE
  MaxEdits = 6
  MaxJobs = 1
  MaxCrashes = 2
INVARIANTS
  SnapshotIsWhole
  UnknownOnlyIfDeleted
PROPERTIES
  SetupLostOnlyByDelete
  JobsWaitOnlyForConfig
CHECK_DEADLOCK FALSE
