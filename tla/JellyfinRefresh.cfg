SPECIFICATION FairSpec
CONSTANTS
  Jobs = {j1, j2, j3}
  Capacity = 1
  Window = 2
  MaxFaults = 2
INVARIANTS
  NoSignalLost
  UpToDateWhenQuiet
PROPERTIES
  RequestsAreSpaced
  EveryCallIsServed
CHECK_DEADLOCK FALSE
