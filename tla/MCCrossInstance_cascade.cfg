SPECIFICATION FairSpec
CONSTANTS
  Config <- MCConfig
  Language <- MCLanguage
  SourceLanguage = "fr"
  Unusable <- MCUnusable
  Silent <- MCSilent
  Propagate = TRUE
  Audio <- MCAudio
  Concurrency = 1
  MaxTries = 2
  MaxJobs = 3
  MaxFaults = 2
  MaxMeddling = 1
INVARIANTS
  TypeOK
  NoOrphanRequest
  EverySiblingAsked
  NothingRedundant
PROPERTIES
  SeenFilesSurvive
  EveryCascadeSettles
CHECK_DEADLOCK FALSE
