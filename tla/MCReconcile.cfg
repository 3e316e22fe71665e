SPECIFICATION WalkSpec
CONSTANTS
  Config <- MCConfig
  Language <- MCLanguage
  PrimaryLanguage = "fr"
  Names <- MCNames
  Episode <- MCEpisode
  Marker <- MCMarker
  Audio <- MCAudio
  Concurrency = 1
  UpgradeDeletes = TRUE
  Redownloads = FALSE
  SeriesDeletes = FALSE
  MaxJobs = 2
  MaxOutages = 0
  MaxCrashes = 0
  MaxWalks = 2
  MaxLosses = 1
INVARIANTS
  WalkRebuilds
  WalkAddsNoDuplicate
PROPERTIES
  WalkKeepsHealthy
CHECK_DEADLOCK FALSE
