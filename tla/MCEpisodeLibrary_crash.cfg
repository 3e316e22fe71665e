SPECIFICATION Spec
CONSTANTS
  Config <- MCConfig
  Language <- MCLanguage
  PrimaryLanguage = "fr"
  Names <- MCNames
  Episode <- MCEpisode
  Marker <- MCMarker
  Audio <- MCAudio
  Concurrency = 1
  UpgradeDeletes = TRUE
  Redownloads = FALSE
  SeriesDeletes = FALSE
  MaxJobs = 4
  MaxOutages = 1
  MaxCrashes = 2
INVARIANTS
  OwnFileShown
  NoDanglingLink
CHECK_DEADLOCK FALSE
