SPECIFICATION Spec
CONSTANTS
  Config <- MCConfig
  Language <- MCLanguage
  PrimaryLanguage = "fr"
  Names <- MCNames
  Episode <- MCEpisode
  Marker <- MCMarker
  Audio <- MCAudio
  Concurrency = 2
  UpgradeDeletes = TRUE
  Redownloads = FALSE
  SeriesDeletes = FALSE
  MaxJobs = 2
  MaxOutages = 0
  MaxCrashes = 0
INVARIANTS
  OneLinkPerEpisode
CHECK_DEADLOCK FALSE
