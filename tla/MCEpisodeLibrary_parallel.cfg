SPECIFICATION FairSpec
CONSTANTS
  Config <- MCConfig
  Language <- MCLanguage
  PrimaryLanguage = "fr"
  Names <- MCNames
  Episode <- MCEpisode
  Marker <- MCMarker
  Audio <- MCSeasonAudio
  Concurrency = 2
  UpgradeDeletes = TRUE
  Redownloads = FALSE
  SeriesDeletes = FALSE
  MaxJobs = 3
  MaxOutages = 1
  MaxCrashes = 0
INVARIANTS
  TypeOK
PROPERTIES
  EveryJobSettles
CHECK_DEADLOCK FALSE
