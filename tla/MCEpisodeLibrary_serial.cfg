SPECIFICATION Spec
CONSTANTS
  Config <- MCConfig
  Language <- MCLanguage
  PrimaryLanguage = "fr"
  Names <- MCNames
  Episode <- MCEpisode
  Marker <- MCMarker
  Audio <- MCAudio
  Concurrency = 1
  UpgradeDeletes = TRUE
  Redownloads = TRUE
  SeriesDeletes = TRUE
  MaxJobs = 5
  MaxOutages = 1
  MaxCrashes = 0
INVARIANTS
  OneLinkPerEpisode
  OwnFileShown
  NoDanglingLink
  LanguagesFit
  OrderDoesNotMatter
PROPERTIES
  GivesUpOnlyWithoutFile
CHECK_DEADLOCK FALSE
