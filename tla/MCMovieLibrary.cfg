SPECIFICATION Spec
CONSTANTS
  Config <- MCConfig
  Language <- MCLanguage
  PrimaryLanguage = "fr"
  Hardlinks = {"de"}
  Releases <- MCReleases
  Holder <- MCHolder
  FileName <- MCFileName
  Audio <- MCAudio
  MaxJobs = 4
  MaxOutages = 1
  MaxCrashes = 1
INVARIANTS
  NoDanglingEntry
  LanguagesFit
  OwnMovieShown
CHECK_DEADLOCK FALSE
