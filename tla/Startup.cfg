\* Every environment, config file and set of databases, with two stops.
SPECIFICATION FairSpec
CONSTANTS
  Unset = Unset
  Undecodable = Undecodable
  NoConfig = NoConfig
  NoFile = NoFile
  ParseDuration <- MCParseDuration
  Lower <- MCLower
  Abs <- MCAbs
  Environment <- MCEnvironment
  Contents <- MCContents
  Databases <- MCDatabases
  Dated <- MCDated
  Root = "/app"
  Volume = {"/data"}
  MaxStops = 2
INVARIANTS
  RequiredMeansOpen
  DataDirIsPrepared
  HalfCopiedConfigIsHarmless
PROPERTIES
  WholeStaysWhole
  ComesUp
CHECK_DEADLOCK FALSE
