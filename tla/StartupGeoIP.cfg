\* The container of the Dockerfile, stopped once, on an empty volume.
SPECIFICATION Spec
CONSTANTS
  Unset = Unset
  Undecodable = Undecodable
  NoConfig = NoConfig
  NoFile = NoFile
  ParseDuration <- MCParseDuration
  Lower <- MCLower
  Abs <- MCAbs
  Environment <- OnlyDocker
  Contents <- NoContents
  Databases <- NoDatabase
  Dated <- MCDated
  Root = "/app"
  Volume = {"/data"}
  MaxStops = 1
CHECK_DEADLOCK FALSE
INVARIANT OnlyRequiredIsFatal
