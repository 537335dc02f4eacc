\* A whole number may come as a string, and then need not be whole.
SPECIFICATION Spec
CONSTANTS
  Field = {"port", "clients", "lag", "proto_min", "proto_max", "clients_list",
           "gameid", "creative", "url", "address"}
  Families <- FieldFamily
  Arrival <- MCArrival
  ByteOrder <- MCByteOrder
  ParseFloat <- MCParseFloat
  Atoi <- MCAtoi
  NaN = NaN
  NoNumber = NoNumber
  Yes = {"1"}
  Bad = {"x y"}
  Strip <- MCStrip
  Lower <- MCLower
  Http = {"http://a"}
  NameOf <- MCNameOf
  Denotes <- MCDenotes
  TrimMapped <- MCTrimMapped
  HostOf <- MCHostOf
  NoHost = NoHost
  TrimBrackets <- MCTrimBrackets
  Literal <- MCLiteral
CHECK_DEADLOCK FALSE
INVARIANT IntegersAreWhole
