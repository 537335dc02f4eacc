\* Odd fields in pairs and in every order, every address, every requester,
\* every kind of body.
SPECIFICATION Spec
CONSTANTS
  Field = {"port", "clients", "lag", "proto_min", "proto_max", "clients_list",
           "gameid", "creative", "url", "address"}
  Families <- AllFamilies
  Arrival <- MCArrival
  ByteOrder <- MCByteOrder
  ParseFloat <- MCParseFloat
  Atoi <- MCAtoi
  NaN = NaN
  NoNumber = NoNumber
  Yes = {"1"}
  Bad = {"x y"}
  Strip <- MCStrip
  Lower <- MCLower
  Http = {"http://a"}
  NameOf <- MCNameOf
  Denotes <- MCDenotes
  TrimMapped <- MCTrimMapped
  HostOf <- MCHostOf
  NoHost = NoHost
  TrimBrackets <- MCTrimBrackets
  Literal <- MCLiteral
CHECK_DEADLOCK FALSE
INVARIANTS
  RequesterIsKnown
  BansHold
  AssertionsHold
  OrderDoesNotMatter
  AcceptedIsNormal
  CountersAreNatural
  AcceptedIsPlain
