\* Three calls and two ports, so that one is used again next to another; a game
\* server, and hosts that send other things or nothing.
SPECIFICATION Spec
CONSTANTS
  Call = {c1, c2, c3}
  game = game
  service = service
  mimic = mimic
  silent = silent
  Host <- MCHost
  Game = {game}
  Sends <- MCSends
  LocalPort = {p1, p2}
  MaxId = 3
  None = None
INVARIANTS
  OnlyGamesAreUp
  NobodyElseIsDismissed
PROPERTY EveryPingEnds
CHECK_DEADLOCK FALSE
