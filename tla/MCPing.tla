------------------------------- MODULE MCPing -------------------------------
(***************************************************************************)
(* A game server, and three other hosts: one sends what fails one test     *)
(* each, or the hello it was sent; one sends something that cannot be told *)
(* from a game server's answer, with an id of its own; one is silent.      *)
(***************************************************************************)
EXTENDS Ping

CONSTANTS game, service, mimic, silent

MCHost == {game, service, mimic, silent}

Answer == Bytes("other", TRUE, TRUE, ServerId, SetPeerCode, 2)

MCSends ==
  [h \in {service, mimic, silent} |->
     CASE h = service -> {HelloBytes,
                          [Answer EXCEPT !.long = FALSE],
                          [Answer EXCEPT !.protocol = FALSE],
                          [Answer EXCEPT !.sender = 2],
                          [Answer EXCEPT !.code = PingCode]}
       [] h = mimic  -> {Answer}
       [] h = silent -> {}]
=============================================================================
