---------------------------- MODULE MCServerList ----------------------------
(***************************************************************************)
(* A small instance of ServerList: three objects for two keys, two of them *)
(* competing for one key, with different ages and client counts.           *)
(***************************************************************************)
EXTENDS ServerListImplements

CONSTANTS i1, i2, r1, r2, name

MCObject(id, ip, clients, time) ==
  TrackUpdate(ServerFromRequest(id, ip, 30000, name, 0, clients),
              NoServer, FALSE, time)

MCSubmitted == {MCObject(r1, i1, 2, 0), MCObject(r2, i1, 1, 1),
                MCObject(r1, i2, 1, 1)}
MCCutoffs == {1, 2}
MCFold == [a \in {name} |-> a]
=============================================================================
