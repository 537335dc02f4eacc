---------------------------- MODULE ServerRecord ----------------------------
(***************************************************************************)
(* The Server object of src/model.go and its two JSON forms (src/list.go): *)
(* what an announcement carries, how it inherits from the listed object it *)
(* replaces, when it counts as a duplicate, and how it is stored.          *)
(*                                                                         *)
(* Of the metadata map the model keeps the entries the program computes    *)
(* with: uptime, clients and clients_top.  `id' is the object's identity   *)
(* (the Go pointer): the request that allocated it, or FromDisk.           *)
(***************************************************************************)
EXTENDS Integers, FiniteSets

CONSTANTS
  IP,        \* requester addresses
  Port,
  Address,   \* announced addresses: host names and IP literals
  Fold,      \* an address in the form strings.EqualFold compares
  Request,   \* identities of announce requests
  FromDisk,  \* identity of an object rebuilt from store.json
  NoServer   \* Go's nil *Server

Meta == [uptime : Nat, clients : Nat, clients_top : Nat]

Server == [id : Request \cup {FromDisk}, ip : IP, port : Port,
           address : Address, meta : Meta, startTime : Nat,
           updateCount : Nat, updateTime : Nat, totalClients : Nat,
           verifyLevel : 0..3]

ASSUME FoldAssumption == Fold \in [Address -> Address]
ASSUME NoServerAssumption == NoServer \notin Server

-----------------------------------------------------------------------------
\* (ip, port) is the primary key of the list.
Key(s) == <<s.ip, s.port>>

\* (fault) complaints are kept by endpoint
ErrorPKByHost(s) == <<CHOOSE i \in IP : TRUE, s.port, s.address>>

\* The error tracker's key adds the announced address.
ErrorPK(s) == <<s.ip, s.port, s.address>>

\* A fresh object: every counter is Go's zero value.
ServerFromRequest(id, ip, port, address, uptime, clients) ==
  [id |-> id, ip |-> ip, port |-> port, address |-> address,
   meta |-> [uptime |-> uptime, clients |-> clients, clients_top |-> 0],
   startTime |-> 0, updateCount |-> 0, updateTime |-> 0,
   totalClients |-> 0, verifyLevel |-> 0]

\* (fault) the top is the last count
TrackUpdateForgetsTop(s, old, isUpdate, time) ==
  LET fresh   == old = NoServer
      clients == s.meta.clients
  IN  [s EXCEPT
        !.startTime    = IF fresh THEN time ELSE old.startTime,
        !.updateTime   = time,
        !.updateCount  = IF fresh THEN 1 ELSE old.updateCount + 1,
        !.totalClients = IF fresh THEN clients ELSE old.totalClients + clients,
        !.meta.uptime  = IF isUpdate THEN @ ELSE 0,
        !.meta.clients_top = clients]

\* What the object takes over from the listed one it was announced against.
\* An update keeps the announced uptime, a start resets it.
TrackUpdate(s, old, isUpdate, time) ==
  LET fresh   == old = NoServer
      clients == s.meta.clients
      top     == IF ~fresh /\ old.meta.clients_top > clients
                 THEN old.meta.clients_top ELSE clients
  IN  [s EXCEPT
        !.startTime    = IF fresh THEN time ELSE old.startTime,
        !.updateTime   = time,
        !.updateCount  = IF fresh THEN 1 ELSE old.updateCount + 1,
        !.totalClients = IF fresh THEN clients ELSE old.totalClients + clients,
        !.meta.uptime  = IF isUpdate THEN @ ELSE 0,
        !.meta.clients_top = top]

\* s is a less trusted claimant of other's endpoint.
IsDuplicate(s, other) ==
  /\ s.port = other.port
  /\ Fold[s.address] = Fold[other.address]
  /\ s.ip # other.ip
  /\ s.verifyLevel < other.verifyLevel

\* math.Round of a quotient of naturals.
AverageClients(s) ==
  IF s.updateCount = 0 THEN 0
  ELSE (2 * s.totalClients + s.updateCount) \div (2 * s.updateCount)

-----------------------------------------------------------------------------
StoredServer ==
  IP \X Port \X Address \X Meta \X
  [startTime : Nat, updateCount : Nat, updateTime : Nat, totalClients : Nat,
   verifyLevel : 0..3]

PublicServer == [address : Address, port : Port, meta : Meta, pop_v : Nat]

\* The five-element array a server is in store.json, and the object that
\* reading it back allocates.
ToStorage(s) ==
  <<s.ip, s.port, s.address, s.meta,
    [startTime |-> s.startTime, updateCount |-> s.updateCount,
     updateTime |-> s.updateTime, totalClients |-> s.totalClients,
     verifyLevel |-> s.verifyLevel]>>

FromStorage(t) ==
  [id |-> FromDisk, ip |-> t[1], port |-> t[2], address |-> t[3],
   meta |-> t[4], startTime |-> t[5].startTime,
   updateCount |-> t[5].updateCount, updateTime |-> t[5].updateTime,
   totalClients |-> t[5].totalClients, verifyLevel |-> t[5].verifyLevel]

\* What a reader of list.json sees of a server: the IP stays private.
ToListJSON(s) ==
  [address |-> s.address, port |-> s.port, meta |-> s.meta,
   pop_v |-> AverageClients(s)]
=============================================================================
