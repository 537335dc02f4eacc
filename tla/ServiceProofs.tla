--------------------------- MODULE ServiceProofs ----------------------------
(***************************************************************************)
(* Theorems about the running program: it drives its list only through the *)
(* list's own operations, so that what is proved of ServerList holds of    *)
(* the program; and what it adds of its own.                               *)
(***************************************************************************)
EXTENDS Service, TLAPS

\* What stands for the absence of an entry in the table the list implements:
\* any value that is not an entry.
NoEntry == CHOOSE x : x \notin SL!StoredServer

LP == INSTANCE ServerListImplementsProofs WITH
  Submitted <- Server, Cutoffs <- Int, None <- NoEntry
TP == INSTANCE ErrorTrackerProofs WITH table <- errors

-----------------------------------------------------------------------------
\* The instances of the record module are one.
LEMMA SameRecord == LP!Server = Server /\ SL!Server = Server
BY DEF LP!Server, SL!Server, Server, LP!Meta, SL!Meta, Meta

LEMMA ListAssumptions ==
  /\ LP!FoldAssumption /\ LP!NoServerAssumption
  /\ LP!SubmittedAssumption /\ LP!NoFileAssumption /\ LP!NoneAssumption
<1>1. LP!FoldAssumption
  BY FoldAssumption DEF LP!FoldAssumption
<1>2. LP!NoServerAssumption
  BY NoServerAssumption, SameRecord DEF LP!NoServerAssumption
<1>3. LP!SubmittedAssumption
  BY SameRecord DEF LP!SubmittedAssumption
<1>4. LP!NoFileAssumption
  BY PartsAssumption
     DEF SL!NoFileAssumption, LP!NoFileAssumption, SL!StoreFile, LP!StoreFile,
         SL!PublicFile, LP!PublicFile, SL!StoredServer, LP!StoredServer,
         SL!PublicServer, LP!PublicServer, SL!Meta, LP!Meta
<1>5. LP!NoneAssumption
  <2>1. \E x : x \notin SL!StoredServer
    BY NoSetContainsEverything
  <2>2. LP!StoredServer = SL!StoredServer
    BY DEF SL!StoredServer, LP!StoredServer, SL!Meta, LP!Meta
  <2>3. NoEntry \notin SL!StoredServer
    BY <2>1, Zenon DEF NoEntry
  <2> QED BY <2>2, <2>3 DEF LP!NoneAssumption
<1> QED BY <1>1, <1>2, <1>3, <1>4, <1>5

LEMMA TrackerAssumption == TP!ErrorAssumption
BY PartsAssumption DEF ET!ErrorAssumption, TP!ErrorAssumption

\* The operations, as the program and as the proofs name them.
LEMMA SameUpdate == ASSUME NEW s, SL!Update(s) PROVE LP!Update(s)
BY DEF SL!Update, LP!Update, SL!Unlocked, LP!Unlocked, SL!Matching, LP!Matching

LEMMA SameRemove == ASSUME NEW s, SL!Remove(s) PROVE LP!Remove(s)
BY DEF SL!Remove, LP!Remove, SL!Unlocked, LP!Unlocked

LEMMA SamePurgeOld == ASSUME NEW c, SL!PurgeOld(c) PROVE LP!PurgeOld(c)
BY DEF SL!PurgeOld, LP!PurgeOld, SL!Unlocked, LP!Unlocked

LEMMA SameSaveStorage == SL!SaveStorage => LP!SaveStorage
BY DEF SL!SaveStorage, LP!SaveStorage, SL!Stored, LP!Stored, SL!ToStorage,
       LP!ToStorage, SL!memory, LP!memory

LEMMA SameSaveStorageFails == SL!SaveStorageFails => LP!SaveStorageFails
BY DEF SL!SaveStorageFails, LP!SaveStorageFails, SL!Abort, LP!Abort,
       SL!FreshMemory, LP!FreshMemory, SL!memory, LP!memory

LEMMA SameCardinality == \A S : SL!Cardinality(S) = LP!Cardinality(S)
BY Zenon DEF SL!Cardinality, LP!Cardinality

LEMMA SameClients == \A L : SL!Clients(L) = LP!Clients(L)
<1>1. \A L : SL!ClientsOf(L) = LP!ClientsOf(L)
  BY Zenon DEF SL!ClientsOf, LP!ClientsOf
<1> QED BY <1>1, SameCardinality DEF SL!Clients, LP!Clients

LEMMA SameRaisePeaks == SL!RaisePeaks <=> LP!RaisePeaks
BY SameClients, SameCardinality DEF SL!RaisePeaks, LP!RaisePeaks, SL!Larger, LP!Larger

LEMMA SameShown == \A L : SL!Shown(L) = LP!Shown(L)
BY DEF SL!Shown, LP!Shown, SL!ToListJSON, LP!ToListJSON, SL!AverageClients,
       LP!AverageClients

LEMMA SameSavePublic == SL!SavePublic => LP!SavePublic
<1>1. SL!WritePublic <=> LP!WritePublic
  BY SameShown, SameClients, SameCardinality DEF SL!WritePublic, LP!WritePublic
<1> QED BY <1>1, SameRaisePeaks
        DEF SL!SavePublic, LP!SavePublic, SL!PublicNeeded, LP!PublicNeeded

LEMMA SameSavePublicFails == SL!SavePublicFails => LP!SavePublicFails
BY SameRaisePeaks
   DEF SL!SavePublicFails, LP!SavePublicFails, SL!PublicNeeded,
       LP!PublicNeeded, SL!FreshMemory, LP!FreshMemory

LEMMA SameLoad == SL!Load => LP!Load
BY DEF SL!Load, LP!Load, SL!memory, LP!memory, SL!FromStorage, LP!FromStorage

LEMMA SameCrash == SL!Crash => LP!Crash
BY DEF SL!Crash, LP!Crash, SL!FreshMemory, LP!FreshMemory

-----------------------------------------------------------------------------
\* What every step needs to know: the list's own invariant, and that the
\* locals of the requests are what announce and finishRequest take them for.
TypeInv == LP!TypeInv /\ ET!TypeOK /\ TimerOK /\ RequestsOK

LEMMA ListIsOfServers == TypeInv => list \in SUBSET Server
BY SameRecord DEF TypeInv, LP!TypeInv, LP!TypeOK

LEMMA VerifiedIsServer ==
  ASSUME RequestsOK, NEW r \in Request, pc[r] \in Verifying
  PROVE  server[r] \in Server /\ ErrorPK(server[r]) \in ErrorKey
<1>1. server[r] \in Server
  BY DEF RequestsOK
<1> QED BY <1>1 DEF ErrorPK, ErrorKey, Server

\* A request in hand is not nil.
LEMMA AnnouncementIsNotNil == \A a \in Announcement : a # NoServer
BY ServiceAssumption

\* Every step of the program is a step of its list or leaves the list alone.
LEMMA ListStep == TypeInv /\ [Next]_vars => [LP!Next]_(LP!vars)
<1> SUFFICES ASSUME TypeInv, [Next]_vars PROVE [LP!Next]_(LP!vars)
  OBVIOUS
<1>1. ASSUME UNCHANGED SLvars PROVE UNCHANGED LP!vars
  BY <1>1 DEF SLvars, LP!vars, LP!memory
<1>2. ASSUME NEW r \in Request, Handler(r) PROVE [LP!Next]_(LP!vars)
  <2>1. CASE Receive(r)
    BY <1>1, <2>1 DEF Receive
  <2>2. CASE DeleteMissing(r)
    BY <1>1, <2>2 DEF DeleteMissing
  <2>3. CASE DeleteListed(r)
    <3>1. old[r] \in Server /\ LP!Remove(old[r])
      BY <2>3, SameRemove DEF DeleteListed, TypeInv, RequestsOK
    <3> QED BY <3>1 DEF LP!Next
  <2>4. CASE Refuse(r)
    BY <1>1, <2>4 DEF Refuse
  <2>5. CASE File(r)
    BY <1>1, <2>5 DEF File
  <2> QED BY <1>2, <2>1, <2>2, <2>3, <2>4, <2>5 DEF Handler
<1>3. ASSUME NEW r \in Request, Verification(r) PROVE [LP!Next]_(LP!vars)
  <2>1. CASE Enlist(r)
    <3>1. pc[r] \in Verifying
      BY <2>1 DEF Enlist, Verifying
    <3>2. server[r] \in Server /\ LP!Update(server[r])
      BY <2>1, <3>1, SameUpdate, VerifiedIsServer DEF Enlist, TypeInv
    <3> QED BY <3>2 DEF LP!Next
  <2>2. CASE Forget(r)
    BY <1>1, <2>2 DEF Forget
  <2>3. CASE Resolve(r)
    BY <1>1, <2>3 DEF Resolve
  <2>4. CASE ResolveFails(r)
    BY <1>1, <2>4 DEF ResolveFails
  <2>5. CASE Check(r)
    BY <1>1, <2>5 DEF Check
  <2>6. CASE PingFails(r)
    BY <1>1, <2>6 DEF PingFails
  <2>7. CASE Fail(r)
    BY <1>1, <2>7 DEF Fail
  <2> QED BY <1>3, <2>1, <2>2, <2>3, <2>4, <2>5, <2>6, <2>7 DEF Verification
<1>4. CASE Timer
  <2>1. CASE Purge
    <3>1. now - PurgeTime \in Int
      BY ServiceAssumption DEF TypeInv, ET!TypeOK
    <3> QED BY <2>1, <3>1, SamePurgeOld DEF Purge, LP!Next
  <2>2. CASE Sweep
    BY <1>1, <2>2 DEF Sweep
  <2>3. CASE Save
    BY <2>3, SameSaveStorage DEF Save, LP!Next
  <2>4. CASE Publish
    BY <2>4, SameSavePublic DEF Publish, LP!Next
  <2>5. CASE SaveFails
    BY <2>5, SameSaveStorageFails, SameSavePublicFails DEF SaveFails, LP!Next
  <2> QED BY <1>4, <2>1, <2>2, <2>3, <2>4, <2>5 DEF Timer
<1>5. CASE Boot
  BY <1>5, SameLoad DEF Boot, LP!Next
<1>6. CASE Crash
  BY <1>6, SameCrash DEF Crash, LP!Next
<1>7. CASE Tick
  BY <1>1, <1>7 DEF Tick
<1>8. CASE UNCHANGED vars
  BY <1>1, <1>8 DEF vars
<1> QED BY <1>2, <1>3, <1>4, <1>5, <1>6, <1>7, <1>8 DEF Next

-----------------------------------------------------------------------------
\* A crash loses the tracker's map.
Forgotten == errors' = [k \in ErrorKey |-> NoError] /\ UNCHANGED now

\* Whatever the program does to the tracker is one of its operations, with a
\* key that ErrorPK can return, unless it crashes.
LEMMA TrackerStep ==
  TypeInv /\ [Next]_vars => [TP!Next]_(TP!vars) \/ Forgotten
<1> DEFINE Goal == [TP!Next]_(TP!vars) \/ Forgotten
<1> SUFFICES ASSUME TypeInv, [Next]_vars PROVE Goal
  OBVIOUS
<1>a. ASSUME UNCHANGED ETvars PROVE Goal
  BY <1>a DEF ETvars, TP!vars
<1>1. ASSUME NEW r \in Request, Handler(r) PROVE Goal
  BY <1>1, <1>a DEF Handler, Receive, DeleteMissing, DeleteListed, Refuse, File
<1>2. ASSUME NEW r \in Request, Verification(r) PROVE Goal
  <2>1. CASE Forget(r) \/ Resolve(r) \/ Fail(r)
    <3>1. pc[r] \in Verifying
      BY <2>1 DEF Forget, Resolve, Fail, Verifying
    <3>2. ErrorPK(server[r]) \in ErrorKey
      BY <3>1, VerifiedIsServer DEF TypeInv
    <3>3. "warning" \in ErrorInfo /\ "error" \in ErrorInfo
      BY DEF ErrorInfo
    <3>4. \/ TP!Remove(ErrorPK(server[r]))
          \/ \E info \in ErrorInfo : TP!Put(ErrorPK(server[r]), info)
          \/ UNCHANGED ETvars
      BY <2>1, <3>3
         DEF Forget, Resolve, Fail, ET!Put, ET!Remove, TP!Put, TP!Remove
    <3> QED BY <1>a, <3>2, <3>4 DEF TP!Next
  <2>2. CASE ResolveFails(r) \/ Check(r) \/ Enlist(r) \/ PingFails(r)
    BY <2>2, <1>a DEF ResolveFails, Check, Enlist, PingFails
  <2> QED BY <1>2, <2>1, <2>2 DEF Verification
<1>3. CASE Timer
  <2>1. CASE Sweep
    BY <2>1 DEF Sweep, ET!Cleanup, ET!Expired, TP!Cleanup, TP!Expired, TP!Next
  <2>2. CASE Purge \/ Save \/ Publish \/ SaveFails
    BY <2>2, <1>a DEF Purge, Save, Publish, SaveFails
  <2> QED BY <1>3, <2>1, <2>2 DEF Timer
<1>4. CASE Boot
  BY <1>4, <1>a DEF Boot
<1>5. CASE Crash
  BY <1>5 DEF Crash, Forgotten
<1>6. CASE Tick
  BY <1>6 DEF Tick, ET!Tick, TP!Tick, TP!Next
<1>7. CASE UNCHANGED vars
  BY <1>7, <1>a DEF vars
<1> QED BY <1>1, <1>2, <1>3, <1>4, <1>5, <1>6, <1>7 DEF Next

LEMMA NextTracked == TypeInv /\ [Next]_vars => ET!TypeOK'
<1> SUFFICES ASSUME TypeInv, [Next]_vars PROVE ET!TypeOK'
  OBVIOUS
<1>1. TP!TypeOK
  BY DEF TypeInv, ET!TypeOK, ET!Entry, TP!TypeOK, TP!Entry
<1>2. CASE [TP!Next]_(TP!vars)
  BY <1>1, <1>2, TP!NextTracker, TrackerAssumption
     DEF ET!TypeOK, ET!Entry, TP!TypeOK, TP!Entry
<1>3. CASE Forgotten
  BY <1>3 DEF TypeInv, Forgotten, ET!TypeOK
<1> QED BY <1>2, <1>3, TrackerStep

\* Inheriting from the listed object gives a Server of the same identity.
LEMMA TrackUpdateType ==
  ASSUME NEW s \in Server, NEW o \in Server \cup {NoServer},
         NEW isUpdate \in BOOLEAN, NEW time \in Nat
  PROVE  LET u == TrackUpdate(s, o, isUpdate, time)
         IN  /\ u \in Server
             /\ u.id = s.id /\ u.ip = s.ip /\ u.port = s.port
             /\ u.address = s.address
<1> DEFINE fresh == o = NoServer
           clients == s.meta.clients
           top   == IF ~fresh /\ o.meta.clients_top > clients
                    THEN o.meta.clients_top ELSE clients
           start == IF fresh THEN time ELSE o.startTime
           count == IF fresh THEN 1 ELSE o.updateCount + 1
           total == IF fresh THEN clients ELSE o.totalClients + clients
           up    == IF isUpdate THEN s.meta.uptime ELSE 0
           u     == TrackUpdate(s, o, isUpdate, time)
<1>1. clients \in Nat /\ s.meta \in Meta
  BY DEF Server, Meta
<1>2. ~fresh => /\ o.startTime \in Nat /\ o.updateCount \in Nat
                /\ o.totalClients \in Nat /\ o.meta.clients_top \in Nat
  BY DEF Server, Meta
<1>3. /\ top \in Nat /\ start \in Nat /\ count \in Nat /\ total \in Nat
      /\ up \in Nat
  BY <1>1, <1>2 DEF Meta
<1> DEFINE v == [s EXCEPT !.startTime = start, !.updateTime = time,
                        !.updateCount = count, !.totalClients = total]
<1>4. u = [v EXCEPT !.meta.uptime = up, !.meta.clients_top = top]
  BY DEF TrackUpdate
<1> HIDE DEF u, top, start, count, total, up, fresh, clients
<1>5. /\ v \in Server
      /\ v.id = s.id /\ v.ip = s.ip /\ v.port = s.port /\ v.address = s.address
  BY <1>3 DEF Server
<1> HIDE DEF v
<1>6. v.meta \in Meta
  BY <1>5 DEF Server
<1>7. [v.meta EXCEPT !.uptime = up, !.clients_top = top] \in Meta
  BY <1>3, <1>6 DEF Meta
<1>8. u = [v EXCEPT !.meta = [v.meta EXCEPT !.uptime = up, !.clients_top = top]]
  BY <1>4, <1>5 DEF Server
<1>9. /\ u \in Server
      /\ u.id = v.id /\ u.ip = v.ip /\ u.port = v.port /\ u.address = v.address
  <2> DEFINE m == [v.meta EXCEPT !.uptime = up, !.clients_top = top]
  <2>1. m \in Meta /\ u = [v EXCEPT !.meta = m]
    BY <1>7, <1>8
  <2> HIDE DEF m
  <2> QED BY <1>5, <2>1 DEF Server
<1> QED BY <1>5, <1>9 DEF u

\* What a request announces is a Server of its own key and address.
LEMMA AnnouncedType ==
  ASSUME TypeInv, NEW r \in Request, pc[r] = "read"
  PROVE  /\ Announced(r) \in Server
         /\ Announced(r).id = r /\ Key(Announced(r)) = Key(req[r])
         /\ Announced(r).address = req[r].address
         /\ ErrorPK(Announced(r)) \in ErrorKey
<1> DEFINE n == ServerFromRequest(r, req[r].ip, req[r].port, req[r].address,
                                  req[r].uptime, req[r].clients)
<1>1. req[r] \in Announcement /\ old[r] \in Server \cup {NoServer}
  BY DEF TypeInv, RequestsOK
<1>2. /\ n \in Server /\ n.id = r /\ n.ip = req[r].ip /\ n.port = req[r].port
      /\ n.address = req[r].address
  BY <1>1, ServiceAssumption DEF ServerFromRequest, Server, Meta
<1>3. IsUpdate(r) \in BOOLEAN
  BY DEF IsUpdate
<1>4. now \in Nat
  BY DEF TypeInv, ET!TypeOK
<1>5. Announced(r) = TrackUpdate(n, old[r], IsUpdate(r), now)
  BY DEF Announced
<1> HIDE DEF n
<1> HIDE DEF Announced, IsUpdate
<1>6. /\ Announced(r) \in Server
      /\ Announced(r).id = n.id /\ Announced(r).ip = n.ip
      /\ Announced(r).port = n.port /\ Announced(r).address = n.address
  <2> DEFINE T(b) == TrackUpdate(n, old[r], b, now)
  <2>1. ASSUME NEW b \in BOOLEAN
        PROVE  /\ T(b) \in Server
               /\ T(b).id = n.id /\ T(b).ip = n.ip
               /\ T(b).port = n.port /\ T(b).address = n.address
    BY <1>1, <1>2, <1>4, TrackUpdateType
  <2> HIDE DEF T
  <2>2. Announced(r) = T(IsUpdate(r))
    BY <1>5 DEF T
  <2> QED BY <1>3, <2>1, <2>2
<1> QED BY <1>2, <1>6 DEF Key, ErrorPK, ErrorKey, Server

-----------------------------------------------------------------------------
\* Type correctness.
LEMMA InitList == Init => LP!Init
BY DEF Init, SL!Init, LP!Init

LEMMA InitService == Init => TypeInv
<1> SUFFICES ASSUME Init PROVE TypeInv
  OBVIOUS
<1>1. LP!TypeInv
  BY InitList, LP!InitTypeInv, ListAssumptions
<1>2. ET!TypeOK
  BY PartsAssumption DEF Init, ET!Init, ET!TypeOK, ET!ErrorAssumption, ET!Entry
<1>3. TimerOK
  BY ServiceAssumption DEF Init, TimerOK
<1>4. RequestsOK
  BY DEF Init, RequestsOK, PC, Reply, Verifying
<1> QED BY <1>1, <1>2, <1>3, <1>4 DEF TypeInv

\* A request that ends or moves on without touching its objects.
LEMMA MovesOn ==
  ASSUME RequestsOK, NEW r \in Request, NEW l \in PC, Goto(r, l),
         UNCHANGED <<req, old, server, reply>>,
         l = "read" => req[r] # NoServer,
         l \in Verifying => pc[r] \in Verifying
  PROVE  RequestsOK'
BY DEF RequestsOK, Goto

LEMMA Answered ==
  ASSUME RequestsOK, NEW r \in Request, NEW text \in Reply, Answer(r, text),
         UNCHANGED <<req, server>>
  PROVE  RequestsOK'
<1>1. "over" \in PC /\ "over" \notin Verifying
  BY DEF PC, Verifying
<1> QED BY <1>1 DEF RequestsOK, Answer, Goto, Drop

LEMMA VerificationEnds ==
  ASSUME RequestsOK, NEW r \in Request, Goto(r, "over"),
         server' = Drop(server, r), UNCHANGED <<req, old, reply>>
  PROVE  RequestsOK'
<1>1. "over" \in PC /\ "over" \notin Verifying
  BY DEF PC, Verifying
<1> QED BY <1>1 DEF RequestsOK, Goto, Drop

LEMMA NextRequests == TypeInv /\ [Next]_vars => RequestsOK'
<1> SUFFICES ASSUME TypeInv, [Next]_vars PROVE RequestsOK'
  OBVIOUS
<1>0. RequestsOK
  BY DEF TypeInv
<1>a. ASSUME UNCHANGED requestVars PROVE RequestsOK'
  BY <1>0, <1>a DEF RequestsOK, requestVars
<1>1. ASSUME NEW r \in Request, Handler(r) PROVE RequestsOK'
  <2>1. CASE Receive(r)
    <3>1. PICK a \in Announcement : \E o \in SL!Get(a.ip, a.port) :
                 /\ req' = [req EXCEPT ![r] = a]
                 /\ old' = [old EXCEPT ![r] = o]
      BY <2>1 DEF Receive
    <3>2. PICK o \in SL!Get(a.ip, a.port) :
                 /\ req' = [req EXCEPT ![r] = a]
                 /\ old' = [old EXCEPT ![r] = o]
      BY <3>1
    <3>3. o \in Server \cup {NoServer}
      BY <3>2, ListIsOfServers DEF SL!Get, SL!Matching
    <3>4. a # NoServer
      BY AnnouncementIsNotNil
    <3>5. /\ pc' = [pc EXCEPT ![r] = "read"] /\ UNCHANGED <<server, reply>>
          /\ "read" \in PC /\ "read" \notin Verifying
      BY <2>1 DEF Receive, Goto, PC, Verifying
    <3> QED BY <1>0, <3>2, <3>3, <3>4, <3>5 DEF RequestsOK
  <2>2. CASE DeleteMissing(r)
    <3>1. "to remove not found" \in Reply
      BY DEF Reply
    <3> QED BY <1>0, <2>2, <3>1, Answered DEF DeleteMissing
  <2>3. CASE DeleteListed(r)
    <3>1. "removed" \in Reply
      BY DEF Reply
    <3> QED BY <1>0, <2>3, <3>1, Answered DEF DeleteListed
  <2>4. CASE Refuse(r)
    <3>1. {"to update not found", "bad address", "non-monotonic uptime"}
            \subseteq Reply
      BY DEF Reply
    <3> QED BY <1>0, <2>4, <3>1, Answered DEF Refuse
  <2>5. CASE File(r)
    <3>1. pc[r] = "read"
      BY <2>5 DEF File
    <3>2. Announced(r) \in Server /\ Announced(r) # NoServer
          /\ Announced(r).id = r
      BY <3>1, AnnouncedType, NoServerAssumption
    <3>3. PICK text \in Reply : reply' = [reply EXCEPT ![r] = text]
      BY <2>5 DEF File, Reply
    <3>4. /\ server' = [server EXCEPT ![r] = Announced(r)]
          /\ old' = [old EXCEPT ![r] = NoServer]
          /\ pc' = [pc EXCEPT ![r] = "filed"] /\ UNCHANGED req
          /\ "filed" \in PC /\ "filed" # "read"
      BY <2>5 DEF File, Drop, Goto, PC
    <3> HIDE DEF Announced
    <3> QED BY <1>0, <3>2, <3>3, <3>4 DEF RequestsOK
  <2> QED BY <1>1, <2>1, <2>2, <2>3, <2>4, <2>5 DEF Handler
<1>2. ASSUME NEW r \in Request, Verification(r) PROVE RequestsOK'
  <2>p. {"resolve", "check", "ping", "failed"} \subseteq PC \cap Verifying
        /\ "read" \notin Verifying
    BY DEF PC, Verifying
  <2>1. CASE Forget(r)
    <3>1. pc[r] \in Verifying
      BY <2>1 DEF Forget, Verifying
    <3> QED BY <1>0, <2>1, <2>p, <3>1, MovesOn DEF Forget
  <2>2. CASE Resolve(r)
    <3>1. pc[r] \in Verifying /\ server[r] \in Server
      BY <1>0, <2>2, VerifiedIsServer DEF Resolve, Verifying
    <3>2. PICK level \in 1..3 : server' = [server EXCEPT ![r].verifyLevel = level]
      <4>1. \A s, ips : VerifyLevel(s, ips) \in 1..3
        BY DEF VerifyLevel
      <4>2. \E ips \in Answers :
              server' = [server EXCEPT ![r].verifyLevel = VerifyLevel(server[r], ips)]
        BY <2>2 DEF Resolve
      <4> QED BY <4>1, <4>2
    <3>3. [server[r] EXCEPT !.verifyLevel = level] \in Server
          /\ [server[r] EXCEPT !.verifyLevel = level].id = server[r].id
      BY <3>1 DEF Server
    <3>4. server' = [server EXCEPT ![r] = [server[r] EXCEPT !.verifyLevel = level]]
      BY <1>0, <3>2 DEF RequestsOK
    <3>5. /\ pc' = [pc EXCEPT ![r] = "check"] /\ UNCHANGED <<req, old, reply>>
      BY <2>2 DEF Resolve, Goto
    <3>6. [server[r] EXCEPT !.verifyLevel = level] # NoServer
      BY <3>3, NoServerAssumption
    <3> QED BY <1>0, <2>p, <3>1, <3>3, <3>4, <3>5, <3>6 DEF RequestsOK
  <2>3. CASE ResolveFails(r)
    <3>1. pc[r] \in Verifying
      BY <2>3 DEF ResolveFails, Verifying
    <3> QED BY <1>0, <2>3, <2>p, <3>1, MovesOn DEF ResolveFails
  <2>4. CASE Check(r)
    <3>1. pc[r] \in Verifying
      BY <2>4 DEF Check, Verifying
    <3>2. Goto(r, "failed") \/ Goto(r, "ping")
      BY <2>4 DEF Check
    <3> QED BY <1>0, <2>4, <2>p, <3>1, <3>2, MovesOn DEF Check
  <2>5. CASE Enlist(r)
    BY <1>0, <2>5, VerificationEnds DEF Enlist
  <2>6. CASE PingFails(r)
    <3>1. pc[r] \in Verifying
      BY <2>6 DEF PingFails, Verifying
    <3> QED BY <1>0, <2>6, <2>p, <3>1, MovesOn DEF PingFails
  <2>7. CASE Fail(r)
    BY <1>0, <2>7, VerificationEnds DEF Fail
  <2> QED BY <1>2, <2>1, <2>2, <2>3, <2>4, <2>5, <2>6, <2>7 DEF Verification
<1>3. CASE Timer
  BY <1>3, <1>a DEF Timer, Purge, Sweep, Save, Publish, SaveFails
<1>4. CASE Boot
  BY <1>4, <1>a DEF Boot
<1>5. CASE Crash
  <2>1. \A r \in Request : pc'[r] \in {"new", "over"}
    BY <1>5 DEF Crash
  <2>2. "new" \in PC /\ "over" \in PC
        /\ "new" \notin Verifying /\ "over" \notin Verifying
    BY DEF PC, Verifying
  <2> QED BY <1>0, <1>5, <2>1, <2>2 DEF Crash, RequestsOK
<1>6. CASE Tick
  BY <1>6, <1>a DEF Tick
<1>7. CASE UNCHANGED vars
  BY <1>7, <1>a DEF vars
<1> QED BY <1>1, <1>2, <1>3, <1>4, <1>5, <1>6, <1>7 DEF Next

LEMMA NextTimer == TypeInv /\ [Next]_vars => TimerOK'
<1> SUFFICES ASSUME TypeInv, [Next]_vars PROVE TimerOK'
  OBVIOUS
<1>0. TimerOK /\ now \in 0..MaxTime /\ MaxTime \in Nat /\ CleanupInterval \in Nat
  BY ServiceAssumption DEF TypeInv, ET!TypeOK
<1>a. ASSUME UNCHANGED timerVars PROVE TimerOK'
  BY <1>0, <1>a DEF TimerOK, timerVars
<1>1. ASSUME NEW r \in Request, Handler(r) PROVE TimerOK'
  BY <1>1, <1>a DEF Handler, Receive, DeleteMissing, DeleteListed, Refuse, File
<1>2. ASSUME NEW r \in Request, Verification(r) PROVE TimerOK'
  BY <1>2, <1>a DEF Verification, Forget, Resolve, ResolveFails, Check, Enlist,
                    PingFails, Fail
<1>3. CASE Timer
  BY <1>0, <1>3 DEF TimerOK, Timer, Purge, Sweep, Save, Publish, SaveFails
<1>4. CASE Boot
  BY <1>4, <1>a DEF Boot
<1>5. CASE Crash
  BY <1>0, <1>5 DEF Crash, TimerOK
<1>6. CASE Tick
  BY <1>6, <1>a DEF Tick
<1>7. CASE UNCHANGED vars
  BY <1>7, <1>a DEF vars
<1> QED BY <1>1, <1>2, <1>3, <1>4, <1>5, <1>6, <1>7 DEF Next

LEMMA NextService == TypeInv /\ [Next]_vars => TypeInv'
<1> SUFFICES ASSUME TypeInv, [Next]_vars PROVE TypeInv'
  OBVIOUS
<1>1. LP!TypeInv'
  BY ListStep, LP!NextTypeInv, ListAssumptions DEF TypeInv
<1> QED BY <1>1, NextTracked, NextTimer, NextRequests DEF TypeInv

LEMMA SameTypeOK == LP!TypeOK => SL!TypeOK
BY SameRecord
   DEF SL!TypeOK, LP!TypeOK, SL!StoreFile, LP!StoreFile, SL!PublicFile,
       LP!PublicFile, SL!StoredServer, LP!StoredServer, SL!PublicServer,
       LP!PublicServer, SL!Meta, LP!Meta, SL!IsFiniteSet, LP!IsFiniteSet

\* Every variable of the program keeps its type, and each verification works
\* on an object of its own: no two requests ever share one.
THEOREM ServiceTypeCorrect == Spec => []TypeOK
<1>1. TypeInv => TypeOK
  BY SameTypeOK DEF TypeInv, LP!TypeInv, TypeOK
<1> QED BY <1>1, InitService, NextService, PTL DEF Spec

\* The program is a run of ServerList: with any number of handlers and
\* verifications in flight it only drives the list through its operations.
THEOREM ProgramDrivesServerList == Spec => LP!Spec
<1>1. Init => LP!Init
  BY InitList
<1>2. TypeInv /\ [Next]_vars => [LP!Next]_(LP!vars)
  BY ListStep
<1> QED BY <1>1, <1>2, InitService, NextService, PTL DEF Spec, LP!Spec

\* So the list keeps its promises in the program too: one entry per key, a
\* clean flag only when both files are up to date, nothing published that is
\* not stored, and no peak that falls from one list.json to the next.
THEOREM ProgramKeepsListPromises ==
  Spec => /\ []LP!UniqueKey /\ []LP!CleanMeansSaved /\ LP!PublishOnlyStored
          /\ LP!PeakServersNeverFall /\ LP!PeakClientsNeverFall
BY ProgramDrivesServerList, ListAssumptions, LP!PrimaryKey, LP!CleanIsSaved,
   LP!PublishedIsStored, LP!ServersPeakIsKept, LP!ClientsPeakIsKept, PTL

\* And the whole program implements the abstract table: whatever handlers,
\* verifications, the timer and crashes do, an announcement touches one key,
\* a restart restores the last checkpoint and /list shows only a checkpoint.
THEOREM ProgramImplementsTable == Spec => LP!ImplementsTable
BY ProgramDrivesServerList, ListAssumptions, LP!ListImplementsTable, PTL

\* The same for the error tracker: the program only drives it through its
\* operations, except that a crash forgets every complaint.
THEOREM ProgramDrivesTracker ==
  Spec => TP!Init /\ [][TP!Next \/ Forgotten]_(TP!vars)
<1>1. Init => TP!Init
  BY DEF Init, ET!Init, TP!Init
<1>2. TypeInv /\ [Next]_vars => [TP!Next \/ Forgotten]_(TP!vars)
  BY TrackerStep
<1> QED BY <1>1, <1>2, InitService, NextService, PTL DEF Spec

AllLost == TP!Visible' = [k \in ErrorKey |-> NoError] /\ UNCHANGED now

\* So what clients can be told of is a board of complaints: one that was posted
\* stands for Validity unless it is cleared, replaced or lost in a crash.
THEOREM ProgramImplementsBoard ==
  Spec => TP!Board!Init /\ [][TP!Board!Next \/ AllLost]_(TP!Board!vars)
<1>1. Init => TP!Board!Init
  BY TrackerAssumption, TP!TrackerInit DEF Init, ET!Init, TP!Init
<1>2. TypeInv /\ TypeInv' /\ [Next]_vars => [TP!Board!Next \/ AllLost]_(TP!Board!vars)
  <2> SUFFICES ASSUME TypeInv, TypeInv', [Next]_vars
               PROVE  [TP!Board!Next \/ AllLost]_(TP!Board!vars)
    OBVIOUS
  <2>1. TP!TypeOK /\ TP!TypeOK'
    BY DEF TypeInv, ET!TypeOK, ET!Entry, TP!TypeOK, TP!Entry
  <2>2. CASE Forgotten
    BY <2>2 DEF Forgotten, AllLost, TP!Visible, TP!Get
  <2>3. CASE [TP!Next]_(TP!vars)
    BY <2>1, <2>3, TP!TrackerStep, TrackerAssumption
  <2> QED BY <2>2, <2>3, TrackerStep
<1> QED BY <1>1, <1>2, InitService, NextService, PTL DEF Spec

-----------------------------------------------------------------------------
\* What verification guarantees.  A listed object is the object of some
\* verification, or was read back from store.json, which was written from the
\* list: the invariant follows an object along that way.  An update's address
\* is only compared with that of the object it read, so the invariant also
\* has to hold of the objects read, which may have left the list since.
Checked(s) == s.address \in ValidAddress /\ s.verifyLevel \in 1..3

CheckedList == \A s \in list : Checked(s)

CheckedStore == store # NoFile => \A t \in store.list : Checked(SL!FromStorage(t))

CheckedRequests ==
  \A r \in Request :
    /\ pc[r] = "read" /\ old[r] # NoServer => old[r].address \in ValidAddress
    /\ pc[r] \in Verifying => server[r].address \in ValidAddress
    /\ pc[r] \in {"check", "ping"} => server[r].verifyLevel \in 1..3

CheckedInv == TypeInv /\ CheckedList /\ CheckedStore /\ CheckedRequests

LEMMA InitChecked == Init => CheckedInv
<1> SUFFICES ASSUME Init PROVE CheckedInv
  OBVIOUS
<1>1. "new" \notin Verifying
  BY DEF Verifying
<1> QED BY <1>1, InitService DEF Init, SL!Init, CheckedInv, CheckedList,
        CheckedStore, CheckedRequests

\* The list and the store change in these ways only.
LEMMA ListChanges ==
  TypeInv /\ [Next]_vars =>
    \/ list' \subseteq list /\ store' = store
    \/ \E r \in Request : pc[r] = "ping" /\ list' \subseteq list \cup {server[r]}
                          /\ store' = store
    \/ list' = list /\ store'.list = {SL!ToStorage(s) : s \in list}
    \/ /\ store # NoFile /\ list' = {SL!FromStorage(t) : t \in store.list}
       /\ store' = store
<1> SUFFICES ASSUME TypeInv, [Next]_vars
             PROVE  \/ list' \subseteq list /\ store' = store
                    \/ \E r \in Request :
                         /\ pc[r] = "ping" /\ list' \subseteq list \cup {server[r]}
                         /\ store' = store
                    \/ list' = list /\ store'.list = {SL!ToStorage(s) : s \in list}
                    \/ /\ store # NoFile
                       /\ list' = {SL!FromStorage(t) : t \in store.list}
                       /\ store' = store
  OBVIOUS
<1>a. ASSUME UNCHANGED SLvars PROVE list' \subseteq list /\ store' = store
  BY <1>a DEF SLvars
<1>1. ASSUME NEW r \in Request, Handler(r)
      PROVE  list' \subseteq list /\ store' = store
  <2>1. CASE DeleteListed(r)
    BY <2>1 DEF DeleteListed, SL!Remove
  <2> QED BY <1>1, <1>a, <2>1 DEF Handler, Receive, DeleteMissing, Refuse, File
<1>2. ASSUME NEW r \in Request, Verification(r)
      PROVE  \/ list' \subseteq list /\ store' = store
             \/ /\ pc[r] = "ping" /\ list' \subseteq list \cup {server[r]}
                /\ store' = store
  <2>1. CASE Enlist(r)
    BY <2>1 DEF Enlist, SL!Update
  <2> QED BY <1>2, <1>a, <2>1
          DEF Verification, Forget, Resolve, ResolveFails, Check, PingFails, Fail
<1>3. CASE Purge
  BY <1>3 DEF Purge, SL!PurgeOld
<1>4. CASE Sweep
  BY <1>4, <1>a DEF Sweep
<1>5. CASE Save
  <2>1. CASE modified
    BY <1>5, <2>1 DEF Save, SL!SaveStorage, SL!Stored, SL!memory
  <2>2. CASE ~modified
    BY <1>5, <2>2 DEF Save, SL!SaveStorage, SL!memory
  <2> QED BY <2>1, <2>2
<1>6. CASE Publish
  BY <1>6 DEF Publish, SL!SavePublic
<1>7. CASE SaveFails
  BY <1>7 DEF SaveFails, SL!SaveStorageFails, SL!SavePublicFails, SL!Abort,
              SL!FreshMemory, SL!memory
<1>8. CASE Boot
  BY <1>8 DEF Boot, SL!Load, SL!memory
<1>9. CASE Crash
  BY <1>9 DEF Crash, SL!Crash, SL!FreshMemory
<1>10. CASE Tick
  BY <1>10, <1>a DEF Tick
<1>11. CASE UNCHANGED vars
  BY <1>11, <1>a DEF vars
<1> QED BY <1>1, <1>2, <1>3, <1>4, <1>5, <1>6, <1>7, <1>8, <1>9, <1>10, <1>11
        DEF Next, Timer

LEMMA NextCheckedList ==
  CheckedInv /\ [Next]_vars => CheckedList' /\ CheckedStore'
<1> SUFFICES ASSUME CheckedInv, [Next]_vars PROVE CheckedList' /\ CheckedStore'
  OBVIOUS
<1> USE DEF CheckedInv, CheckedList, CheckedStore
<1>1. CASE list' \subseteq list /\ store' = store
  BY <1>1
<1>2. CASE \E r \in Request : pc[r] = "ping" /\ list' \subseteq list \cup {server[r]}
                              /\ store' = store
  <2>1. PICK r \in Request : pc[r] = "ping" /\ list' \subseteq list \cup {server[r]}
                             /\ store' = store
    BY <1>2
  <2>2. Checked(server[r])
    BY <2>1 DEF CheckedRequests, Verifying, Checked
  <2> QED BY <2>1, <2>2
<1>3. CASE list' = list /\ store'.list = {SL!ToStorage(s) : s \in list}
  <2>1. \A s \in list : Checked(SL!FromStorage(SL!ToStorage(s)))
    BY DEF Checked, SL!FromStorage, SL!ToStorage
  <2> QED BY <1>3, <2>1
<1>4. CASE /\ store # NoFile /\ list' = {SL!FromStorage(t) : t \in store.list}
           /\ store' = store
  BY <1>4
<1> QED BY <1>1, <1>2, <1>3, <1>4, ListChanges

LEMMA NextCheckedRequests == CheckedInv /\ [Next]_vars => CheckedRequests'
<1> SUFFICES ASSUME CheckedInv, [Next]_vars PROVE CheckedRequests'
  OBVIOUS
<1>0. RequestsOK /\ CheckedRequests
  BY DEF CheckedInv, TypeInv
<1>p. /\ {"filed", "resolve", "check", "ping", "failed"} = Verifying
      /\ "over" \notin Verifying /\ "read" \notin Verifying /\ "new" \notin Verifying
  BY DEF Verifying
<1>a. ASSUME UNCHANGED requestVars PROVE CheckedRequests'
  BY <1>0, <1>a DEF CheckedRequests, requestVars
<1>b. ASSUME NEW r \in Request, pc' = [pc EXCEPT ![r] = "over"],
             old' = [old EXCEPT ![r] = NoServer] \/ UNCHANGED old,
             server' = [server EXCEPT ![r] = NoServer] \/ UNCHANGED server
      PROVE  CheckedRequests'
  BY <1>0, <1>p, <1>b DEF CheckedRequests, RequestsOK
<1>c. ASSUME NEW r \in Request, pc[r] \in Verifying, NEW l \in Verifying,
             pc' = [pc EXCEPT ![r] = l], UNCHANGED <<old, server>>,
             l \in {"check", "ping"} => server[r].verifyLevel \in 1..3
      PROVE  CheckedRequests'
  BY <1>0, <1>p, <1>c DEF CheckedRequests, RequestsOK
<1>1. ASSUME NEW r \in Request, Handler(r) PROVE CheckedRequests'
  <2>1. CASE Receive(r)
    <3>1. PICK o : /\ o = NoServer \/ o.address \in ValidAddress
                   /\ old' = [old EXCEPT ![r] = o]
      BY <2>1 DEF Receive, SL!Get, SL!Matching, CheckedInv, CheckedList, Checked
    <3>2. pc' = [pc EXCEPT ![r] = "read"] /\ UNCHANGED server
      BY <2>1 DEF Receive, Goto
    <3> QED BY <1>0, <1>p, <3>1, <3>2 DEF CheckedRequests, RequestsOK
  <2>2. CASE DeleteMissing(r)
    BY <2>2, <1>b DEF DeleteMissing, Answer, Goto, Drop
  <2>3. CASE DeleteListed(r)
    BY <2>3, <1>b DEF DeleteListed, Answer, Goto, Drop
  <2>4. CASE Refuse(r)
    BY <2>4, <1>b DEF Refuse, Answer, Goto, Drop
  <2>5. CASE File(r)
    <3>1. /\ pc[r] = "read" /\ ~UpdateNotFound(r) /\ ~BadAddress(r)
          /\ server' = [server EXCEPT ![r] = Announced(r)]
          /\ old' = [old EXCEPT ![r] = NoServer]
          /\ pc' = [pc EXCEPT ![r] = "filed"]
      BY <2>5 DEF File, Drop, Goto
    <3>2. Announced(r).address = req[r].address
      BY <3>1, AnnouncedType DEF CheckedInv
    <3>3. req[r].address \in ValidAddress
      BY <1>0, <3>1 DEF UpdateNotFound, BadAddress, CheckedRequests
    <3> HIDE DEF Announced
    <3> QED BY <1>0, <1>p, <3>1, <3>2, <3>3 DEF CheckedRequests, RequestsOK
  <2> QED BY <1>1, <2>1, <2>2, <2>3, <2>4, <2>5 DEF Handler
<1>2. ASSUME NEW r \in Request, Verification(r) PROVE CheckedRequests'
  <2>1. CASE Forget(r)
    BY <2>1, <1>p, <1>c DEF Forget, Goto
  <2>2. CASE Resolve(r)
    <3>1. pc[r] \in Verifying
      BY <2>2, <1>p DEF Resolve
    <3>2. server[r] \in Server /\ server[r].address \in ValidAddress
      BY <1>0, <3>1, VerifiedIsServer DEF CheckedRequests
    <3>3. \A s, ips : VerifyLevel(s, ips) \in 1..3
      BY DEF VerifyLevel
    <3>4. \E ips \in Answers :
            server' = [server EXCEPT ![r].verifyLevel = VerifyLevel(server[r], ips)]
      BY <2>2 DEF Resolve
    <3>5. PICK level \in 1..3 : server' = [server EXCEPT ![r].verifyLevel = level]
      BY <3>3, <3>4
    <3>6. /\ \A x \in Request \ {r} : server'[x] = server[x]
          /\ server'[r].address \in ValidAddress
          /\ server'[r].verifyLevel \in 1..3
      BY <1>0, <3>2, <3>5 DEF RequestsOK, Server
    <3>7. pc' = [pc EXCEPT ![r] = "check"] /\ UNCHANGED old
      BY <2>2 DEF Resolve, Goto
    <3> QED BY <1>0, <1>p, <3>6, <3>7 DEF CheckedRequests, RequestsOK
  <2>3. CASE ResolveFails(r)
    BY <2>3, <1>p, <1>c DEF ResolveFails, Goto
  <2>4. CASE Check(r)
    <3>1. server[r].verifyLevel \in 1..3
      BY <1>0, <2>4 DEF Check, CheckedRequests
    <3> QED BY <2>4, <3>1, <1>p, <1>c DEF Check, Goto
  <2>5. CASE Enlist(r)
    BY <2>5, <1>b DEF Enlist, Goto, Drop
  <2>6. CASE PingFails(r)
    BY <2>6, <1>p, <1>c DEF PingFails, Goto
  <2>7. CASE Fail(r)
    BY <2>7, <1>b DEF Fail, Goto, Drop
  <2> QED BY <1>2, <2>1, <2>2, <2>3, <2>4, <2>5, <2>6, <2>7 DEF Verification
<1>3. CASE Timer
  BY <1>3, <1>a DEF Timer, Purge, Sweep, Save, Publish, SaveFails
<1>4. CASE Boot
  BY <1>4, <1>a DEF Boot
<1>5. CASE Crash
  <2>1. \A r \in Request : pc'[r] \in {"new", "over"}
    BY <1>5 DEF Crash
  <2> QED BY <1>p, <2>1 DEF CheckedRequests
<1>6. CASE Tick
  BY <1>6, <1>a DEF Tick
<1>7. CASE UNCHANGED vars
  BY <1>7, <1>a DEF vars
<1> QED BY <1>1, <1>2, <1>3, <1>4, <1>5, <1>6, <1>7 DEF Next

LEMMA NextChecked == CheckedInv /\ [Next]_vars => CheckedInv'
BY NextService, NextCheckedList, NextCheckedRequests DEF CheckedInv

\* However updates, deletes, purges and reloads interleave with the reading
\* of the old object, no server is listed or verified with an address that
\* the program refuses.
THEOREM AddressesAreChecked == Spec => []AddressAlwaysChecked
<1>1. CheckedInv => AddressAlwaysChecked
  BY DEF CheckedInv, CheckedList, CheckedRequests, Checked, Live,
         AddressAlwaysChecked
<1> QED BY <1>1, InitChecked, NextChecked, PTL DEF Spec

\* Nothing unverified is ever listed, not even through store.json.
THEOREM ListedServersAreVerified == Spec => []ListedAreVerified
<1>1. CheckedInv => ListedAreVerified
  BY DEF CheckedInv, CheckedList, Checked, ListedAreVerified
<1> QED BY <1>1, InitChecked, NextChecked, PTL DEF Spec

-----------------------------------------------------------------------------
\* Who may disappear.  What announce read for a request has the request's
\* key, and keeps it however old it gets.
ReadByKey ==
  \A r \in Request :
    pc[r] = "read" /\ old[r] # NoServer => Key(old[r]) = Key(req[r])

KeyInv == TypeInv /\ ReadByKey

LEMMA InitKey == Init => KeyInv
BY InitService DEF Init, KeyInv, ReadByKey

LEMMA NextKey == KeyInv /\ [Next]_vars => KeyInv'
<1> SUFFICES ASSUME KeyInv, [Next]_vars PROVE ReadByKey'
  BY NextService DEF KeyInv
<1>0. RequestsOK /\ ReadByKey
  BY DEF KeyInv, TypeInv
<1>a. ASSUME UNCHANGED requestVars PROVE ReadByKey'
  BY <1>0, <1>a DEF ReadByKey, requestVars
<1>b. ASSUME NEW r \in Request, NEW l \in PC \ {"read"},
             pc' = [pc EXCEPT ![r] = l], UNCHANGED req,
             old' = [old EXCEPT ![r] = NoServer] \/ UNCHANGED old
      PROVE  ReadByKey'
  BY <1>0, <1>b DEF ReadByKey, RequestsOK
<1>p. PC \ {"read"} = {"new", "filed", "resolve", "check", "ping", "failed", "over"}
  BY DEF PC
<1>1. ASSUME NEW r \in Request, Handler(r) PROVE ReadByKey'
  <2>1. CASE Receive(r)
    <3>1. PICK a \in Announcement : \E o \in SL!Get(a.ip, a.port) :
                 /\ req' = [req EXCEPT ![r] = a]
                 /\ old' = [old EXCEPT ![r] = o]
      BY <2>1 DEF Receive
    <3>2. PICK o \in SL!Get(a.ip, a.port) :
                 /\ req' = [req EXCEPT ![r] = a]
                 /\ old' = [old EXCEPT ![r] = o]
      BY <3>1
    <3>3. o # NoServer => Key(o) = Key(a)
      BY <3>2 DEF SL!Get, SL!Matching, Key
    <3>4. pc' = [pc EXCEPT ![r] = "read"]
      BY <2>1 DEF Receive, Goto
    <3>5. req'[r] = a /\ old'[r] = o
      BY <1>0, <3>2 DEF RequestsOK
    <3>6. \A x \in Request \ {r} :
            req'[x] = req[x] /\ old'[x] = old[x] /\ pc'[x] = pc[x]
      BY <1>0, <3>2, <3>4 DEF RequestsOK
    <3> QED BY <1>0, <3>3, <3>5, <3>6 DEF ReadByKey
  <2>2. CASE DeleteMissing(r)
    BY <2>2, <1>b, <1>p DEF DeleteMissing, Answer, Goto, Drop
  <2>3. CASE DeleteListed(r)
    BY <2>3, <1>b, <1>p DEF DeleteListed, Answer, Goto, Drop
  <2>4. CASE Refuse(r)
    BY <2>4, <1>b, <1>p DEF Refuse, Answer, Goto, Drop
  <2>5. CASE File(r)
    BY <2>5, <1>b, <1>p DEF File, Goto, Drop
  <2> QED BY <1>1, <2>1, <2>2, <2>3, <2>4, <2>5 DEF Handler
<1>2. ASSUME NEW r \in Request, Verification(r) PROVE ReadByKey'
  <2>1. UNCHANGED <<req, old>>
    BY <1>2 DEF Verification, Forget, Resolve, ResolveFails, Check, Enlist,
                PingFails, Fail
  <2>2. \E l \in PC \ {"read"} : pc' = [pc EXCEPT ![r] = l]
    BY <1>2, <1>p
       DEF Verification, Forget, Resolve, ResolveFails, Check, Enlist,
           PingFails, Fail, Goto
  <2> QED BY <1>b, <2>1, <2>2
<1>3. CASE Timer
  BY <1>3, <1>a DEF Timer, Purge, Sweep, Save, Publish, SaveFails
<1>4. CASE Boot
  BY <1>4, <1>a DEF Boot
<1>5. CASE Crash
  BY <1>5 DEF Crash, ReadByKey
<1>6. CASE Tick
  BY <1>6, <1>a DEF Tick
<1>7. CASE UNCHANGED vars
  BY <1>7, <1>a DEF vars
<1> QED BY <1>1, <1>2, <1>3, <1>4, <1>5, <1>6, <1>7 DEF Next

\* The list only changes in Enlist, DeleteListed and Purge while the program
\* keeps serving.
LEMMA ServingListChanges ==
  ASSUME [Next]_vars, phase' = "serving", list' # list
  PROVE  \/ \E r \in Request : DeleteListed(r) \/ Enlist(r)
         \/ Purge
<1>1. ASSUME NEW r \in Request, Handler(r) \/ Verification(r)
      PROVE  DeleteListed(r) \/ Enlist(r)
  BY <1>1 DEF Handler, Verification, Receive, DeleteMissing, Refuse, File,
              Forget, Resolve, ResolveFails, Check, PingFails, Fail, SLvars
<1>2. CASE Sweep \/ Tick \/ UNCHANGED vars
  BY <1>2 DEF Sweep, Tick, vars, SLvars
<1>3. CASE Save \/ Publish
  BY <1>3 DEF Save, Publish, SL!SaveStorage, SL!SavePublic, SL!memory
<1>4. CASE SaveFails
  BY <1>4 DEF SaveFails, SL!SaveStorageFails, SL!SavePublicFails, SL!Abort,
              SL!memory
<1>5. CASE Boot
  BY <1>5 DEF Boot, SL!Load
<1>6. CASE Crash
  BY <1>6 DEF Crash, SL!Crash
<1> QED BY <1>1, <1>2, <1>3, <1>4, <1>5, <1>6 DEF Next, Timer

\* A key leaves a serving program's list by a delete of its own, or because the
\* entry's time is past.
LEMMA KeyLeaves ==
  ASSUME KeyInv, [Next]_vars, NEW s \in list, phase' = "serving",
         \A t \in list' : Key(t) # Key(s)
  PROVE  \/ s.updateTime + PurgeTime < now
         \/ \E r \in Request : /\ pc[r] = "read" /\ pc'[r] = "over"
                               /\ req[r].action = "delete"
                               /\ Key(req[r]) = Key(s)
<1>1. s \in Server /\ RequestsOK /\ ReadByKey
  BY ListIsOfServers DEF KeyInv, TypeInv
<1>2. list' # list /\ s \notin list'
  OBVIOUS
<1>3. ASSUME NEW r \in Request, DeleteListed(r)
      PROVE  /\ pc[r] = "read" /\ pc'[r] = "over"
             /\ req[r].action = "delete" /\ Key(req[r]) = Key(s)
  <2>1. /\ pc[r] = "read" /\ req[r].action = "delete" /\ old[r] # NoServer
        /\ list' = list \ {old[r]} /\ pc' = [pc EXCEPT ![r] = "over"]
    BY <1>3 DEF DeleteListed, SL!Remove, Answer, Goto
  <2>2. s = old[r]
    BY <1>2, <2>1
  <2> QED BY <1>1, <2>1, <2>2 DEF ReadByKey, RequestsOK
<1>4. ASSUME NEW r \in Request, Enlist(r) PROVE FALSE
  <2>1. server[r] \in list'
    BY <1>4 DEF Enlist, SL!Update
  <2>2. PICK o \in SL!Matching(server[r].ip, server[r].port) :
               list' = (list \ {o}) \cup {server[r]}
    BY <1>2, <1>4 DEF Enlist, SL!Update
  <2>3. s = o
    BY <1>2, <2>2
  <2>4. Key(server[r]) = Key(s)
    BY <2>2, <2>3 DEF SL!Matching, Key
  <2> QED BY <2>1, <2>4
<1>5. ASSUME Purge PROVE s.updateTime + PurgeTime < now
  <2>1. s \in list /\ ~(now - PurgeTime <= s.updateTime)
    BY <1>2, <1>5 DEF Purge, SL!PurgeOld
  <2>2. s.updateTime \in Nat /\ PurgeTime \in Nat /\ now \in Nat
    BY <1>1, ServiceAssumption DEF Server, KeyInv, TypeInv, ET!TypeOK
  <2> QED BY <2>1, <2>2
<1> QED BY <1>2, <1>3, <1>4, <1>5, ServingListChanges

-----------------------------------------------------------------------------
\* A complaint on the board was posted by the verification of a request that
\* was filed with just this key; and a request that is not filed yet has no
\* answer yet, so that the complaint it finds is another's.
IsFiled(x, k) == reply[x] \in Filed /\ ErrorKeyOf(req[x]) = k

ComplaintInv ==
  /\ TypeInv
  /\ \A r \in Request : pc[r] \in {"new", "read"} => reply[r] = "none"
  /\ \A r \in Request : pc[r] \in Verifying => IsFiled(r, ErrorPK(server[r]))
  /\ \A k \in ErrorKey : errors[k] # NoError => \E x \in Request : IsFiled(x, k)
  /\ NoForeignComplaints

LEMMA InitComplaint == Init => ComplaintInv
<1> SUFFICES ASSUME Init PROVE ComplaintInv
  OBVIOUS
<1>1. \A k \in ErrorKey : errors[k] = NoError
  BY DEF Init, ET!Init
<1>2. \A r \in Request : pc[r] = "new" /\ reply[r] = "none"
  BY DEF Init
<1> QED BY <1>1, <1>2, InitService
        DEF ComplaintInv, NoForeignComplaints, Filed, Verifying

\* A step that files nothing, whose complaints are those of filed requests.
LEMMA ComplaintsKept ==
  ASSUME ComplaintInv, TypeInv',
         UNCHANGED <<req, reply>>,
         \A r \in Request : pc'[r] \in {"new", "read"} => pc[r] \in {"new", "read"},
         \A r \in Request : pc'[r] \in Verifying =>
           pc[r] \in Verifying /\ ErrorPK(server'[r]) = ErrorPK(server[r]),
         \A k \in ErrorKey : errors'[k] # NoError =>
           \/ errors[k] # NoError
           \/ \E r \in Request : pc[r] \in Verifying /\ k = ErrorPK(server[r])
  PROVE  ComplaintInv'
<1>1. \A x \in Request : \A k : IsFiled(x, k)' <=> IsFiled(x, k)
  BY DEF IsFiled, ErrorKeyOf
<1>2. NoForeignComplaints'
  BY DEF ComplaintInv, NoForeignComplaints, ErrorKeyOf
<1>3. \A r \in Request : pc'[r] \in {"new", "read"} => reply'[r] = "none"
  BY DEF ComplaintInv
<1>4. \A r \in Request : pc'[r] \in Verifying => IsFiled(r, ErrorPK(server[r]))'
  <2> SUFFICES ASSUME NEW r \in Request, pc'[r] \in Verifying
               PROVE  reply'[r] \in Filed /\ ErrorKeyOf(req'[r]) = ErrorPK(server'[r])
    BY DEF IsFiled, ErrorPK, ErrorKeyOf
  <2> QED BY DEF ComplaintInv, IsFiled
<1>5. \A k \in ErrorKey : errors'[k] # NoError => \E x \in Request : IsFiled(x, k)'
  BY <1>1 DEF ComplaintInv
<1> QED BY <1>2, <1>3, <1>4, <1>5 DEF ComplaintInv

\* A handler's step: it answers or moves one request that is not filed yet.
LEMMA ComplaintHandler ==
  ASSUME ComplaintInv, TypeInv', NEW r \in Request, NEW text, NEW l \in PC,
         pc[r] \in {"new", "read"}, l \notin {"new"},
         pc' = [pc EXCEPT ![r] = l], reply' = [reply EXCEPT ![r] = text],
         l = "read" => text = "none",
         UNCHANGED errors,
         \A x \in Request \ {r} : req'[x] = req[x] /\ server'[x] = server[x],
         l \in Verifying => text \in Filed /\ ErrorPK(server'[r]) = ErrorKeyOf(req'[r]),
         text \in Filed \ {"filed"} =>
           ErrorKeyOf(req'[r]) \in ErrorKey /\ errors[ErrorKeyOf(req'[r])] # NoError
  PROVE  ComplaintInv'
<1>0. RequestsOK /\ reply[r] = "none" /\ "none" \notin Filed
  BY DEF ComplaintInv, TypeInv, Filed
<1>1. /\ pc'[r] = l /\ reply'[r] = text
      /\ \A x \in Request \ {r} : pc'[x] = pc[x] /\ reply'[x] = reply[x]
  BY <1>0 DEF RequestsOK
<1>2. ASSUME NEW x \in Request, NEW k, IsFiled(x, k)
      PROVE  x # r /\ reply'[x] \in Filed /\ ErrorKeyOf(req'[x]) = k
  BY <1>0, <1>1, <1>2 DEF IsFiled, ErrorKeyOf
<1>3. \A k \in ErrorKey : errors'[k] # NoError =>
        \E x \in Request \ {r} : reply'[x] \in Filed /\ ErrorKeyOf(req'[x]) = k
  BY <1>2 DEF ComplaintInv
<1>4. NoForeignComplaints'
  <2> SUFFICES ASSUME NEW y \in Request, reply'[y] \in Filed \ {"filed"}
               PROVE  \E x \in Request \ {y} : /\ reply'[x] \in Filed
                                               /\ ErrorKeyOf(req'[x]) = ErrorKeyOf(req'[y])
    BY DEF NoForeignComplaints, ErrorKeyOf, Filed
  <2>1. CASE y = r
    BY <1>1, <1>3, <2>1
  <2>2. CASE y # r
    <3>1. PICK x \in Request \ {y} : /\ reply[x] \in Filed
                                     /\ ErrorKeyOf(req[x]) = ErrorKeyOf(req[y])
      BY <1>1, <2>2 DEF ComplaintInv, NoForeignComplaints
    <3>2. x # r /\ reply'[x] \in Filed
      BY <1>0, <1>1, <3>1
    <3>3. ErrorKeyOf(req'[x]) = ErrorKeyOf(req[x]) /\ ErrorKeyOf(req'[y]) = ErrorKeyOf(req[y])
      BY <2>2, <3>2 DEF ErrorKeyOf
    <3> QED BY <3>1, <3>2, <3>3
  <2> QED BY <2>1, <2>2
<1>5. \A x \in Request : pc'[x] \in {"new", "read"} => reply'[x] = "none"
  BY <1>1 DEF ComplaintInv
<1>6. \A x \in Request : pc'[x] \in Verifying =>
        reply'[x] \in Filed /\ ErrorKeyOf(req'[x]) = ErrorPK(server'[x])
  <2> SUFFICES ASSUME NEW x \in Request, pc'[x] \in Verifying
               PROVE  reply'[x] \in Filed /\ ErrorKeyOf(req'[x]) = ErrorPK(server'[x])
    OBVIOUS
  <2>1. CASE x = r
    BY <1>1, <2>1
  <2>2. CASE x # r
    <3>1. IsFiled(x, ErrorPK(server[x])) /\ server'[x] = server[x]
      BY <1>1, <2>2 DEF ComplaintInv
    <3> QED BY <1>2, <3>1
  <2> QED BY <2>1, <2>2
<1>7. \A x \in Request : pc'[x] \in Verifying => IsFiled(x, ErrorPK(server[x]))'
  BY <1>6 DEF IsFiled, ErrorPK, ErrorKeyOf, Filed
<1>8. \A k \in ErrorKey : errors'[k] # NoError => \E x \in Request : IsFiled(x, k)'
  BY <1>3 DEF IsFiled, ErrorKeyOf, Filed
<1> QED BY <1>4, <1>5, <1>7, <1>8 DEF ComplaintInv

LEMMA NextComplaint == ComplaintInv /\ [Next]_vars => ComplaintInv'
<1> SUFFICES ASSUME ComplaintInv, [Next]_vars PROVE ComplaintInv'
  OBVIOUS
<1>0. TypeInv /\ RequestsOK /\ ET!TypeOK /\ TypeInv'
  BY NextService DEF ComplaintInv, TypeInv
<1>v. "new" \notin Verifying /\ "read" \notin Verifying /\ "over" \notin Verifying
      /\ {"filed", "resolve", "check", "ping", "failed"} \subseteq Verifying
      /\ {"read", "over", "filed"} \subseteq PC
  BY DEF Verifying, PC
\* Steps that leave the requests and the board alone.
<1>a. ASSUME UNCHANGED <<requestVars, errors>> PROVE ComplaintInv'
  BY <1>0, <1>a, ComplaintsKept DEF requestVars
<1>1. ASSUME NEW r \in Request, Handler(r) PROVE ComplaintInv'
  <2>1. CASE Receive(r)
    <3>1. /\ pc[r] = "new" /\ pc' = [pc EXCEPT ![r] = "read"]
          /\ \A x \in Request \ {r} : req'[x] = req[x]
          /\ UNCHANGED <<errors, server, reply>>
      BY <1>0, <2>1 DEF Receive, Goto, ETvars, RequestsOK
    <3>2. reply' = [reply EXCEPT ![r] = "none"]
      BY <1>0, <3>1 DEF ComplaintInv, RequestsOK
    <3> QED BY <1>0, <1>v, <3>1, <3>2, ComplaintHandler DEF Filed
  <2>2. CASE DeleteMissing(r) \/ DeleteListed(r) \/ Refuse(r)
    <3>1. PICK text \in {"to remove not found", "removed", "to update not found",
                         "bad address", "non-monotonic uptime"} :
            Answer(r, text)
      BY <2>2 DEF DeleteMissing, DeleteListed, Refuse
    <3>2. /\ pc[r] = "read" /\ pc' = [pc EXCEPT ![r] = "over"]
          /\ reply' = [reply EXCEPT ![r] = text]
          /\ UNCHANGED <<errors, req, server>>
      BY <2>2, <3>1 DEF DeleteMissing, DeleteListed, Refuse, Answer, Goto, ETvars
    <3>3. text \notin Filed
      BY <3>1 DEF Filed
    <3> QED BY <1>0, <1>v, <3>2, <3>3, ComplaintHandler
  <2>3. CASE File(r)
    <3> DEFINE k == ErrorPK(Announced(r))
               info == ET!Get(k)
               text == IF info = NoError THEN "filed"
                       ELSE IF info = "warning" THEN "filed, previous warning"
                       ELSE "filed, previous error"
    <3>1. /\ pc[r] = "read" /\ pc' = [pc EXCEPT ![r] = "filed"]
          /\ reply' = [reply EXCEPT ![r] = text]
          /\ server' = [server EXCEPT ![r] = Announced(r)]
          /\ UNCHANGED <<errors, req>>
      BY <2>3 DEF File, Goto, ETvars
    <3>2. k = ErrorKeyOf(req[r]) /\ k \in ErrorKey
      BY <1>0, <3>1, AnnouncedType DEF ErrorPK, ErrorKeyOf, Key
    <3>3. server'[r] = Announced(r) /\ \A x \in Request \ {r} : server'[x] = server[x]
      BY <1>0, <3>1 DEF RequestsOK
    <3> HIDE DEF Announced
    <3>4. text \in Filed \ {"filed"} => errors[k] # NoError
      BY DEF ET!Get
    <3>5. text \in Filed
      BY DEF Filed
    <3>6. ErrorPK(server'[r]) = ErrorKeyOf(req'[r]) /\ ErrorKeyOf(req'[r]) = k
      BY <3>1, <3>2, <3>3 DEF ErrorPK, ErrorKeyOf
    <3> HIDE DEF text, k, info
    <3> QED BY <1>0, <1>v, <3>1, <3>2, <3>3, <3>4, <3>5, <3>6, ComplaintHandler
  <2> QED BY <1>1, <2>1, <2>2, <2>3 DEF Handler
<1>2. ASSUME NEW r \in Request, Verification(r) PROVE ComplaintInv'
  <2>0. /\ pc[r] \in Verifying /\ UNCHANGED <<req, reply>>
        /\ \E l \in {"resolve", "check", "ping", "failed", "over"} :
             pc' = [pc EXCEPT ![r] = l]
    BY <1>2 DEF Verification, Forget, Resolve, ResolveFails, Check, Enlist,
                PingFails, Fail, Goto, Verifying
  <2>1. /\ \A x \in Request : pc'[x] \in {"new", "read"} => pc[x] \in {"new", "read"}
        /\ \A x \in Request : pc'[x] \in Verifying => pc[x] \in Verifying
    BY <1>0, <2>0 DEF RequestsOK
  <2>2. \A x \in Request : pc'[x] \in Verifying => ErrorPK(server'[x]) = ErrorPK(server[x])
    <3>1. CASE Forget(r) \/ ResolveFails(r) \/ Check(r) \/ PingFails(r)
      BY <3>1 DEF Forget, ResolveFails, Check, PingFails, ErrorPK
    <3>2. CASE Resolve(r)
      <4>1. PICK level : server' = [server EXCEPT ![r].verifyLevel = level]
        BY <3>2 DEF Resolve
      <4>2. server[r] \in Server
        BY <1>0, <2>0, VerifiedIsServer
      <4>3. server'[r] = [server[r] EXCEPT !.verifyLevel = level]
            /\ \A x \in Request \ {r} : server'[x] = server[x]
        BY <1>0, <4>1 DEF RequestsOK
      <4>4. ErrorPK(server'[r]) = ErrorPK(server[r])
        BY <4>2, <4>3 DEF ErrorPK, Server
      <4> QED BY <4>3, <4>4
    <3>3. CASE Enlist(r) \/ Fail(r)
      <4>1. pc'[r] = "over" /\ server' = [server EXCEPT ![r] = NoServer]
        BY <1>0, <3>3 DEF Enlist, Fail, Goto, Drop, RequestsOK
      <4>2. \A x \in Request \ {r} : server'[x] = server[x]
        BY <1>0, <4>1 DEF RequestsOK
      <4> QED BY <1>v, <4>1, <4>2
    <3> QED BY <1>2, <3>1, <3>2, <3>3 DEF Verification
  <2>3. \A k \in ErrorKey : errors'[k] # NoError =>
          errors[k] # NoError \/ k = ErrorPK(server[r])
    <3>1. CASE Forget(r) \/ Resolve(r) \/ Fail(r)
      <4>1. \/ ET!Remove(ErrorPK(server[r]))
            \/ \E info : ET!Put(ErrorPK(server[r]), info)
            \/ UNCHANGED errors
        BY <3>1 DEF Forget, Resolve, Fail, ETvars
      <4> QED BY <1>0, <4>1 DEF ET!Remove, ET!Put, ET!TypeOK
    <3>2. CASE ResolveFails(r) \/ Check(r) \/ Enlist(r) \/ PingFails(r)
      BY <3>2 DEF ResolveFails, Check, Enlist, PingFails, ETvars
    <3> QED BY <1>2, <3>1, <3>2 DEF Verification
  <2> QED BY <1>0, <2>0, <2>1, <2>2, <2>3, ComplaintsKept
<1>3. CASE Timer
  <2>1. CASE Sweep
    <3>1. \A k \in ErrorKey : errors'[k] # NoError => errors[k] # NoError
      BY <2>1 DEF Sweep, ET!Cleanup
    <3>2. UNCHANGED requestVars
      BY <2>1 DEF Sweep
    <3> QED BY <1>0, <3>1, <3>2, ComplaintsKept DEF requestVars
  <2>2. CASE Purge \/ Save \/ Publish \/ SaveFails
    BY <2>2, <1>a DEF Purge, Save, Publish, SaveFails, ETvars
  <2> QED BY <1>3, <2>1, <2>2 DEF Timer
<1>4. CASE Boot
  BY <1>4, <1>a DEF Boot, ETvars
<1>5. CASE Crash
  <2>1. /\ \A r \in Request : pc'[r] \in {"new", "over"}
        /\ \A r \in Request : pc'[r] = "new" => pc[r] = "new"
        /\ \A k \in ErrorKey : errors'[k] = NoError
        /\ UNCHANGED <<req, reply>>
    BY <1>5 DEF Crash
  <2> QED BY <1>0, <1>v, <2>1, ComplaintsKept
<1>6. CASE Tick
  BY <1>6, <1>a DEF Tick, ET!Tick
<1>7. CASE UNCHANGED vars
  BY <1>7, <1>a DEF vars, ETvars
<1> QED BY <1>1, <1>2, <1>3, <1>4, <1>5, <1>6, <1>7 DEF Next

\* With any number of overlapping verifications, a client only ever hears
\* complaints about requests of its own.
THEOREM ComplaintsAreYourOwn == Spec => []NoForeignComplaints
<1>1. ComplaintInv => NoForeignComplaints
  BY DEF ComplaintInv
<1> QED BY <1>1, InitComplaint, NextComplaint, PTL DEF Spec
=============================================================================
