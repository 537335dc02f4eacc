------------------------ MODULE ServiceHistoryProofs ------------------------
(***************************************************************************)
(* Theorems about what the program carries from one announcement to the    *)
(* next, through objects that may have left the list, the list, its store  *)
(* and any number of restarts: the counters that TrackUpdate takes over,   *)
(* and the time that decides when a server is purged.                      *)
(***************************************************************************)
EXTENDS ServiceProofs, ServiceSilence, FiniteSetTheorems

-----------------------------------------------------------------------------
\* The requests that were filed for a key, which never become fewer, bound
\* the updates of every object of that key, wherever it is; and no object has
\* seen more clients than its best update would give.
FiledFor(k) == {r \in Request : reply[r] \in Filed /\ Key(req[r]) = k}

AllFiled == {r \in Request : reply[r] \in Filed}

Capped(s) == s.totalClients <= s.updateCount * s.meta.clients_top

Counted(s) ==
  /\ s.updateCount <= Cardinality(FiledFor(Key(s)))
  /\ Capped(s)

CountedList == \A s \in list : Counted(s)

CountedStore == store # NoFile => \A t \in store.list : Counted(SL!FromStorage(t))

CountedRequests ==
  \A r \in Request :
    /\ pc[r] = "read" /\ old[r] # NoServer => Counted(old[r])
    /\ pc[r] \in Verifying => Counted(server[r])

CountInv ==
  /\ KeyInv /\ ComplaintInv
  /\ IsFiniteSet(AllFiled)
  /\ CountedList /\ CountedStore /\ CountedRequests

LEMMA InitCount == Init => CountInv
<1> SUFFICES ASSUME Init PROVE CountInv
  OBVIOUS
<1>1. \A r \in Request : pc[r] = "new" /\ reply[r] = "none"
  BY DEF Init
<1>2. AllFiled = {}
  BY <1>1 DEF AllFiled, Filed
<1>3. IsFiniteSet(AllFiled)
  BY <1>2, FS_EmptySet
<1>4. list = {} /\ store = NoFile
  BY DEF Init, SL!Init
<1> QED BY <1>1, <1>3, <1>4, InitKey, InitComplaint
        DEF CountInv, CountedList, CountedStore, CountedRequests, Verifying

-----------------------------------------------------------------------------
\* How the counters add up.
LEMMA ProductGrows ==
  ASSUME NEW c \in Nat, NEW t \in Nat, NEW u \in Nat, t <= u
  PROVE  c * t \in Nat /\ c * t <= c * u
OBVIOUS

LEMMA OneMore ==
  ASSUME NEW total \in Nat, NEW c \in Nat, NEW t \in Nat, NEW more \in Nat,
         NEW u \in Nat, total <= c * t, t <= u, more <= u
  PROVE  total + more <= (c + 1) * u
<1>1. c * t \in Nat /\ c * u \in Nat /\ c * t <= c * u
  BY ProductGrows
<1>2. (c + 1) * u = c * u + u
  OBVIOUS
<1> QED BY <1>1, <1>2

\* Rounding does not get above a bound that is a natural number.
LEMMA RoundedQuotient ==
  ASSUME NEW total \in Nat, NEW c \in Nat, c # 0, NEW t \in Nat, total <= c * t
  PROVE  (2 * total + c) \div (2 * c) <= t
<1> DEFINE q == (2 * total + c) \div (2 * c)
<1>1. q \in Int /\ 2 * c * q <= 2 * total + c
  OBVIOUS
<1>2. 2 * total + c <= 2 * (c * t) + c
  OBVIOUS
<1>3. ASSUME q >= t + 1 PROVE FALSE
  <2>1. (2 * c) * (t + 1) <= (2 * c) * q
    BY <1>1, <1>3
  <2>2. (2 * c) * (t + 1) = 2 * (c * t) + 2 * c
    OBVIOUS
  <2> QED BY <1>1, <1>2, <2>1, <2>2
<1> QED BY <1>1, <1>3

-----------------------------------------------------------------------------
\* A filed request stays filed and keeps what it asked for.
LEMMA FiledStays ==
  ASSUME ComplaintInv, [Next]_vars, NEW r \in Request, reply[r] \in Filed
  PROVE  reply'[r] = reply[r] /\ req'[r] = req[r]
<1>0. RequestsOK /\ pc[r] \notin {"new", "read"}
  BY DEF ComplaintInv, TypeInv, Filed
<1>1. ASSUME NEW x \in Request, Handler(x)
      PROVE  reply'[r] = reply[r] /\ req'[r] = req[r]
  <2>1. pc[x] \in {"new", "read"}
    BY <1>1 DEF Handler, Receive, DeleteMissing, DeleteListed, Refuse, File
  <2>2. \/ UNCHANGED reply
        \/ \E text : reply' = [reply EXCEPT ![x] = text]
    BY <1>1 DEF Handler, Receive, DeleteMissing, DeleteListed, Refuse, File, Answer
  <2>3. UNCHANGED req \/ \E a : req' = [req EXCEPT ![x] = a]
    BY <1>1 DEF Handler, Receive, DeleteMissing, DeleteListed, Refuse, File
  <2> QED BY <1>0, <2>1, <2>2, <2>3 DEF RequestsOK
<1>2. ASSUME NEW x \in Request, Verification(x) PROVE UNCHANGED <<req, reply>>
  BY <1>2 DEF Verification, Forget, Resolve, ResolveFails, Check, Enlist,
              PingFails, Fail
<1>3. CASE Timer
  BY <1>3 DEF Timer, Purge, Sweep, Save, Publish, SaveFails, requestVars
<1>4. CASE Boot \/ Crash \/ Tick \/ UNCHANGED vars
  BY <1>4 DEF Boot, Crash, Tick, vars, requestVars
<1> QED BY <1>1, <1>2, <1>3, <1>4 DEF Next

\* A step files at most one request.
LEMMA OneFiled ==
  ASSUME TypeInv, [Next]_vars
  PROVE  \E x : AllFiled' \subseteq AllFiled \cup {x}
<1>a. ASSUME UNCHANGED reply PROVE AllFiled' \subseteq AllFiled
  BY <1>a DEF AllFiled
<1>1. ASSUME NEW x \in Request, Handler(x)
      PROVE  AllFiled' \subseteq AllFiled \cup {x}
  <2>1. \/ UNCHANGED reply
        \/ \E text : reply' = [reply EXCEPT ![x] = text]
    BY <1>1 DEF Handler, Receive, DeleteMissing, DeleteListed, Refuse, File, Answer
  <2> QED BY <2>1 DEF AllFiled, TypeInv, RequestsOK
<1>2. ASSUME NEW x \in Request, Verification(x) PROVE UNCHANGED reply
  BY <1>2 DEF Verification, Forget, Resolve, ResolveFails, Check, Enlist,
              PingFails, Fail
<1>3. CASE Timer
  BY <1>3, <1>a DEF Timer, Purge, Sweep, Save, Publish, SaveFails, requestVars
<1>4. CASE Boot \/ Crash \/ Tick \/ UNCHANGED vars
  BY <1>4, <1>a DEF Boot, Crash, Tick, vars, requestVars
<1> QED BY <1>a, <1>1, <1>2, <1>3, <1>4 DEF Next

\* So the requests filed for a key stay finitely many and never become fewer.
LEMMA FiledGrows ==
  ASSUME ComplaintInv, IsFiniteSet(AllFiled), [Next]_vars
  PROVE  /\ IsFiniteSet(AllFiled)'
         /\ \A k : /\ IsFiniteSet(FiledFor(k)) /\ IsFiniteSet(FiledFor(k)')
                  /\ Cardinality(FiledFor(k)) \in Nat
                  /\ Cardinality(FiledFor(k)') \in Nat
                  /\ FiledFor(k) \subseteq FiledFor(k)'
                  /\ Cardinality(FiledFor(k)) <= Cardinality(FiledFor(k)')
<1>1. PICK x : AllFiled' \subseteq AllFiled \cup {x}
  BY OneFiled DEF ComplaintInv
<1>2. IsFiniteSet(AllFiled')
  <2>1. IsFiniteSet(AllFiled \cup {x})
    BY FS_AddElement
  <2> QED BY <1>1, <2>1, FS_Subset
<1>3. ASSUME NEW k
      PROVE  /\ IsFiniteSet(FiledFor(k)) /\ IsFiniteSet(FiledFor(k)')
             /\ FiledFor(k) \subseteq FiledFor(k)'
  <2>1. FiledFor(k) \subseteq AllFiled /\ FiledFor(k)' \subseteq AllFiled'
    BY DEF FiledFor, AllFiled
  <2>2. FiledFor(k) \subseteq FiledFor(k)'
    BY FiledStays DEF FiledFor, Key
  <2> QED BY <1>2, <2>1, <2>2, FS_Subset
<1>4. \A k : /\ Cardinality(FiledFor(k)) \in Nat
            /\ Cardinality(FiledFor(k)') \in Nat
            /\ Cardinality(FiledFor(k)) <= Cardinality(FiledFor(k)')
  BY <1>3, FS_CardinalityType, FS_Subset
<1> QED BY <1>2, <1>3, <1>4

\* Whatever counted before the step counts after it.
LEMMA StillCounted ==
  ASSUME CountInv, [Next]_vars, NEW s \in Server, Counted(s)
  PROVE  /\ s.updateCount <= Cardinality(FiledFor(Key(s))')
         /\ Capped(s)
<1>1. s.updateCount \in Nat
  BY DEF Server
<1> DEFINE before == Cardinality(FiledFor(Key(s)))
           after  == Cardinality(FiledFor(Key(s))')
<1>2. before \in Nat /\ after \in Nat /\ before <= after
  BY FiledGrows DEF CountInv
<1>3. s.updateCount <= before /\ Capped(s)
  BY DEF Counted
<1> HIDE DEF before, after
<1>4. s.updateCount <= after
  BY <1>1, <1>2, <1>3
<1> QED BY <1>3, <1>4 DEF after

-----------------------------------------------------------------------------
\* What TrackUpdate computes, counter by counter.
LEMMA TrackUpdateCounts ==
  ASSUME NEW s \in Server, NEW o \in Server \cup {NoServer},
         NEW isUpdate \in BOOLEAN, NEW time \in Nat
  PROVE  LET u == TrackUpdate(s, o, isUpdate, time)
         IN  /\ u.meta.clients_top \in Nat /\ s.meta.clients \in Nat
             /\ s.meta.clients <= u.meta.clients_top
             /\ o = NoServer => /\ u.updateCount = 1
                                /\ u.totalClients = s.meta.clients
             /\ o # NoServer => /\ u.updateCount = o.updateCount + 1
                                /\ u.totalClients = o.totalClients + s.meta.clients
                                /\ o.meta.clients_top <= u.meta.clients_top
<1> DEFINE clients == s.meta.clients
           top   == IF o # NoServer /\ o.meta.clients_top > clients
                    THEN o.meta.clients_top ELSE clients
           u     == TrackUpdate(s, o, isUpdate, time)
<1>1. clients \in Nat /\ (o # NoServer => o.meta.clients_top \in Nat)
  BY DEF Server, Meta
<1>2. /\ top \in Nat /\ clients <= top
      /\ o # NoServer => o.meta.clients_top <= top
  BY <1>1
<1>3. u.meta.clients_top = top
  BY DEF TrackUpdate, Server, Meta
<1>4. /\ u.updateCount = IF o = NoServer THEN 1 ELSE o.updateCount + 1
      /\ u.totalClients = IF o = NoServer THEN clients
                          ELSE o.totalClients + clients
  BY DEF TrackUpdate, Server
<1> HIDE DEF top, u
<1> QED BY <1>1, <1>2, <1>3, <1>4 DEF u

\* The counters of a filed object continue those of the object it was
\* announced against by one filed request.
LEMMA FiledIsCounted ==
  ASSUME CountInv, [Next]_vars, NEW r \in Request, File(r)
  PROVE  Counted(server[r])'
<1> DEFINE n == ServerFromRequest(r, req[r].ip, req[r].port, req[r].address,
                                  req[r].uptime, req[r].clients)
<1>0. PICK k : k = Key(req[r])
  OBVIOUS
<1> DEFINE before == Cardinality(FiledFor(k))
           after  == Cardinality(FiledFor(k)')
<1>1. TypeInv /\ RequestsOK /\ ComplaintInv /\ ReadByKey /\ CountedRequests
  BY DEF CountInv, KeyInv, TypeInv
<1>2. /\ pc[r] = "read" /\ server'[r] = Announced(r) /\ reply'[r] \in Filed
      /\ UNCHANGED req
  BY <1>1 DEF File, Filed, RequestsOK
<1>3. Key(Announced(r)) = k /\ Announced(r) \in Server
  BY <1>0, <1>1, <1>2, AnnouncedType
<1>4. r \in FiledFor(k)' /\ r \notin FiledFor(k)
  BY <1>0, <1>1, <1>2 DEF FiledFor, ComplaintInv, Filed, Key
<1>5. before \in Nat /\ after \in Nat /\ before + 1 <= after
  <2>1. /\ IsFiniteSet(FiledFor(k)) /\ IsFiniteSet(FiledFor(k)')
        /\ FiledFor(k) \subseteq FiledFor(k)'
    BY FiledGrows DEF CountInv
  <2>2. Cardinality(FiledFor(k) \cup {r}) = before + 1
    BY <1>4, <2>1, FS_AddElement
  <2>3. FiledFor(k) \cup {r} \subseteq FiledFor(k)'
    BY <1>4, <2>1
  <2>4. Cardinality(FiledFor(k) \cup {r}) <= after
    BY <2>1, <2>3, FS_Subset
  <2>5. before \in Nat /\ after \in Nat
    BY <2>1, FS_CardinalityType
  <2> QED BY <2>2, <2>4, <2>5
<1>6. n \in Server /\ old[r] \in Server \cup {NoServer} /\ now \in Nat
  <2>1. req[r] \in Announcement /\ now \in Nat
    BY <1>1, <1>2 DEF RequestsOK, TypeInv, ET!TypeOK
  <2> QED BY <1>1, <2>1, ServiceAssumption
          DEF ServerFromRequest, Server, Meta, RequestsOK
<1>7. Announced(r) = TrackUpdate(n, old[r], IsUpdate(r), now)
  BY DEF Announced
<1>8. old[r] # NoServer => /\ old[r].updateCount <= before
                           /\ Capped(old[r])
  BY <1>0, <1>1, <1>2 DEF CountedRequests, Counted, ReadByKey
<1> HIDE DEF n, before, after
<1> HIDE DEF Announced, IsUpdate
<1>9. /\ Announced(r).meta.clients_top \in Nat /\ n.meta.clients \in Nat
      /\ n.meta.clients <= Announced(r).meta.clients_top
      /\ old[r] = NoServer => /\ Announced(r).updateCount = 1
                              /\ Announced(r).totalClients = n.meta.clients
      /\ old[r] # NoServer =>
           /\ Announced(r).updateCount = old[r].updateCount + 1
           /\ Announced(r).totalClients = old[r].totalClients + n.meta.clients
           /\ old[r].meta.clients_top <= Announced(r).meta.clients_top
  <2> DEFINE T(b) == TrackUpdate(n, old[r], b, now)
  <2>1. IsUpdate(r) \in BOOLEAN
    BY DEF IsUpdate
  <2> QED BY <1>6, <1>7, <2>1, TrackUpdateCounts
<1>10. Announced(r).updateCount <= after
  <2>1. old[r] # NoServer => old[r].updateCount \in Nat
    BY <1>6 DEF Server
  <2> QED BY <1>5, <1>8, <1>9, <2>1
<1>11. Capped(Announced(r))
  <2> DEFINE top == Announced(r).meta.clients_top
  <2>1. CASE old[r] = NoServer
    BY <1>9, <2>1 DEF Capped
  <2>2. CASE old[r] # NoServer
    <3> DEFINE c == old[r].updateCount
               t == old[r].totalClients
               v == old[r].meta.clients_top
    <3>1. c \in Nat /\ t \in Nat /\ v \in Nat
      BY <1>6, <2>2 DEF Server, Meta
    <3>2. t <= c * v /\ v <= top /\ n.meta.clients <= top
      BY <1>8, <1>9, <2>2 DEF Capped
    <3> HIDE DEF c, t, v
    <3>3. top \in Nat /\ n.meta.clients \in Nat
      BY <1>9
    <3> HIDE DEF top
    <3>4. t + n.meta.clients <= (c + 1) * top
      BY <3>1, <3>2, <3>3, OneMore
    <3> QED BY <1>9, <2>2, <3>4 DEF Capped, c, t, top
  <2> QED BY <2>1, <2>2
<1>12. Counted(server[r])' <=> /\ server'[r].updateCount <= Cardinality(FiledFor(Key(server[r]))')
                              /\ Capped(server'[r])
  BY DEF Counted, Capped
<1>13. FiledFor(Key(server[r]))' = FiledFor(k)'
  BY <1>2, <1>3 DEF FiledFor, Key
<1> QED BY <1>2, <1>10, <1>11, <1>12, <1>13 DEF after

-----------------------------------------------------------------------------
\* Reading back what was stored.
LEMMA ReadBack == \A t \in LP!StoredServer : SL!FromStorage(t) \in Server
<1> SUFFICES ASSUME NEW t \in LP!StoredServer PROVE SL!FromStorage(t) \in Server
  OBVIOUS
<1>1. /\ t[1] \in IP /\ t[2] \in Port /\ t[3] \in Address /\ t[4] \in Meta
      /\ t[5] \in [startTime : Nat, updateCount : Nat, updateTime : Nat,
                    totalClients : Nat, verifyLevel : 0..3]
  BY DEF LP!StoredServer, LP!Meta, Meta
<1> QED BY <1>1 DEF SL!FromStorage, Server

LEMMA StoredIsOfServers ==
  ASSUME TypeInv, store # NoFile
  PROVE  \A t \in store.list : SL!FromStorage(t) \in Server
BY ReadBack DEF TypeInv, LP!TypeInv, LP!TypeOK, LP!StoreFile

LEMMA NextCountedList ==
  CountInv /\ [Next]_vars => CountedList' /\ CountedStore'
<1> SUFFICES ASSUME CountInv, [Next]_vars PROVE CountedList' /\ CountedStore'
  OBVIOUS
<1>0. TypeInv /\ list \subseteq Server /\ CountedList /\ CountedStore /\ CountedRequests
  BY ListIsOfServers DEF CountInv, KeyInv
<1> DEFINE Counts(s) == /\ s.updateCount <= Cardinality(FiledFor(Key(s))')
                        /\ Capped(s)
<1>a. \A s \in list : Counts(s)
  BY <1>0, StillCounted DEF CountedList
<1>b. store # NoFile => \A t \in store.list : Counts(SL!FromStorage(t))
  BY <1>0, StoredIsOfServers, StillCounted DEF CountedStore
<1>c. ASSUME NEW r \in Request, pc[r] = "ping", NEW s, s = server[r]
      PROVE  Counts(s)
  <2>1. pc[r] \in Verifying
    BY <1>c DEF Verifying
  <2>2. s \in Server /\ Counted(s)
    BY <1>0, <1>c, <2>1, VerifiedIsServer DEF CountedRequests, TypeInv
  <2> QED BY <2>2, StillCounted
<1>d. CountedList' <=> \A s \in list' : Counts(s)
  BY DEF CountedList, Counted, Capped, FiledFor, Key
<1>e. CountedStore' <=>
        (store' # NoFile => \A t \in store'.list : Counts(SL!FromStorage(t)))
  BY DEF CountedStore, Counted, Capped, FiledFor, Key, SL!FromStorage
<1>f. \A s : Counts(SL!FromStorage(SL!ToStorage(s))) <=> Counts(s)
  BY DEF SL!FromStorage, SL!ToStorage, Key, Capped
<1> HIDE DEF Counts
<1>1. CASE list' \subseteq list /\ store' = store
  BY <1>a, <1>b, <1>d, <1>e, <1>1
<1>2. CASE \E r \in Request : pc[r] = "ping" /\ list' \subseteq list \cup {server[r]}
                              /\ store' = store
  BY <1>a, <1>b, <1>c, <1>d, <1>e, <1>2
<1>3. CASE list' = list /\ store'.list = {SL!ToStorage(s) : s \in list}
  BY <1>a, <1>d, <1>e, <1>f, <1>3
<1>4. CASE /\ store # NoFile /\ list' = {SL!FromStorage(t) : t \in store.list}
           /\ store' = store
  BY <1>b, <1>d, <1>e, <1>4
<1> QED BY <1>0, <1>1, <1>2, <1>3, <1>4, ListChanges

\* What announce has read comes from the list; what is verified was filed in
\* this step or was verified before, with the same counters.
SameCounters(u, v) ==
  /\ Key(u) = Key(v) /\ u.updateCount = v.updateCount
  /\ u.totalClients = v.totalClients /\ u.meta = v.meta
  /\ u.updateTime = v.updateTime

LEMMA RequestsMove ==
  ASSUME TypeInv, [Next]_vars, NEW r \in Request
  PROVE  /\ pc'[r] = "read" /\ old'[r] # NoServer =>
              \/ pc[r] = "read" /\ old'[r] = old[r]
              \/ old'[r] \in list
         /\ pc'[r] \in Verifying =>
              \/ File(r)
              \/ pc[r] \in Verifying /\ SameCounters(server'[r], server[r])
<1> DEFINE Goal ==
             /\ pc'[r] = "read" /\ old'[r] # NoServer =>
                  \/ pc[r] = "read" /\ old'[r] = old[r]
                  \/ old'[r] \in list
             /\ pc'[r] \in Verifying =>
                  \/ File(r)
                  \/ pc[r] \in Verifying /\ SameCounters(server'[r], server[r])
<1>0. RequestsOK
  BY DEF TypeInv
<1>p. /\ {"filed", "resolve", "check", "ping", "failed"} = Verifying
      /\ "over" \notin Verifying /\ "read" \notin Verifying /\ "new" \notin Verifying
  BY DEF Verifying
<1>s. \A u : SameCounters(u, u)
  BY DEF SameCounters
\* A step of somebody else.
<1>a. ASSUME pc'[r] = pc[r], old'[r] = old[r], server'[r] = server[r] PROVE Goal
  BY <1>a, <1>s
<1>b. ASSUME UNCHANGED requestVars PROVE Goal
  BY <1>a, <1>b DEF requestVars
<1>c. ASSUME NEW x \in Request \ {r}, Handler(x) \/ Verification(x) PROVE Goal
  <2>1. \E l : pc' = [pc EXCEPT ![x] = l]
    BY <1>c DEF Handler, Verification, Receive, DeleteMissing, DeleteListed, Refuse,
                File, Forget, Resolve, ResolveFails, Check, Enlist, PingFails, Fail,
                Answer, Goto
  <2>2. UNCHANGED old \/ \E o : old' = [old EXCEPT ![x] = o]
    BY <1>c DEF Handler, Verification, Receive, DeleteMissing, DeleteListed, Refuse,
                File, Forget, Resolve, ResolveFails, Check, Enlist, PingFails, Fail,
                Answer, Drop
  <2>3. \A y \in Request \ {x} : server'[y] = server[y]
    <3>1. CASE Resolve(x)
      <4>1. PICK level : server' = [server EXCEPT ![x].verifyLevel = level]
        BY <3>1 DEF Resolve
      <4> QED BY <1>0, <4>1 DEF RequestsOK
    <3>2. CASE ~Resolve(x)
      BY <1>c, <1>0, <3>2
         DEF Handler, Verification, Receive, DeleteMissing, DeleteListed, Refuse,
             File, Forget, ResolveFails, Check, Enlist, PingFails, Fail, Drop,
             RequestsOK
    <3> QED BY <3>1, <3>2
  <2> QED BY <1>0, <1>a, <2>1, <2>2, <2>3 DEF RequestsOK
<1>1. ASSUME Handler(r) PROVE Goal
  <2>1. CASE Receive(r)
    <3>1. PICK o \in list \cup {NoServer} : old' = [old EXCEPT ![r] = o]
      BY <2>1 DEF Receive, SL!Get, SL!Matching
    <3> QED BY <1>0, <1>p, <2>1, <3>1 DEF Receive, Goto, RequestsOK
  <2>2. CASE DeleteMissing(r) \/ DeleteListed(r) \/ Refuse(r)
    <3>1. pc'[r] = "over"
      BY <1>0, <2>2 DEF DeleteMissing, DeleteListed, Refuse, Answer, Goto, RequestsOK
    <3> QED BY <1>p, <3>1
  <2>3. CASE File(r)
    <3>1. pc'[r] = "filed"
      BY <1>0, <2>3 DEF File, Goto, RequestsOK
    <3> QED BY <2>3, <3>1
  <2> QED BY <1>1, <2>1, <2>2, <2>3 DEF Handler
<1>2. ASSUME Verification(r) PROVE Goal
  <2>1. pc[r] \in Verifying /\ pc'[r] # "read"
    BY <1>0, <1>2, <1>p DEF Verification, Forget, Resolve, ResolveFails, Check,
                            Enlist, PingFails, Fail, Goto, RequestsOK
  <2>2. CASE Resolve(r)
    <3>1. PICK level : server' = [server EXCEPT ![r].verifyLevel = level]
      BY <2>2 DEF Resolve
    <3>2. server[r] \in Server
      BY <1>0, <2>1, VerifiedIsServer
    <3>3. server'[r] = [server[r] EXCEPT !.verifyLevel = level]
      BY <1>0, <3>1 DEF RequestsOK
    <3>4. SameCounters(server'[r], server[r])
      BY <3>2, <3>3 DEF SameCounters, Key, Server
    <3> QED BY <2>1, <3>4
  <2>3. CASE Enlist(r) \/ Fail(r)
    <3>1. pc'[r] = "over"
      BY <1>0, <2>3 DEF Enlist, Fail, Goto, RequestsOK
    <3> QED BY <1>p, <3>1
  <2>4. CASE Forget(r) \/ ResolveFails(r) \/ Check(r) \/ PingFails(r)
    <3>1. UNCHANGED server
      BY <2>4 DEF Forget, ResolveFails, Check, PingFails
    <3> QED BY <1>s, <2>1, <3>1
  <2> QED BY <1>2, <2>2, <2>3, <2>4 DEF Verification
<1>3. ASSUME Timer PROVE Goal
  BY <1>3, <1>b DEF Timer, Purge, Sweep, Save, Publish, SaveFails
<1>4. ASSUME Boot PROVE Goal
  BY <1>4, <1>b DEF Boot
<1>5. ASSUME Crash PROVE Goal
  <2>1. pc'[r] \in {"new", "over"}
    BY <1>5 DEF Crash
  <2> QED BY <1>p, <2>1
<1>6. ASSUME Tick PROVE Goal
  BY <1>6, <1>b DEF Tick
<1>7. ASSUME UNCHANGED vars PROVE Goal
  BY <1>7, <1>b DEF vars
<1> HIDE DEF Goal
<1>8. ASSUME NEW x \in Request, Handler(x) \/ Verification(x) PROVE Goal
  <2>1. CASE x = r
    BY <1>1, <1>2, <1>8, <2>1
  <2>2. CASE x # r
    BY <1>c, <1>8, <2>2
  <2> QED BY <2>1, <2>2
<1>9. Goal
  BY <1>3, <1>4, <1>5, <1>6, <1>7, <1>8 DEF Next
<1> QED BY <1>9 DEF Goal

LEMMA NextCountedRequests == CountInv /\ [Next]_vars => CountedRequests'
<1> SUFFICES ASSUME CountInv, [Next]_vars PROVE CountedRequests'
  OBVIOUS
<1>0. TypeInv /\ RequestsOK /\ CountedList /\ CountedRequests /\ list \subseteq Server
  BY ListIsOfServers DEF CountInv, KeyInv, TypeInv
<1> DEFINE Counts(s) == /\ s.updateCount <= Cardinality(FiledFor(Key(s))')
                        /\ Capped(s)
<1>1. CountedRequests' <=>
        \A r \in Request :
          /\ pc'[r] = "read" /\ old'[r] # NoServer => \A s : s = old'[r] => Counts(s)
          /\ pc'[r] \in Verifying => \A s : s = server'[r] => Counts(s)
  <2>1. ASSUME NEW r \in Request
        PROVE  /\ Counted(old[r])' <=> \A s : s = old'[r] => Counts(s)
               /\ Counted(server[r])' <=> \A s : s = server'[r] => Counts(s)
    BY DEF Counted, Capped, FiledFor, Key
  <2> HIDE DEF Counts
  <2> QED BY <2>1 DEF CountedRequests, Verifying
<1> SUFFICES ASSUME NEW r \in Request
             PROVE  /\ pc'[r] = "read" /\ old'[r] # NoServer =>
                         \A s : s = old'[r] => Counts(s)
                    /\ pc'[r] \in Verifying => \A s : s = server'[r] => Counts(s)
  BY <1>1
<1>2. ASSUME pc'[r] = "read", old'[r] # NoServer, NEW s, s = old'[r] PROVE Counts(s)
  <2>1. s \in Server /\ Counted(s)
    <3>1. CASE pc[r] = "read" /\ old'[r] = old[r]
      BY <1>0, <1>2, <3>1 DEF CountedRequests, RequestsOK
    <3>2. CASE old'[r] \in list
      BY <1>0, <1>2, <3>2 DEF CountedList
    <3> QED BY <1>0, <1>2, <3>1, <3>2, RequestsMove
  <2> QED BY <2>1, StillCounted
<1>3. ASSUME pc'[r] \in Verifying, NEW s, s = server'[r] PROVE Counts(s)
  <2>1. CASE File(r)
    <3>1. Counted(server[r])'
      BY <2>1, FiledIsCounted
    <3> QED BY <1>3, <3>1 DEF Counted, Capped, FiledFor, Key
  <2>2. CASE pc[r] \in Verifying /\ SameCounters(server'[r], server[r])
    <3>1. PICK v : v = server[r]
      OBVIOUS
    <3>2. v \in Server /\ Counted(v) /\ SameCounters(s, v)
      BY <1>0, <1>3, <2>2, <3>1, VerifiedIsServer DEF CountedRequests
    <3>3. Counts(v)
      BY <3>2, StillCounted
    <3> QED BY <3>2, <3>3 DEF SameCounters, Capped
  <2> QED BY <1>0, <1>3, <2>1, <2>2, RequestsMove
<1> QED BY <1>2, <1>3

LEMMA NextCount == CountInv /\ [Next]_vars => CountInv'
BY NextKey, NextComplaint, FiledGrows, NextCountedList, NextCountedRequests
   DEF CountInv

\* However verifications of one server overlap, are retried, or are cut off by
\* a crash and a reload, no update is counted twice.
THEOREM UpdatesAreCountedOnce == Spec => []UpdatesNotCountedTwice
<1>1. CountInv => UpdatesNotCountedTwice
  BY DEF CountInv, CountedList, Counted, FiledFor, UpdatesNotCountedTwice
<1> QED BY <1>1, InitCount, NextCount, PTL DEF Spec

\* The average that list.json shows of a server never exceeds the best of
\* its updates, wherever the server is on its way.
THEOREM AverageStaysBelowTop == Spec => []AverageBelowTop
<1>1. ASSUME NEW s \in Server, Capped(s) PROVE AverageClients(s) <= s.meta.clients_top
  <2> DEFINE c == s.updateCount
             t == s.totalClients
             top == s.meta.clients_top
  <2>1. c \in Nat /\ t \in Nat /\ top \in Nat
    BY DEF Server, Meta
  <2>2. t <= c * top
    BY <1>1 DEF Capped
  <2>3. AverageClients(s) = IF c = 0 THEN 0 ELSE (2 * t + c) \div (2 * c)
    BY DEF AverageClients
  <2> HIDE DEF c, t, top
  <2>4. c # 0 => (2 * t + c) \div (2 * c) <= top
    BY <2>1, <2>2, RoundedQuotient
  <2>5. AverageClients(s) <= top
    BY <2>1, <2>3, <2>4
  <2> QED BY <2>5 DEF top
<1>2. ASSUME CountInv PROVE AverageBelowTop
  <2>1. list \subseteq Server /\ RequestsOK
    BY <1>2, ListIsOfServers DEF CountInv, KeyInv, TypeInv
  <2>2. \A s \in list : Capped(s)
    BY <1>2 DEF CountInv, CountedList, Counted
  <2>3. \A r \in Request :
          pc[r] \in Verifying => server[r] \in Server /\ Capped(server[r])
    BY <1>2, <2>1, VerifiedIsServer DEF CountInv, CountedRequests, Counted
  <2> QED BY <1>1, <2>1, <2>2, <2>3 DEF AverageBelowTop, Live
<1> QED BY <1>2, InitCount, NextCount, PTL DEF Spec

-----------------------------------------------------------------------------
\* Silence.  What an object says of the times its server was heard at.
Told(s, times, over) ==
  /\ s.updateTime \in times[Key(s)]
  /\ Key(s) \notin over => \A t \in times[Key(s)] : t <= s.updateTime

Times == [ServerKey -> SUBSET Nat]

HistoryOK ==
  /\ filedAt \in [Request -> Nat] /\ heard \in Times /\ saved.heard \in Times
  /\ \A k \in ServerKey : heard[k] \subseteq 0..now /\ saved.heard[k] \subseteq 0..now

\* A verification that no other announcement of its server has overtaken so
\* far is the youngest of them.
TimedRequests ==
  \A r \in Request :
    pc[r] \in Verifying =>
      /\ server[r].updateTime = filedAt[r] /\ filedAt[r] <= now
      /\ r \notin late => \A t \in heard[Key(server[r])] : t <= filedAt[r]

ToldList == \A s \in list : Told(s, heard, overtaken)

ToldStore ==
  store # NoFile =>
    \A t \in store.list : Told(SL!FromStorage(t), saved.heard, saved.overtaken)

\* Nothing is on the list of a dead program, or requested before it serves.
OnlyTheServingWork ==
  /\ phase = "down" => list = {}
  /\ phase # "serving" => \A r \in Request : pc[r] \in {"new", "over"}

SilenceInv ==
  /\ KeyInv /\ HistoryOK /\ TimedRequests /\ ToldList /\ ToldStore
  /\ OnlyTheServingWork

LEMMA InitSilence == Init /\ InitRecord => SilenceInv
<1> SUFFICES ASSUME Init, InitRecord PROVE SilenceInv
  OBVIOUS
<1>1. /\ list = {} /\ store = NoFile /\ phase = "down"
      /\ \A r \in Request : pc[r] = "new"
  BY DEF Init, SL!Init
<1>2. "new" \notin Verifying
  BY DEF Verifying
<1>3. HistoryOK
  BY DEF InitRecord, HistoryOK, Times
<1> QED BY <1>1, <1>2, <1>3, InitKey
        DEF SilenceInv, TimedRequests, ToldList, ToldStore, OnlyTheServingWork

LEMMA KeyOfServer == \A s \in Server : Key(s) \in ServerKey
BY DEF Server, Key, ServerKey

LEMMA AnnouncedNow ==
  ASSUME TypeInv, NEW r \in Request, File(r)
  PROVE  server'[r].updateTime = now
<1>1. req[r] \in Announcement /\ server'[r] = Announced(r)
  BY DEF TypeInv, RequestsOK, File
<1>2. ServerFromRequest(r, req[r].ip, req[r].port, req[r].address,
                        req[r].uptime, req[r].clients) \in Server
  BY <1>1, ServiceAssumption DEF ServerFromRequest, Server, Meta
<1> QED BY <1>1, <1>2 DEF Announced, TrackUpdate, Server, Meta

\* Who is listed by a step: the request that enlists its server, and no other.
LEMMA ListingIsEnlist ==
  ASSUME TypeInv, [Next]_vars, NEW x \in Request,
         pc[x] = "ping", pc'[x] = "over", phase' = "serving"
  PROVE  Enlist(x)
<1>0. RequestsOK
  BY DEF TypeInv
<1>a. ASSUME UNCHANGED requestVars PROVE FALSE
  BY <1>a DEF requestVars
<1>1. ASSUME NEW r \in Request, Handler(r) PROVE FALSE
  <2>1. pc[r] \in {"new", "read"} /\ \E l : pc' = [pc EXCEPT ![r] = l]
    BY <1>1 DEF Handler, Receive, DeleteMissing, DeleteListed, Refuse, File,
                Answer, Goto
  <2> QED BY <1>0, <2>1 DEF RequestsOK
<1>2. ASSUME NEW r \in Request, Verification(r) PROVE Enlist(x)
  <2>1. \E l : pc' = [pc EXCEPT ![r] = l]
    BY <1>2 DEF Verification, Forget, Resolve, ResolveFails, Check, Enlist,
                PingFails, Fail, Goto
  <2>2. x = r
    BY <1>0, <2>1 DEF RequestsOK
  <2>3. CASE Enlist(r)
    BY <2>2, <2>3
  <2>4. CASE PingFails(r)
    BY <1>0, <2>2, <2>4 DEF PingFails, Goto, RequestsOK
  <2> QED BY <1>2, <2>2, <2>3, <2>4
          DEF Verification, Forget, Resolve, ResolveFails, Check, Fail
<1>3. CASE Timer
  BY <1>3, <1>a DEF Timer, Purge, Sweep, Save, Publish, SaveFails
<1>4. CASE Boot
  BY <1>4, <1>a DEF Boot
<1>5. CASE Crash
  BY <1>5 DEF Crash, SL!Crash
<1>6. CASE Tick
  BY <1>6, <1>a DEF Tick
<1>7. CASE UNCHANGED vars
  BY <1>7, <1>a DEF vars
<1> QED BY <1>1, <1>2, <1>3, <1>4, <1>5, <1>6, <1>7 DEF Next

\* The steps that the history tells apart.
LEMMA HistorySteps ==
  ASSUME TypeInv, [Next]_vars
  PROVE  \/ \E r \in Request : Enlist(r)
         \/ Boot
         \/ Save
         \/ /\ \A r \in Request : ~Enlist(r)
            /\ list' \subseteq list /\ store' = store /\ ~Storing /\ ~Loading
<1> DEFINE Quiet == list' \subseteq list /\ store' = store /\ ~Storing /\ ~Loading
<1> SUFFICES ASSUME \A r \in Request : ~Enlist(r), ~Boot, ~Save PROVE Quiet
  OBVIOUS
<1>a. ASSUME UNCHANGED SLvars PROVE Quiet
  BY <1>a DEF SLvars, Storing, Loading
<1>1. ASSUME NEW r \in Request, Handler(r) PROVE Quiet
  <2>1. CASE DeleteListed(r)
    BY <2>1 DEF DeleteListed, SL!Remove, Storing, Loading
  <2> QED BY <1>1, <1>a, <2>1 DEF Handler, Receive, DeleteMissing, Refuse, File
<1>2. ASSUME NEW r \in Request, Verification(r) PROVE Quiet
  BY <1>2, <1>a DEF Verification, Forget, Resolve, ResolveFails, Check, PingFails,
                    Fail
<1>3. CASE Purge
  BY <1>3 DEF Purge, SL!PurgeOld, Storing, Loading
<1>4. CASE Sweep \/ Tick \/ UNCHANGED vars
  BY <1>4, <1>a DEF Sweep, Tick, vars
<1>5. CASE Publish
  BY <1>5 DEF Publish, SL!SavePublic, Storing, Loading
<1>6. CASE SaveFails
  BY <1>6 DEF SaveFails, SL!SaveStorageFails, SL!SavePublicFails, SL!Abort,
              SL!FreshMemory, SL!memory, Storing, Loading
<1>7. CASE Crash
  BY <1>7 DEF Crash, SL!Crash, SL!FreshMemory, Storing, Loading
<1> QED BY <1>1, <1>2, <1>3, <1>4, <1>5, <1>6, <1>7 DEF Next, Timer

LEMMA NextWorking ==
  ASSUME SilenceInv, [Next]_vars
  PROVE  OnlyTheServingWork'
<1>0. TypeInv /\ RequestsOK /\ OnlyTheServingWork
  BY DEF SilenceInv, KeyInv, TypeInv
<1>1. phase' = "down" => list' = {}
  <2>1. ASSUME UNCHANGED SLvars PROVE phase' = "down" => list' = {}
    BY <1>0, <2>1 DEF SLvars, OnlyTheServingWork
  <2>2. ASSUME NEW r \in Request, Handler(r) \/ Verification(r)
        PROVE  phase' = "down" => list' = {}
    BY <2>1, <2>2 DEF Handler, Verification, Receive, DeleteMissing, DeleteListed,
         Refuse, File, Forget, Resolve, ResolveFails, Check, Enlist, PingFails, Fail,
         SL!Remove, SL!Update, SL!Unlocked
  <2>3. CASE Timer
    BY <1>0, <2>1, <2>3 DEF Timer, Purge, Sweep, Save, Publish, SaveFails, SL!PurgeOld,
         SL!Unlocked, SL!SaveStorage, SL!SavePublic, SL!SaveStorageFails,
         SL!SavePublicFails, SL!Abort, SL!FreshMemory
  <2>4. CASE Boot \/ Crash
    BY <2>4 DEF Boot, Crash, SL!Load, SL!Crash, SL!FreshMemory
  <2>5. CASE Tick \/ UNCHANGED vars
    BY <2>1, <2>5 DEF Tick, vars
  <2> QED BY <2>2, <2>3, <2>4, <2>5 DEF Next
<1>2. ASSUME phase' # "serving", NEW r \in Request PROVE pc'[r] \in {"new", "over"}
  <2>1. CASE phase = "serving"
    <3>1. ASSUME UNCHANGED phase PROVE FALSE
      BY <1>2, <2>1, <3>1
    <3>2. ASSUME NEW x \in Request, Handler(x) \/ Verification(x) PROVE FALSE
      BY <3>1, <3>2 DEF Handler, Verification, Receive, DeleteMissing, DeleteListed,
           Refuse, File, Forget, Resolve, ResolveFails, Check, Enlist, PingFails,
           Fail, SL!Remove, SL!Update, SLvars
    <3>3. CASE Timer
      BY <1>2, <2>1, <3>1, <3>3 DEF Timer, Purge, Sweep, Save, Publish, SaveFails,
           SL!PurgeOld, SL!SaveStorage, SL!SavePublic, SL!SaveStorageFails,
           SL!SavePublicFails, SL!Abort, SLvars
    <3>4. CASE Boot
      BY <2>1, <3>4 DEF Boot, SL!Load
    <3>5. CASE Crash
      BY <1>0, <3>5 DEF Crash, RequestsOK
    <3>6. CASE Tick \/ UNCHANGED vars
      BY <3>1, <3>6 DEF Tick, vars, SLvars
    <3> QED BY <3>2, <3>3, <3>4, <3>5, <3>6 DEF Next
  <2>2. CASE phase # "serving"
    <3>1. pc[r] \in {"new", "over"} /\ \A x \in Request : pc[x] \in {"new", "over"}
      BY <1>0, <2>2 DEF OnlyTheServingWork
    <3>2. ASSUME NEW x \in Request, Handler(x) PROVE FALSE
      BY <2>2, <3>1, <3>2 DEF Handler, Receive, DeleteMissing, DeleteListed, Refuse,
           File, SL!Unlocked
    <3>3. ASSUME NEW x \in Request, Verification(x) PROVE FALSE
      BY <3>1, <3>3 DEF Verification, Forget, Resolve, ResolveFails, Check, Enlist,
           PingFails, Fail
    <3>4. CASE Timer \/ Boot \/ Tick \/ UNCHANGED vars
      BY <3>1, <3>4 DEF Timer, Purge, Sweep, Save, Publish, SaveFails, Boot, Tick,
           vars, requestVars
    <3>5. CASE Crash
      BY <1>0, <3>1, <3>5 DEF Crash, RequestsOK
    <3> QED BY <3>2, <3>3, <3>4, <3>5 DEF Next
  <2> QED BY <2>1, <2>2
<1> QED BY <1>1, <1>2 DEF OnlyTheServingWork

LEMMA NowMoves ==
  ASSUME TypeInv, [Next]_vars
  PROVE  now' = now \/ now' = now + 1
BY TrackerStep DEF TP!Next, TP!Put, TP!Remove, TP!Cleanup, TP!Tick, TP!vars, Forgotten

LEMMA NextHistory ==
  ASSUME SilenceInv, [Next]_vars, Record, now <= now', now \in Nat, now' \in Nat
  PROVE  HistoryOK'
<1>0. HistoryOK /\ TimedRequests
  BY DEF SilenceInv
<1>1. filedAt' \in [Request -> Nat]
  BY <1>0 DEF Record, HistoryOK
<1>2. \A k \in ServerKey : \A r \in Listing(k) : filedAt[r] \in 0..now
  BY <1>0 DEF Listing, Verifying, HistoryOK, TimedRequests
<1>3. ASSUME NEW k \in ServerKey PROVE heard'[k] \subseteq 0..now'
  <2>1. heard'[k] \subseteq saved.heard[k] \cup heard[k] \cup {filedAt[r] : r \in Listing(k)}
    BY DEF Record
  <2>2. saved.heard[k] \subseteq 0..now /\ heard[k] \subseteq 0..now
    BY <1>0 DEF HistoryOK
  <2> QED BY <1>2, <2>1, <2>2
<1>4. heard' \in Times
  <2>1. heard' = [k \in ServerKey |-> heard'[k]]
    BY DEF Record
  <2>2. \A k \in ServerKey : heard'[k] \in SUBSET Nat
    BY <1>3
  <2> QED BY <2>1, <2>2 DEF Times
<1>5. saved'.heard \in Times /\ \A k \in ServerKey : saved'.heard[k] \subseteq 0..now'
  BY <1>0 DEF Record, HistoryOK
<1> QED BY <1>1, <1>3, <1>4, <1>5 DEF HistoryOK

LEMMA NextTimed ==
  ASSUME SilenceInv, [Next]_vars, Record, HistoryOK',
         now <= now', now \in Nat, now' \in Nat
  PROVE  TimedRequests'
<1>0. /\ TypeInv /\ RequestsOK /\ HistoryOK /\ TimedRequests /\ OnlyTheServingWork
      /\ RequestsOK'
  BY NextService DEF SilenceInv, KeyInv, TypeInv
<1> SUFFICES ASSUME NEW r \in Request, pc'[r] \in Verifying
             PROVE  /\ server'[r].updateTime = filedAt'[r] /\ filedAt'[r] <= now'
                    /\ r \notin late' =>
                         \A t \in heard'[Key(server'[r])] : t <= filedAt'[r]
  BY DEF TimedRequests, Key
<1>1. server'[r] \in Server /\ Key(server'[r]) \in ServerKey
  <2>1. server'[r] \in Server
    BY <1>0 DEF RequestsOK
  <2> QED BY <2>1, KeyOfServer
<1>2. CASE File(r)
  <2>1. Filing(r) /\ now' = now
    BY <1>0, <1>2 DEF File, Filing, Goto, RequestsOK, ETvars
  <2>2. filedAt'[r] = now
    BY <2>1 DEF Record
  <2>3. server'[r].updateTime = now
    BY <1>0, <1>2, AnnouncedNow
  <2>4. heard'[Key(server'[r])] \subseteq 0..now
    BY <1>1, <2>1 DEF HistoryOK
  <2> QED BY <2>1, <2>2, <2>3, <2>4
<1>3. CASE pc[r] \in Verifying /\ SameCounters(server'[r], server[r])
  <2> DEFINE k == Key(server[r])
  <2>1. k = Key(server'[r]) /\ server'[r].updateTime = server[r].updateTime
    BY <1>3 DEF SameCounters
  <2>2. filedAt'[r] = filedAt[r]
    BY <1>3 DEF Record, Filing, Verifying
  <2>3. server[r].updateTime = filedAt[r] /\ filedAt[r] <= now /\ filedAt[r] \in Nat
    BY <1>0, <1>3 DEF TimedRequests, HistoryOK
  <2>4. ASSUME r \notin late' PROVE \A t \in heard'[k] : t <= filedAt[r]
    <3>1. r \notin late /\ Listing(k) = {}
      BY <1>3, <2>4 DEF Record
    <3>2. ~Loading
      BY <1>0, <1>3 DEF Loading, OnlyTheServingWork, Verifying
    <3>3. heard'[k] \subseteq heard[k]
      BY <1>1, <2>1, <3>1, <3>2 DEF Record
    <3> QED BY <1>0, <1>3, <3>1, <3>3 DEF TimedRequests
  <2> HIDE DEF k
  <2> QED BY <2>1, <2>2, <2>3, <2>4
<1> QED BY <1>0, <1>2, <1>3, RequestsMove

LEMMA NextTold ==
  ASSUME SilenceInv, LP!UniqueKey', [Next]_vars, Record
  PROVE  ToldList' /\ ToldStore'
<1>0. /\ TypeInv /\ RequestsOK /\ HistoryOK /\ TimedRequests /\ ToldList /\ ToldStore
      /\ OnlyTheServingWork /\ list \subseteq Server
  BY ListIsOfServers DEF SilenceInv, KeyInv, TypeInv
<1>v. list' \subseteq Server
  <2>1. TypeInv'
    BY NextService DEF SilenceInv, KeyInv
  <2> QED BY <2>1, SameRecord DEF TypeInv, LP!TypeInv, LP!TypeOK
<1>l. \A s \in list' : Key(s) \in ServerKey /\ Key(s) \in Listed'
  BY <1>v, KeyOfServer DEF Listed, Key
<1>t. ToldList' <=> \A s \in list' : Told(s, heard', overtaken')
  BY DEF ToldList, Told, Key
<1>u. ToldStore' <=> (store' # NoFile =>
        \A t \in store'.list : Told(SL!FromStorage(t), saved'.heard, saved'.overtaken))
  BY DEF ToldStore, Told, Key, SL!FromStorage
\* What keeps an entry told: nobody listed for its key.
<1>k. ASSUME NEW s \in list', s \in list, Listing(Key(s)) = {}, ~Loading
      PROVE  Told(s, heard', overtaken')
  <2>1. heard'[Key(s)] = heard[Key(s)]
    BY <1>l, <1>k DEF Record
  <2>2. Key(s) \in overtaken' <=> Key(s) \in overtaken
    BY <1>l, <1>k DEF Record
  <2> QED BY <1>0, <1>k, <2>1, <2>2 DEF ToldList, Told
<1>n. ASSUME \A r \in Request : ~Enlist(r), NEW k PROVE Listing(k) = {}
  BY <1>0, <1>n, ListingIsEnlist DEF Listing
<1>s. ASSUME ~Storing, store' = store PROVE ToldStore'
  BY <1>0, <1>u, <1>s DEF Record, ToldStore
<1>1. CASE /\ \A r \in Request : ~Enlist(r)
           /\ list' \subseteq list /\ store' = store /\ ~Storing /\ ~Loading
  BY <1>1, <1>k, <1>n, <1>s, <1>t
<1>2. ASSUME NEW r \in Request, Enlist(r) PROVE ToldList' /\ ToldStore'
  <2> DEFINE k == Key(server[r])
  <2>1. /\ pc[r] = "ping" /\ pc' = [pc EXCEPT ![r] = "over"] /\ phase' = "serving"
        /\ phase = "serving" /\ store' = store /\ saver' = saver
        /\ server[r] \in list' /\ list' \subseteq list \cup {server[r]}
    BY <1>2 DEF Enlist, Goto, SL!Update, SL!Unlocked
  <2>2. ~Loading /\ ~Storing
    BY <2>1 DEF Loading, Storing
  <2>3. \A x \in Request \ {r} : pc'[x] = pc[x]
    BY <1>0, <2>1 DEF RequestsOK
  <2>4. r \in Listing(k) /\ \A j : Listing(j) \subseteq {r}
    BY <1>0, <2>1, <2>3 DEF Listing, RequestsOK
  <2>5. \A j : j # k => Listing(j) = {}
    BY <2>4 DEF Listing
  <2>6. Listing(k) = {r}
    BY <2>4
  <2>7. Told(server[r], heard', overtaken')
    <3>1. k \in ServerKey /\ k \in Listed'
      BY <1>l, <2>1
    <3>2. heard'[k] = heard[k] \cup {filedAt[r]}
      BY <2>2, <2>6, <3>1 DEF Record
    <3>3. k \in overtaken' <=> r \in late
      BY <2>2, <2>6, <3>1 DEF Record
    <3>4. /\ server[r].updateTime = filedAt[r] /\ filedAt[r] \in Nat
          /\ r \notin late => \A t \in heard[k] : t <= filedAt[r]
      BY <1>0, <2>1 DEF TimedRequests, Verifying, HistoryOK
    <3> QED BY <3>2, <3>3, <3>4 DEF Told
  <2>8. ASSUME NEW s \in list', s # server[r] PROVE Told(s, heard', overtaken')
    <3>1. Key(s) # k
      BY <2>1, <2>8 DEF LP!UniqueKey, LP!UniqueIn, LP!Key, Key
    <3> QED BY <1>k, <2>1, <2>2, <2>5, <2>8, <3>1
  <2> QED BY <1>s, <1>t, <2>1, <2>2, <2>7, <2>8
<1>3. CASE Boot
  <2>1. Loading /\ ~Storing /\ store' = store
    BY <1>3 DEF Boot, SL!Load, Loading, Storing
  <2>2. CASE store = NoFile
    BY <1>0, <1>3, <1>s, <1>t, <2>1, <2>2
       DEF Boot, SL!Load, SL!memory, Loading, OnlyTheServingWork
  <2>3. CASE store # NoFile
    <3>1. list' = {SL!FromStorage(t) : t \in store.list}
      BY <1>3, <2>3 DEF Boot, SL!Load
    <3>2. ASSUME NEW s \in list' PROVE Told(s, heard', overtaken')
      <4>1. Told(s, saved.heard, saved.overtaken)
        BY <1>0, <2>3, <3>1 DEF ToldStore
      <4>2. heard'[Key(s)] = saved.heard[Key(s)]
        BY <1>l, <2>1 DEF Record
      <4>3. Key(s) \in overtaken' <=> Key(s) \in saved.overtaken
        BY <1>l, <2>1 DEF Record
      <4> QED BY <4>1, <4>2, <4>3 DEF Told
    <3> QED BY <1>s, <1>t, <2>1, <3>2
  <2> QED BY <2>2, <2>3
<1>4. CASE Save
  <2>1. list' = list /\ phase' = phase /\ pc' = pc
    BY <1>4 DEF Save, SL!SaveStorage, SL!memory, requestVars
  <2>2. ToldList'
    BY <1>k, <1>t, <2>1 DEF Listing, Loading
  <2>3. CASE ~modified
    <3>1. store' = store /\ ~Storing
      BY <1>4, <2>3 DEF Save, SL!SaveStorage, Storing
    <3> QED BY <1>s, <2>2, <3>1
  <2>4. CASE modified
    <3>1. store'.list = {SL!ToStorage(s) : s \in list} /\ Storing
      BY <1>4, <2>4 DEF Save, SL!SaveStorage, SL!Stored, Storing
    <3>2. saved'.heard = heard /\ saved'.overtaken = overtaken
      BY <3>1 DEF Record
    <3>3. \A s : Told(SL!FromStorage(SL!ToStorage(s)), heard, overtaken)
                   <=> Told(s, heard, overtaken)
      BY DEF SL!FromStorage, SL!ToStorage, Told, Key
    <3> QED BY <1>0, <1>u, <2>2, <3>1, <3>2, <3>3 DEF ToldList
  <2> QED BY <2>3, <2>4
<1> QED BY <1>0, <1>1, <1>2, <1>3, <1>4, HistorySteps

LEMMA NextSilence ==
  ASSUME SilenceInv, LP!UniqueKey', [Next /\ Record]_<<vars, silenceVars>>
  PROVE  SilenceInv'
<1>0. /\ TypeInv /\ RequestsOK /\ HistoryOK /\ TimedRequests /\ ToldList /\ ToldStore
      /\ OnlyTheServingWork /\ now \in Nat /\ list \subseteq Server
  BY ListIsOfServers DEF SilenceInv, KeyInv, TypeInv, ET!TypeOK
<1>1. CASE UNCHANGED <<vars, silenceVars>>
  <2>1. [Next]_vars
    BY <1>1
  <2>2. KeyInv' /\ OnlyTheServingWork'
    BY <2>1, NextKey, NextWorking DEF SilenceInv
  <2> QED BY <1>0, <1>1, <2>2
          DEF vars, SLvars, ETvars, timerVars, requestVars, silenceVars, SilenceInv,
              HistoryOK, TimedRequests, ToldList, ToldStore, Told, Key
<1>2. CASE Next /\ Record
  <2>0. [Next]_vars /\ Record
    BY <1>2
  <2>1. KeyInv' /\ OnlyTheServingWork' /\ TypeInv' /\ RequestsOK'
    BY <2>0, NextKey, NextWorking DEF SilenceInv, KeyInv, TypeInv
  <2>2. now' \in Nat /\ now <= now'
    <3>1. now' \in Nat
      BY <2>1 DEF TypeInv, ET!TypeOK
    <3>2. now' = now \/ now' = now + 1
      BY <1>0, <2>0, NowMoves
    <3>3. now \in Nat
      BY <1>0
    <3> QED BY <3>1, <3>2, <3>3
  <2>3. HistoryOK'
    BY <1>0, <2>0, <2>2, NextHistory
  <2>4. TimedRequests'
    BY <1>0, <2>0, <2>2, <2>3, NextTimed
  <2>5. ToldList' /\ ToldStore'
    BY <2>0, NextTold
  <2> QED BY <2>1, <2>3, <2>4, <2>5 DEF SilenceInv
<1> QED BY <1>1, <1>2

\* A listed server leaves a running program's list by a delete of its own or
\* by silence: unless verifications of it finished in the wrong order, every
\* announcement it has on the list was made longer than PurgeTime ago.
THEOREM OnlyTheSilentLeave == SilenceSpec => OnlySilentOrDeleted
<1> DEFINE Leaves(k) ==
             phase' = "serving" =>
               \/ MayBePurged(k)
               \/ \E r \in Request : /\ pc[r] = "read" /\ pc'[r] = "over"
                                     /\ req[r].action = "delete"
                                     /\ Key(req[r]) = k
           Step == [Next /\ Record]_<<vars, silenceVars>>
<1>1. Step => [Next]_vars
  OBVIOUS
<1>2. SilenceSpec => Spec
  BY <1>1, PTL DEF SilenceSpec, Spec
<1>3. SilenceSpec => []SilenceInv
  <2>1. SilenceSpec => []LP!UniqueKey
    BY <1>2, ProgramKeepsListPromises, PTL
  <2>2. SilenceInv /\ LP!UniqueKey' /\ Step => SilenceInv'
    BY NextSilence
  <2> QED BY <2>1, <2>2, InitSilence, PTL DEF SilenceSpec
<1>4. SilenceInv /\ Step => [\A k \in Listed \ Listed' : Leaves(k)]_<<vars, silenceVars>>
  <2> SUFFICES ASSUME SilenceInv, Step, NEW k \in Listed \ Listed', phase' = "serving",
                      ~\E r \in Request : /\ pc[r] = "read" /\ pc'[r] = "over"
                                          /\ req[r].action = "delete"
                                          /\ Key(req[r]) = k
               PROVE  MayBePurged(k)
    OBVIOUS
  <2>1. PICK s \in list : Key(s) = k
    BY DEF Listed
  <2>2. \A t \in list' : Key(t) # Key(s)
    BY <2>1 DEF Listed, Key
  <2>3. s.updateTime + PurgeTime < now
    BY <1>1, <2>1, <2>2, KeyLeaves DEF SilenceInv
  <2>4. Told(s, heard, overtaken) /\ s \in Server /\ HistoryOK
    BY ListIsOfServers DEF SilenceInv, KeyInv, ToldList
  <2>5. k \in ServerKey /\ s.updateTime \in Nat /\ PurgeTime \in Nat
    BY <2>1, <2>4, KeyOfServer, ServiceAssumption DEF Server
  <2>6. heard[k] \subseteq 0..now /\ now \in Nat
    BY <2>4, <2>5 DEF HistoryOK, SilenceInv, KeyInv, TypeInv, ET!TypeOK
  <2> QED BY <2>1, <2>3, <2>4, <2>5, <2>6 DEF Told, MayBePurged, LongAgo
<1> QED BY <1>3, <1>4, PTL DEF SilenceSpec, OnlySilentOrDeleted
=============================================================================
