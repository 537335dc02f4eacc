-------------------------- MODULE ServerListProofs --------------------------
(***************************************************************************)
(* Theorems about ServerList for every set of addresses, submitted objects *)
(* and purge cutoffs.                                                      *)
(***************************************************************************)
EXTENDS ServerList, FiniteSetTheorems, FunctionTheorems, TLAPS

-----------------------------------------------------------------------------
\* Data: what storing and reloading does to an object.

\* Reading a stored array back gives a Server object of the same key, and
\* storing that object again gives the array back: nothing drifts over any
\* number of restarts.
LEMMA ReloadedServer ==
  ASSUME NEW t \in StoredServer
  PROVE  /\ FromStorage(t) \in Server
         /\ ToStorage(FromStorage(t)) = t
         /\ Key(FromStorage(t)) = <<t[1], t[2]>>
BY DEF StoredServer, FromStorage, ToStorage, Server, Key

\* A stored Server is a well-formed array under the same key, and reading it
\* back shows the public the same server.
LEMMA StoredServerType ==
  ASSUME NEW s \in Server
  PROVE  /\ ToStorage(s) \in StoredServer
         /\ <<ToStorage(s)[1], ToStorage(s)[2]>> = Key(s)
         /\ ToListJSON(FromStorage(ToStorage(s))) = ToListJSON(s)
BY DEF StoredServer, FromStorage, ToStorage, Server, Key, ToListJSON, AverageClients

\* What the public sees of a server is a PublicServer.
LEMMA PublicServerType ==
  ASSUME NEW s \in Server
  PROVE  ToListJSON(s) \in PublicServer
<1>1. AverageClients(s) \in Nat
  BY DEF AverageClients, Server
<1> QED BY <1>1 DEF ToListJSON, PublicServer, Server

-----------------------------------------------------------------------------
\* Finite lists.

\* A list of servers mapped entry by entry has at most as many entries.
LEMMA MappedList ==
  ASSUME NEW S, IsFiniteSet(S), NEW f, NEW T, T = {f[x] : x \in S}
  PROVE  IsFiniteSet(T) /\ Cardinality(T) <= Cardinality(S)
<1> DEFINE g == [x \in S |-> f[x]]
<1>1. g \in Surjection(S, T)
  BY DEF Surjection
<1> QED BY <1>1, FS_Surjection

\* An injective mapping keeps the number of entries.
LEMMA MappedListInjective ==
  ASSUME NEW S, IsFiniteSet(S), NEW f, NEW T, T = {f[x] : x \in S},
         \A x, y \in S : f[x] = f[y] => x = y
  PROVE  IsFiniteSet(T) /\ Cardinality(T) = Cardinality(S)
<1> DEFINE g == [x \in S |-> f[x]]
<1>1. g \in Bijection(S, T)
  BY DEF Bijection, Injection, Surjection, IsInjective
<1>2. ExistsBijection(S, T)
  BY <1>1 DEF ExistsBijection
<1> QED BY <1>2, FS_Bijection

\* A finite list of servers has finitely many clients.
LEMMA ClientsFinite ==
  ASSUME NEW L \in SUBSET Server, IsFiniteSet(L)
  PROVE  IsFiniteSet(ClientsOf(L))
<1> DEFINE f == [s \in L |-> {s} \X (1..s.meta.clients)]
           T == {f[s] : s \in L}
<1>1. IsFiniteSet(T)
  <2> HIDE DEF f
  <2> QED BY MappedList
<1>2. \A s \in L : IsFiniteSet(f[s])
  <2> TAKE s \in L
  <2>1. s.meta.clients \in Nat
    BY DEF Server, Meta
  <2>2. IsFiniteSet(1..s.meta.clients)
    BY <2>1, FS_Interval
  <2>3. IsFiniteSet({s})
    BY FS_Singleton
  <2>4. IsFiniteSet({s} \X (1..s.meta.clients))
    BY <2>2, <2>3, FS_Product
  <2> QED BY <2>4
<1>3. IsFiniteSet(UNION T)
  BY <1>1, <1>2, FS_UNION
<1>4. T = {{s} \X (1..s.meta.clients) : s \in L}
  OBVIOUS
<1> QED BY <1>3, <1>4 DEF ClientsOf

LEMMA ClientsType ==
  ASSUME NEW L \in SUBSET Server, IsFiniteSet(L)
  PROVE  Clients(L) \in Nat
BY ClientsFinite, FS_CardinalityType DEF Clients

-----------------------------------------------------------------------------
\* Type correctness.  A reload makes the list finite because the stored one
\* was, so the invariant has to speak of the store too.
FiniteStore == store # NoFile => IsFiniteSet(store.list)

TypeInv == TypeOK /\ FiniteStore

\* The entries of a store file and of the list it is reloaded as.
LEMMA StoredList ==
  ASSUME NEW L \in SUBSET Server, IsFiniteSet(L)
  PROVE  Stored(L) \in SUBSET StoredServer /\ IsFiniteSet(Stored(L))
<1> DEFINE f == [s \in L |-> ToStorage(s)]
<1>1. Stored(L) = {f[s] : s \in L}
  BY DEF Stored
<1>2. IsFiniteSet(Stored(L))
  <2> HIDE DEF f
  <2> QED BY <1>1, MappedList
<1> QED BY <1>2, StoredServerType DEF Stored

LEMMA ReloadedList ==
  ASSUME NEW T \in SUBSET StoredServer, IsFiniteSet(T)
  PROVE  LET L == {FromStorage(t) : t \in T}
         IN  L \in SUBSET Server /\ IsFiniteSet(L)
<1> DEFINE f == [t \in T |-> FromStorage(t)]
           L == {FromStorage(t) : t \in T}
<1>1. L = {f[t] : t \in T}
  OBVIOUS
<1>2. IsFiniteSet(L)
  <2> HIDE DEF f, L
  <2> QED BY <1>1, MappedList
<1> QED BY <1>2, ReloadedServer

LEMMA InitTypeInv == Init => TypeInv
BY FS_EmptySet DEF Init, TypeInv, TypeOK, FiniteStore

\* What a restart leaves in memory has the right types.
LEMMA FreshMemoryType ==
  ASSUME FreshMemory
  PROVE  /\ list' \in SUBSET Server /\ IsFiniteSet(list')
         /\ modified' \in BOOLEAN /\ maxServers' \in Nat /\ maxClients' \in Nat
         /\ saver' \in {"idle", "public"}
BY FS_EmptySet DEF FreshMemory

LEMMA RaisePeaksType ==
  ASSUME TypeInv, RaisePeaks
  PROVE  /\ maxServers' \in Nat /\ maxClients' \in Nat
         /\ Cardinality(list) \in Nat /\ Clients(list) \in Nat
<1>1. Cardinality(list) \in Nat
  BY FS_CardinalityType DEF TypeInv, TypeOK
<1>2. Clients(list) \in Nat
  BY ClientsType DEF TypeInv, TypeOK
<1> QED BY <1>1, <1>2 DEF TypeInv, TypeOK, RaisePeaks, Larger

LEMMA NextTypeInv == TypeInv /\ [Next]_vars => TypeInv'
<1> SUFFICES ASSUME TypeInv, [Next]_vars PROVE TypeInv'
  OBVIOUS
<1> USE DEF TypeInv, FiniteStore
<1>1. ASSUME NEW s \in Submitted, Update(s) PROVE TypeInv'
  <2>1. s \in Server
    BY <1>1, SubmittedAssumption
  <2>2. \A old : IsFiniteSet((list \ {old}) \cup {s})
    BY FS_RemoveElement, FS_AddElement DEF TypeOK
  <2>3. IsFiniteSet(list \cup {s})
    BY FS_AddElement DEF TypeOK
  <2>4. list' \in SUBSET Server /\ IsFiniteSet(list')
    BY <1>1, <2>1, <2>2, <2>3 DEF TypeOK, Update
  <2> QED BY <1>1, <2>4 DEF TypeOK, Update
<1>2. ASSUME NEW s \in list \cup Submitted, Remove(s) PROVE TypeInv'
  <2>1. IsFiniteSet(list \ {s})
    BY FS_RemoveElement DEF TypeOK
  <2> QED BY <1>2, <2>1 DEF TypeOK, Remove
<1>3. ASSUME NEW cutoff \in Cutoffs, PurgeOld(cutoff) PROVE TypeInv'
  <2>1. list' \in SUBSET list
    BY <1>3 DEF PurgeOld
  <2>2. IsFiniteSet(list')
    BY <2>1, FS_Subset DEF TypeOK
  <2> QED BY <1>3, <2>1, <2>2 DEF TypeOK, PurgeOld
<1>4. CASE SaveStorage
  <2>1. Stored(list) \in SUBSET StoredServer /\ IsFiniteSet(Stored(list))
    BY StoredList DEF TypeOK
  <2>2. store' \in StoreFile \cup {NoFile}
    BY <1>4, <2>1 DEF TypeOK, SaveStorage, StoreFile
  <2>3. FiniteStore'
    BY <1>4, <2>1 DEF TypeOK, SaveStorage
  <2> QED BY <1>4, <2>2, <2>3 DEF TypeOK, SaveStorage, memory
<1>5. CASE SaveStorageFails
  <2>1. CASE phase = "boot" /\ phase' = "down" /\ FreshMemory
    BY <1>5, <2>1, FreshMemoryType DEF TypeOK, SaveStorageFails
  <2>2. CASE phase = "serving" /\ UNCHANGED <<memory, phase>> /\ saver' = "idle"
    BY <1>5, <2>2 DEF TypeOK, SaveStorageFails, memory
  <2> QED BY <1>5, <2>1, <2>2 DEF SaveStorageFails, Abort
<1>6. CASE SavePublic
  <2>1. CASE PublicNeeded
    <3>1. maxServers' \in Nat /\ maxClients' \in Nat
          /\ Cardinality(list) \in Nat /\ Clients(list) \in Nat
      BY <1>6, <2>1, RaisePeaksType DEF SavePublic
    <3>2. Shown(list) \in SUBSET PublicServer
      BY PublicServerType DEF TypeOK, Shown
    <3>3. public' \in PublicFile
      BY <1>6, <2>1, <3>1, <3>2 DEF SavePublic, WritePublic, PublicFile
    <3> QED BY <1>6, <3>1, <3>3 DEF TypeOK, SavePublic
  <2>2. CASE ~PublicNeeded
    BY <1>6, <2>2 DEF TypeOK, SavePublic
  <2> QED BY <2>1, <2>2
<1>7. CASE SavePublicFails
  <2>1. CASE phase = "boot" /\ phase' = "down" /\ FreshMemory
    BY <1>7, <2>1, FreshMemoryType DEF TypeOK, SavePublicFails
  <2>2. CASE /\ phase = "serving" /\ RaisePeaks
             /\ saver' = "idle"
             /\ UNCHANGED <<list, modified, phase>>
    BY <1>7, <2>2, RaisePeaksType DEF TypeOK, SavePublicFails
  <2> QED BY <1>7, <2>1, <2>2 DEF SavePublicFails
<1>8. CASE Load
  <2>1. CASE store = NoFile
    BY <1>8, <2>1 DEF TypeOK, Load, memory
  <2>2. CASE store # NoFile
    <3>1. store.list \in SUBSET StoredServer
          /\ store.maxServers \in Nat /\ store.maxClients \in Nat
      BY <2>2 DEF TypeOK, StoreFile
    <3>2. list' \in SUBSET Server /\ IsFiniteSet(list')
      BY <1>8, <2>2, <3>1, ReloadedList DEF Load
    <3> QED BY <1>8, <2>2, <3>1, <3>2 DEF TypeOK, Load
  <2> QED BY <2>1, <2>2
<1>9. CASE Crash
  BY <1>9, FreshMemoryType DEF TypeOK, Crash
<1>10. CASE LosePublic
  BY <1>10 DEF TypeOK, LosePublic, memory
<1>11. CASE UNCHANGED vars
  BY <1>11 DEF TypeOK, vars, memory
<1> QED BY <1>1, <1>2, <1>3, <1>4, <1>5, <1>6, <1>7, <1>8, <1>9, <1>10, <1>11
        DEF Next

\* Every variable keeps its Go type and the files their layout, through any
\* sequence of operations, failed saves, crashes and reloads.
THEOREM TypeCorrect == Spec => []TypeOK
<1>1. TypeInv => TypeOK
  BY DEF TypeInv
<1> QED BY <1>1, InitTypeInv, NextTypeInv, PTL DEF Spec

-----------------------------------------------------------------------------
\* The inductive invariant.  A reload takes everything from the store, so
\* each promise about memory has a counterpart about store.json.

EntryKey(t) == <<t[1], t[2]>>

UniqueStored ==
  store # NoFile =>
    \A t, u \in store.list : EntryKey(t) = EntryKey(u) => t = u

\* Where the lifecycle can be: Save only runs in a live process, and a
\* process that does not serve yet has everything still to save.
LifecycleInv ==
  /\ saver = "public" => phase # "down"
  /\ phase # "serving" => modified

\* Between its two files Save has already stored the list.
HalfSaved ==
  saver = "public" =>
    /\ store # NoFile /\ store.list = Stored(list)
    /\ modified => /\ store.maxServers = maxServers
                   /\ store.maxClients = maxClients

\* The list a reload brings back, and the maxima that publishing it sets.
Reloaded == {FromStorage(t) : t \in store.list}

RecoveredServers == Larger(Cardinality(Reloaded), store.maxServers)
RecoveredClients == Larger(Clients(Reloaded), store.maxClients)

\* The published maxima can be recovered from the store and from memory.
PeakInv ==
  /\ public # NoFile =>
       /\ store # NoFile
       /\ public.maxServers <= RecoveredServers
       /\ public.maxClients <= RecoveredClients
  /\ public # NoFile /\ phase = "boot" =>
       /\ public.maxServers <= Larger(Cardinality(list), maxServers)
       /\ public.maxClients <= Larger(Clients(list), maxClients)
  /\ public # NoFile /\ phase = "serving" =>
       public.maxServers <= maxServers /\ public.maxClients <= maxClients
  /\ ~modified => maxServers = RecoveredServers /\ maxClients = RecoveredClients

UniqueInv == TypeInv /\ UniqueKey /\ UniqueStored

SavedInv == UniqueInv /\ LifecycleInv /\ HalfSaved /\ CleanMeansSaved

IInv == SavedInv /\ PeakInv

-----------------------------------------------------------------------------
\* One entry per key.

\* Storing and reloading keep keys apart.
LEMMA StoredUnique ==
  ASSUME NEW L \in SUBSET Server, UniqueIn(L)
  PROVE  \A t, u \in Stored(L) : EntryKey(t) = EntryKey(u) => t = u
<1> SUFFICES ASSUME NEW s1 \in L, NEW s2 \in L,
                    EntryKey(ToStorage(s1)) = EntryKey(ToStorage(s2))
             PROVE  ToStorage(s1) = ToStorage(s2)
  BY DEF Stored
<1>1. Key(s1) = Key(s2)
  BY StoredServerType DEF EntryKey
<1> QED BY <1>1 DEF UniqueIn

LEMMA ReloadedUnique ==
  ASSUME NEW T \in SUBSET StoredServer,
         \A t, u \in T : EntryKey(t) = EntryKey(u) => t = u
  PROVE  UniqueIn({FromStorage(t) : t \in T})
<1> SUFFICES ASSUME NEW t1 \in T, NEW t2 \in T,
                    Key(FromStorage(t1)) = Key(FromStorage(t2))
             PROVE  FromStorage(t1) = FromStorage(t2)
  BY DEF UniqueIn
<1>1. EntryKey(t1) = EntryKey(t2)
  BY ReloadedServer DEF EntryKey
<1> QED BY <1>1

\* Replacing the entry of a key, or adding one for a key without entry.
LEMMA PutUnique ==
  ASSUME NEW L \in SUBSET Server, UniqueIn(L), NEW s \in Server,
         NEW old \in L, Key(old) = Key(s)
  PROVE  UniqueIn((L \ {old}) \cup {s})
<1>1. \A t \in L \ {old} : Key(t) # Key(s)
  BY DEF UniqueIn
<1> QED BY <1>1 DEF UniqueIn

LEMMA AddUnique ==
  ASSUME NEW L \in SUBSET Server, UniqueIn(L), NEW s \in Server,
         \A t \in L : Key(t) # Key(s)
  PROVE  UniqueIn(L \cup {s})
BY DEF UniqueIn

LEMMA InitUnique == Init => UniqueInv
BY InitTypeInv DEF Init, UniqueInv, UniqueKey, UniqueIn, UniqueStored

LEMMA NextUnique == UniqueInv /\ [Next]_vars => UniqueInv'
<1> SUFFICES ASSUME UniqueInv, [Next]_vars PROVE UniqueInv'
  OBVIOUS
<1> USE DEF UniqueInv, UniqueKey
<1>0. TypeInv' /\ list \in SUBSET Server
  BY NextTypeInv DEF TypeInv, TypeOK
<1>a. ASSUME list' \subseteq list, store' = store PROVE UniqueInv'
  BY <1>0, <1>a DEF UniqueIn, UniqueStored
<1>b. ASSUME FreshMemory, store' = store PROVE UniqueInv'
  BY <1>0, <1>b DEF FreshMemory, UniqueIn, UniqueStored
<1>1. ASSUME NEW s \in Submitted, Update(s) PROVE UniqueInv'
  <2>1. s \in Server
    BY SubmittedAssumption
  <2>2. ASSUME NEW old \in Matching(s.ip, s.port), list' = (list \ {old}) \cup {s}
        PROVE  UniqueIn(list')
    <3>1. old \in list /\ Key(old) = Key(s)
      BY <2>2 DEF Matching, Key
    <3> QED BY <1>0, <2>1, <2>2, <3>1, PutUnique
  <2>3. ASSUME Matching(s.ip, s.port) = {}, list' = list \cup {s}
        PROVE  UniqueIn(list')
    <3>1. \A t \in list : Key(t) # Key(s)
      BY <2>3 DEF Matching, Key
    <3> QED BY <1>0, <2>1, <2>3, <3>1, AddUnique
  <2> QED BY <1>0, <1>1, <2>2, <2>3 DEF Update, UniqueStored
<1>2. ASSUME NEW s \in list \cup Submitted, Remove(s) PROVE UniqueInv'
  BY <1>2, <1>a DEF Remove
<1>3. ASSUME NEW cutoff \in Cutoffs, PurgeOld(cutoff) PROVE UniqueInv'
  BY <1>3, <1>a DEF PurgeOld
<1>4. CASE SaveStorage
  <2>1. UniqueStored'
    BY <1>0, <1>4, StoredUnique DEF SaveStorage, UniqueStored
  <2> QED BY <1>0, <1>4, <2>1 DEF SaveStorage, memory
<1>5. CASE SaveStorageFails
  BY <1>5, <1>a, <1>b DEF SaveStorageFails, Abort, memory
<1>6. CASE SavePublic
  BY <1>6, <1>a DEF SavePublic
<1>7. CASE SavePublicFails
  BY <1>7, <1>a, <1>b DEF SavePublicFails
<1>8. CASE Load
  <2>1. CASE store = NoFile
    BY <1>8, <2>1, <1>a DEF Load, memory
  <2>2. CASE store # NoFile
    <3>1. store.list \in SUBSET StoredServer
      BY <2>2 DEF TypeInv, TypeOK, StoreFile
    <3>2. UniqueIn(list')
      BY <1>8, <2>2, <3>1, ReloadedUnique DEF Load, UniqueStored
    <3> QED BY <1>0, <1>8, <3>2 DEF Load, UniqueStored
  <2> QED BY <2>1, <2>2
<1>9. CASE Crash
  BY <1>9, <1>b DEF Crash
<1>10. CASE LosePublic
  BY <1>10, <1>a DEF LosePublic, memory
<1>11. CASE UNCHANGED vars
  BY <1>11, <1>a DEF vars, memory
<1> QED BY <1>1, <1>2, <1>3, <1>4, <1>5, <1>6, <1>7, <1>8, <1>9, <1>10, <1>11
        DEF Next

\* (ip, port) stays a primary key: whatever is announced, removed, purged,
\* lost in a crash and reloaded, no lookup ever has a second match to miss.
THEOREM PrimaryKey == Spec => []UniqueKey
<1>1. UniqueInv => UniqueKey
  BY DEF UniqueInv
<1> QED BY <1>1, InitUnique, NextUnique, PTL DEF Spec

-----------------------------------------------------------------------------
\* Nothing is forgotten: a clean list is in both files.

LEMMA InitSaved == Init => SavedInv
BY InitUnique DEF Init, SavedInv, LifecycleInv, HalfSaved, CleanMeansSaved

\* What SaveStorage leaves in store.json, whether it had to write or not.
LEMMA StorageSaved ==
  ASSUME SavedInv, SaveStorage
  PROVE  /\ store' # NoFile /\ store'.list = Stored(list)
         /\ modified => /\ store'.maxServers = maxServers
                        /\ store'.maxClients = maxClients
<1>1. CASE modified
  <2> DEFINE file == [list |-> Stored(list), maxServers |-> maxServers,
                      maxClients |-> maxClients]
  <2>1. list \in SUBSET Server /\ IsFiniteSet(list)
        /\ maxServers \in Nat /\ maxClients \in Nat
    BY DEF SavedInv, UniqueInv, TypeInv, TypeOK
  <2>2. file \in StoreFile
    BY <2>1, StoredList DEF StoreFile
  <2>3. store' = file
    BY <1>1 DEF SaveStorage
  <2> QED BY <2>2, <2>3, NoFileAssumption
<1>2. CASE ~modified
  BY <1>2 DEF SaveStorage, SavedInv, CleanMeansSaved
<1> QED BY <1>1, <1>2

LEMMA NextSaved == SavedInv /\ [Next]_vars => SavedInv'
<1> SUFFICES ASSUME SavedInv, [Next]_vars PROVE SavedInv'
  OBVIOUS
<1> USE DEF SavedInv, LifecycleInv, HalfSaved, CleanMeansSaved
<1>0. UniqueInv'
  BY NextUnique
<1>t. modified \in BOOLEAN /\ phase \in {"down", "boot", "serving"}
  BY DEF UniqueInv, TypeInv, TypeOK
<1>b. ASSUME FreshMemory PROVE SavedInv'
  BY <1>0, <1>b DEF FreshMemory
<1>1. ASSUME NEW s \in Submitted, Update(s) PROVE SavedInv'
  BY <1>0, <1>1 DEF Update, Unlocked
<1>2. ASSUME NEW s \in list \cup Submitted, Remove(s) PROVE SavedInv'
  <2>1. CASE s \in list
    BY <1>0, <1>2, <2>1 DEF Remove, Unlocked
  <2>2. CASE s \notin list
    <3>1. list' = list /\ (modified' <=> modified)
      BY <1>2, <1>t, <2>2 DEF Remove
    <3> QED BY <1>0, <1>2, <3>1 DEF Remove, Unlocked
  <2> QED BY <2>1, <2>2
<1>3. ASSUME NEW cutoff \in Cutoffs, PurgeOld(cutoff) PROVE SavedInv'
  <2>1. CASE list' # list
    BY <1>0, <1>3, <2>1 DEF PurgeOld, Unlocked
  <2>2. CASE list' = list
    <3>1. modified' <=> modified
      BY <1>3, <1>t, <2>2 DEF PurgeOld
    <3> QED BY <1>0, <1>3, <2>2, <3>1 DEF PurgeOld, Unlocked
  <2> QED BY <2>1, <2>2
<1>4. CASE SaveStorage
  <2>1. /\ store' # NoFile /\ store'.list = Stored(list)
        /\ modified => /\ store'.maxServers = maxServers
                       /\ store'.maxClients = maxClients
    BY <1>4, StorageSaved
  <2> QED BY <1>0, <1>4, <2>1 DEF SaveStorage, memory
<1>5. CASE SaveStorageFails
  BY <1>0, <1>5, <1>b DEF SaveStorageFails, Abort, memory
<1>6. CASE SavePublic
  <2>1. store' # NoFile /\ store'.list = Stored(list')
    BY <1>6 DEF SavePublic
  <2>2. public' # NoFile => public'.list = Shown(list')
    <3>1. CASE PublicNeeded
      BY <1>6, <3>1 DEF SavePublic, WritePublic
    <3>2. CASE ~PublicNeeded
      BY <1>6, <3>2 DEF SavePublic, PublicNeeded
    <3> QED BY <3>1, <3>2
  <2> QED BY <1>0, <1>6, <2>1, <2>2 DEF SavePublic
<1>7. CASE SavePublicFails
  BY <1>0, <1>7, <1>b DEF SavePublicFails
<1>8. CASE Load
  BY <1>0, <1>8, <1>t DEF Load, memory
<1>9. CASE Crash
  BY <1>9, <1>b DEF Crash
<1>10. CASE LosePublic
  BY <1>0, <1>10 DEF LosePublic, memory
<1>11. CASE UNCHANGED vars
  BY <1>0, <1>11 DEF vars, memory
<1> QED BY <1>1, <1>2, <1>3, <1>4, <1>5, <1>6, <1>7, <1>8, <1>9, <1>10, <1>11
        DEF Next

\* The list is only taken for clean when store.json holds exactly its
\* servers and list.json, if it exists, shows exactly them.
THEOREM CleanIsSaved == Spec => []CleanMeansSaved
<1>1. SavedInv => CleanMeansSaved
  BY DEF SavedInv
<1> QED BY <1>1, InitSaved, NextSaved, PTL DEF Spec

\* What a reload makes of a stored list is shown as the list itself.
LEMMA ShownFromStore ==
  ASSUME NEW L \in SUBSET Server
  PROVE  Shown(L) = {ToListJSON(FromStorage(t)) : t \in Stored(L)}
BY StoredServerType DEF Shown, Stored

LEMMA NextPublishes ==
  SavedInv /\ [Next]_vars =>
    (public' \notin {public, NoFile} =>
       /\ store' # NoFile
       /\ public'.list = {ToListJSON(FromStorage(t)) : t \in store'.list})
<1> SUFFICES ASSUME SavedInv, [Next]_vars, public' \notin {public, NoFile}
             PROVE  /\ store' # NoFile
                    /\ public'.list =
                         {ToListJSON(FromStorage(t)) : t \in store'.list}
  OBVIOUS
<1>1. SavePublic
  BY DEF Next, Update, Remove, PurgeOld, SaveStorage, SaveStorageFails,
         SavePublicFails, Load, Crash, LosePublic, vars
<1>2. store' # NoFile /\ store'.list = Stored(list)
  BY <1>1 DEF SavedInv, HalfSaved, SavePublic
<1>3. public'.list = Shown(list)
  BY <1>1 DEF SavePublic, WritePublic
<1>4. list \in SUBSET Server
  BY DEF SavedInv, UniqueInv, TypeInv, TypeOK
<1> QED BY <1>2, <1>3, <1>4, ShownFromStore

\* list.json never shows a server that a crash could still take back.
THEOREM PublishedIsStored == Spec => PublishOnlyStored
<1>1. SavedInv /\ [Next]_vars =>
        [public' \notin {public, NoFile} =>
           /\ store' # NoFile
           /\ public'.list = {ToListJSON(FromStorage(t)) : t \in store'.list}]_vars
  BY NextPublishes
<1> QED BY <1>1, InitSaved, NextSaved, PTL DEF Spec, PublishOnlyStored

-----------------------------------------------------------------------------
\* The record maxima.  store.json is written before Save raises them, so a
\* restart finds older maxima; that it also finds the list which raised them
\* is what makes up for it.

\* Storing and reloading a list keeps the number of its servers and clients.
LEMMA ReloadedCounts ==
  ASSUME NEW L \in SUBSET Server, IsFiniteSet(L), UniqueIn(L)
  PROVE  LET R == {FromStorage(t) : t \in Stored(L)}
         IN  Cardinality(R) = Cardinality(L) /\ Clients(R) = Clients(L)
<1> DEFINE R == {FromStorage(t) : t \in Stored(L)}
           back == [s \in L |-> FromStorage(ToStorage(s))]
           both == [p \in ClientsOf(L) |-> <<back[p[1]], p[2]>>]
<1>1. R = {back[s] : s \in L}
  BY DEF Stored
<1>2. \A s \in L : Key(back[s]) = Key(s) /\ back[s].meta = s.meta
  BY DEF FromStorage, ToStorage, Key
<1>3. \A s, t \in L : back[s] = back[t] => s = t
  BY <1>2 DEF UniqueIn
<1> HIDE DEF R, back
<1>4. Cardinality(R) = Cardinality(L)
  BY <1>1, <1>3, MappedListInjective
<1>5. \A p : p \in ClientsOf(L) <=>
         \E s \in L : \E i \in 1..s.meta.clients : p = <<s, i>>
  BY DEF ClientsOf
<1>6. \A p : p \in ClientsOf(R) <=>
         \E s \in L : \E i \in 1..s.meta.clients : p = <<back[s], i>>
  <2>1. \A p : p \in ClientsOf(R) <=>
           \E s \in R : \E i \in 1..s.meta.clients : p = <<s, i>>
    BY DEF ClientsOf
  <2> QED BY <1>1, <1>2, <2>1
<1>7. ClientsOf(R) = {both[p] : p \in ClientsOf(L)}
  <2>1. ASSUME NEW p \in ClientsOf(R)
        PROVE  \E q \in ClientsOf(L) : p = both[q]
    <3>1. PICK s \in L, i \in Nat : i \in 1..s.meta.clients /\ p = <<back[s], i>>
      BY <1>6
    <3>2. <<s, i>> \in ClientsOf(L)
      BY <1>5, <3>1
    <3> QED BY <3>1, <3>2
  <2>2. ASSUME NEW q \in ClientsOf(L)
        PROVE  both[q] \in ClientsOf(R)
    <3>1. PICK s \in L, i \in Nat : i \in 1..s.meta.clients /\ q = <<s, i>>
      BY <1>5
    <3>2. both[q] = <<back[s], i>>
      BY <3>1
    <3> QED BY <1>6, <3>1, <3>2
  <2> QED BY <2>1, <2>2
<1>8. \A p, q \in ClientsOf(L) : both[p] = both[q] => p = q
  <2> SUFFICES ASSUME NEW p \in ClientsOf(L), NEW q \in ClientsOf(L),
                      both[p] = both[q]
               PROVE  p = q
    OBVIOUS
  <2>1. PICK s \in L, i \in Nat : i \in 1..s.meta.clients /\ p = <<s, i>>
    BY <1>5
  <2>2. PICK t \in L, j \in Nat : j \in 1..t.meta.clients /\ q = <<t, j>>
    BY <1>5
  <2>3. <<back[s], i>> = <<back[t], j>>
    BY <2>1, <2>2
  <2> QED BY <1>3, <2>1, <2>2, <2>3
<1>9. Cardinality(ClientsOf(R)) = Cardinality(ClientsOf(L))
  <2>1. IsFiniteSet(ClientsOf(L))
    BY ClientsFinite
  <2> HIDE DEF both
  <2> QED BY <1>7, <1>8, <2>1, MappedListInjective
<1> QED BY <1>4, <1>9 DEF Clients, R

LEMMA CountsType ==
  ASSUME TypeInv
  PROVE  /\ Cardinality(list) \in Nat /\ Clients(list) \in Nat
         /\ store # NoFile =>
              /\ Cardinality(Reloaded) \in Nat /\ Clients(Reloaded) \in Nat
              /\ store.maxServers \in Nat /\ store.maxClients \in Nat
         /\ public # NoFile =>
              public.maxServers \in Nat /\ public.maxClients \in Nat
<1>1. Cardinality(list) \in Nat /\ Clients(list) \in Nat
  BY FS_CardinalityType, ClientsType DEF TypeInv, TypeOK
<1>2. ASSUME store # NoFile
      PROVE  Cardinality(Reloaded) \in Nat /\ Clients(Reloaded) \in Nat
  <2>1. store.list \in SUBSET StoredServer /\ IsFiniteSet(store.list)
    BY <1>2 DEF TypeInv, FiniteStore, TypeOK, StoreFile
  <2>2. Reloaded \in SUBSET Server /\ IsFiniteSet(Reloaded)
    BY <2>1, ReloadedList DEF Reloaded
  <2> QED BY <2>2, FS_CardinalityType, ClientsType
<1> QED BY <1>1, <1>2 DEF TypeInv, TypeOK, StoreFile, PublicFile

LEMMA InitPeak == Init => IInv
BY InitSaved DEF Init, IInv, PeakInv

\* Raising a maximum m to n: it never falls, covers n and a second time
\* changes nothing.
LEMMA LargerFacts ==
  ASSUME NEW n \in Nat, NEW m \in Nat
  PROVE  /\ Larger(n, m) \in Nat
         /\ Larger(n, m) >= m /\ Larger(n, m) >= n
         /\ Larger(n, Larger(n, m)) = Larger(n, m)
BY DEF Larger

\* Save's second half: what is published is what a reload will recover.
LEMMA PeaksRecoverable ==
  ASSUME IInv, saver = "public", RaisePeaks
  PROVE  /\ store # NoFile
         /\ maxServers' = RecoveredServers /\ maxClients' = RecoveredClients
         /\ maxServers' >= maxServers /\ maxClients' >= maxClients
         /\ ~modified => maxServers' = maxServers /\ maxClients' = maxClients
<1>1. store # NoFile /\ store.list = Stored(list)
  BY DEF IInv, SavedInv, HalfSaved
<1>2. Cardinality(Reloaded) = Cardinality(list) /\ Clients(Reloaded) = Clients(list)
  BY <1>1, ReloadedCounts
     DEF Reloaded, IInv, SavedInv, UniqueInv, UniqueKey, TypeInv, TypeOK
<1>3. /\ Cardinality(list) \in Nat /\ Clients(list) \in Nat
      /\ store.maxServers \in Nat /\ store.maxClients \in Nat
      /\ maxServers \in Nat /\ maxClients \in Nat
  BY <1>1, CountsType DEF IInv, SavedInv, UniqueInv, TypeInv, TypeOK
<1>4. CASE modified
  <2>1. store.maxServers = maxServers /\ store.maxClients = maxClients
    BY <1>4 DEF IInv, SavedInv, HalfSaved
  <2> QED BY <1>1, <1>2, <1>3, <1>4, <2>1, LargerFacts
          DEF RaisePeaks, RecoveredServers, RecoveredClients
<1>5. CASE ~modified
  <2>1. maxServers = RecoveredServers /\ maxClients = RecoveredClients
    BY <1>5 DEF IInv, PeakInv
  <2>2. /\ maxServers = Larger(Cardinality(list), store.maxServers)
        /\ maxClients = Larger(Clients(list), store.maxClients)
    BY <1>2, <2>1 DEF RecoveredServers, RecoveredClients
  <2>3. maxServers' = maxServers /\ maxClients' = maxClients
    BY <1>3, <2>2, LargerFacts DEF RaisePeaks
  <2> QED BY <1>1, <1>3, <2>1, <2>3
<1> QED BY <1>4, <1>5

LEMMA NextPeak == IInv /\ [Next]_vars => IInv'
<1> SUFFICES ASSUME IInv, [Next]_vars PROVE PeakInv'
  BY NextSaved DEF IInv
<1> USE DEF IInv
<1>0. SavedInv'
  BY NextSaved
<1>t. /\ maxServers \in Nat /\ maxClients \in Nat
      /\ modified \in BOOLEAN /\ phase \in {"down", "boot", "serving"}
  BY DEF SavedInv, UniqueInv, TypeInv, TypeOK
<1>c. /\ Cardinality(list) \in Nat /\ Clients(list) \in Nat
      /\ store # NoFile =>
           /\ Cardinality(Reloaded) \in Nat /\ Clients(Reloaded) \in Nat
           /\ store.maxServers \in Nat /\ store.maxClients \in Nat
      /\ public # NoFile =>
           public.maxServers \in Nat /\ public.maxClients \in Nat
  BY CountsType DEF SavedInv, UniqueInv
<1>r. store' = store => /\ Reloaded' = Reloaded
                        /\ RecoveredServers' = RecoveredServers
                        /\ RecoveredClients' = RecoveredClients
  BY DEF Reloaded, RecoveredServers, RecoveredClients
<1>a. \* the process dies, also while booting
      ASSUME phase' = "down", modified', UNCHANGED <<store, public>>
      PROVE  PeakInv'
  BY <1>a, <1>r DEF PeakInv
<1>b. \* an operation on the list
      ASSUME phase = "serving", modified' \/ (modified' = modified /\ list' = list),
             UNCHANGED <<maxServers, maxClients, phase, store, public>>
      PROVE  PeakInv'
  BY <1>b, <1>r DEF PeakInv
<1>1. ASSUME NEW s \in Submitted, Update(s) PROVE PeakInv'
  BY <1>1, <1>b DEF Update, Unlocked
<1>2. ASSUME NEW s \in list \cup Submitted, Remove(s) PROVE PeakInv'
  BY <1>2, <1>b, <1>t DEF Remove, Unlocked
<1>3. ASSUME NEW cutoff \in Cutoffs, PurgeOld(cutoff) PROVE PeakInv'
  BY <1>3, <1>b, <1>t DEF PurgeOld, Unlocked
<1>4. CASE SaveStorage
  <2>1. CASE modified
    <3>1. /\ store' # NoFile /\ store'.list = Stored(list)
          /\ store'.maxServers = maxServers /\ store'.maxClients = maxClients
      BY <1>4, <2>1, StorageSaved
    <3>2. Reloaded' = {FromStorage(t) : t \in Stored(list)}
      BY <3>1 DEF Reloaded
    <3>3. Cardinality(Reloaded') = Cardinality(list)
          /\ Clients(Reloaded') = Clients(list)
      BY <3>2, ReloadedCounts DEF SavedInv, UniqueInv, UniqueKey, TypeInv, TypeOK
    <3>4. /\ RecoveredServers' = Larger(Cardinality(list), maxServers)
          /\ RecoveredClients' = Larger(Clients(list), maxClients)
      BY <3>1, <3>3 DEF RecoveredServers, RecoveredClients, Clients, ClientsOf
    <3>5. /\ maxServers <= RecoveredServers'
          /\ maxClients <= RecoveredClients'
      BY <1>t, <1>c, <3>4, LargerFacts
    <3>6. RecoveredServers' \in Nat /\ RecoveredClients' \in Nat
      BY <1>t, <1>c, <3>4, LargerFacts
    <3> QED BY <1>4, <1>t, <1>c, <2>1, <3>1, <3>4, <3>5, <3>6
            DEF PeakInv, SaveStorage, memory
  <2>2. CASE ~modified
    BY <1>4, <1>r, <2>2 DEF PeakInv, SaveStorage, memory
  <2> QED BY <2>1, <2>2
<1>5. CASE SaveStorageFails
  BY <1>5, <1>a, <1>b DEF SaveStorageFails, Abort, memory, FreshMemory
<1>6. CASE SavePublic
  <2>1. CASE PublicNeeded
    <3>1. RaisePeaks /\ WritePublic
      BY <1>6, <2>1 DEF SavePublic
    <3>2. /\ store # NoFile
          /\ maxServers' = RecoveredServers /\ maxClients' = RecoveredClients
          /\ maxServers' >= maxServers /\ maxClients' >= maxClients
      BY <1>6, <3>1, PeaksRecoverable DEF SavePublic
    <3>3. maxServers' \in Nat /\ maxClients' \in Nat
      BY <1>0 DEF SavedInv, UniqueInv, TypeInv, TypeOK
    <3>4. public'.maxServers = maxServers' /\ public'.maxClients = maxClients'
      BY <3>1 DEF WritePublic
    <3>5. store' = store /\ phase' = "serving"
      BY <1>6 DEF SavePublic
    <3> QED BY <1>r, <3>2, <3>3, <3>4, <3>5 DEF PeakInv
  <2>2. CASE ~PublicNeeded
    BY <1>6, <1>r, <2>2
       DEF PeakInv, SavePublic, PublicNeeded, SavedInv, LifecycleInv
  <2> QED BY <2>1, <2>2
<1>7. CASE SavePublicFails
  <2>1. CASE phase = "boot" /\ phase' = "down" /\ FreshMemory
    BY <1>7, <1>a, <2>1 DEF SavePublicFails, FreshMemory
  <2>2. CASE /\ phase = "serving" /\ RaisePeaks
             /\ saver' = "idle"
             /\ UNCHANGED <<list, modified, phase>>
    <3>1. /\ maxServers' >= maxServers /\ maxClients' >= maxClients
          /\ ~modified => maxServers' = maxServers /\ maxClients' = maxClients
      BY <1>7, <2>2, PeaksRecoverable DEF SavePublicFails
    <3>2. maxServers' \in Nat /\ maxClients' \in Nat
      BY <1>0 DEF SavedInv, UniqueInv, TypeInv, TypeOK
    <3> QED BY <1>7, <1>r, <1>t, <1>c, <2>2, <3>1, <3>2
            DEF PeakInv, SavePublicFails
  <2> QED BY <1>7, <2>1, <2>2 DEF SavePublicFails
<1>8. CASE Load
  <2>1. CASE store = NoFile
    BY <1>8, <1>r, <2>1 DEF PeakInv, Load, memory, SavedInv, LifecycleInv
  <2>2. CASE store # NoFile
    <3>1. /\ list' = Reloaded
          /\ maxServers' = store.maxServers /\ maxClients' = store.maxClients
      BY <1>8, <2>2 DEF Load, Reloaded
    <3>2. /\ Larger(Cardinality(list'), maxServers') = RecoveredServers
          /\ Larger(Clients(list'), maxClients') = RecoveredClients
      BY <3>1 DEF RecoveredServers, RecoveredClients
    <3>3. Clients(list)' = Clients(list')
      BY DEF Clients, ClientsOf
    <3> QED BY <1>8, <1>r, <2>2, <3>2, <3>3 DEF PeakInv, Load
  <2> QED BY <2>1, <2>2
<1>9. CASE Crash
  BY <1>9, <1>a DEF Crash, FreshMemory
<1>10. CASE LosePublic
  BY <1>10, <1>r DEF PeakInv, LosePublic, memory
<1>11. CASE UNCHANGED vars
  BY <1>11, <1>r DEF PeakInv, vars, memory, Clients, ClientsOf
<1> QED BY <1>1, <1>2, <1>3, <1>4, <1>5, <1>6, <1>7, <1>8, <1>9, <1>10, <1>11
        DEF Next

LEMMA NextPeaksNeverFall ==
  IInv /\ [Next]_vars =>
    (public # NoFile /\ public' # NoFile =>
       /\ public'.maxServers >= public.maxServers
       /\ public'.maxClients >= public.maxClients)
<1> SUFFICES ASSUME IInv, [Next]_vars, public # NoFile, public' # NoFile
             PROVE  /\ public'.maxServers >= public.maxServers
                    /\ public'.maxClients >= public.maxClients
  OBVIOUS
<1>1. /\ public.maxServers \in Nat /\ public.maxClients \in Nat
      /\ maxServers \in Nat /\ maxClients \in Nat
      /\ Cardinality(list) \in Nat /\ Clients(list) \in Nat
  BY CountsType DEF IInv, SavedInv, UniqueInv, TypeInv, TypeOK
<1>2. CASE public' = public
  BY <1>1, <1>2
<1>3. CASE public' # public
  <2>1. SavePublic /\ PublicNeeded
    BY <1>3 DEF Next, Update, Remove, PurgeOld, SaveStorage, SaveStorageFails,
                SavePublic, SavePublicFails, Load, Crash, LosePublic, vars
  <2>2. /\ public'.maxServers = Larger(Cardinality(list), maxServers)
        /\ public'.maxClients = Larger(Clients(list), maxClients)
    BY <2>1 DEF SavePublic, RaisePeaks, WritePublic
  <2>3. phase = "boot" \/ phase = "serving"
    BY <2>1 DEF SavePublic, IInv, SavedInv, LifecycleInv,
                UniqueInv, TypeInv, TypeOK
  <2>4. CASE phase = "boot"
    BY <1>1, <2>2, <2>4, LargerFacts DEF IInv, PeakInv
  <2>5. CASE phase = "serving"
    <3>1. public.maxServers <= maxServers /\ public.maxClients <= maxClients
      BY <2>5 DEF IInv, PeakInv
    <3>2. /\ Larger(Cardinality(list), maxServers) \in Nat
          /\ Larger(Cardinality(list), maxServers) >= maxServers
          /\ Larger(Clients(list), maxClients) \in Nat
          /\ Larger(Clients(list), maxClients) >= maxClients
      BY <1>1, LargerFacts
    <3> QED BY <1>1, <2>2, <3>1, <3>2
  <2> QED BY <2>3, <2>4, <2>5
<1> QED BY <1>2, <1>3

\* total_max.servers of list.json never goes down while the file exists,
\* although a crash may lose the maxima that were last published.
THEOREM ServersPeakIsKept == Spec => PeakServersNeverFall
<1>1. IInv /\ [Next]_vars =>
        [(public # NoFile /\ public' # NoFile) =>
           public'.maxServers >= public.maxServers]_vars
  BY NextPeaksNeverFall
<1> QED BY <1>1, InitPeak, NextPeak, PTL DEF Spec, PeakServersNeverFall

\* The same for total_max.clients.
THEOREM ClientsPeakIsKept == Spec => PeakClientsNeverFall
<1>1. IInv /\ [Next]_vars =>
        [(public # NoFile /\ public' # NoFile) =>
           public'.maxClients >= public.maxClients]_vars
  BY NextPeaksNeverFall
<1> QED BY <1>1, InitPeak, NextPeak, PTL DEF Spec, PeakClientsNeverFall
=============================================================================
