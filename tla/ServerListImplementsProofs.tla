--------------------- MODULE ServerListImplementsProofs ---------------------
(***************************************************************************)
(* ServerList implements ServerTable for every set of addresses, submitted *)
(* objects and cutoffs: each step maps to a step of the table or leaves it *)
(* as it is.                                                               *)
(***************************************************************************)
EXTENDS ServerListImplements, ServerListProofs

-----------------------------------------------------------------------------
\* The mapping needs that keys are unique, in memory and in the store, and
\* that a process which does not run holds no entries a reload could keep.
TableInv == SavedInv /\ (phase = "down" => list = {})

\* What a list is mapped to, looked up by key.
LEMMA Lookup ==
  ASSUME NEW L \in SUBSET Server, UniqueIn(L)
  PROVE  /\ DOMAIN TableOf(Stored(L)) = IP \X Port
         /\ \A s \in L : TableOf(Stored(L))[Key(s)] = ToStorage(s)
         /\ \A k \in IP \X Port :
              (\A s \in L : Key(s) # k) => TableOf(Stored(L))[k] = None
<1>1. ASSUME NEW s \in L PROVE TableOf(Stored(L))[Key(s)] = ToStorage(s)
  <2>1. Key(s) \in IP \X Port
    BY DEF Key, Server
  <2>2. ToStorage(s) \in Stored(L) /\ EntryKey(ToStorage(s)) = Key(s)
    BY StoredServerType DEF Stored, EntryKey
  <2>3. \A e \in Stored(L) : EntryKey(e) = Key(s) => e = ToStorage(s)
    BY <2>2, StoredUnique
  <2>4. TableOf(Stored(L))[Key(s)] = CHOOSE e \in Stored(L) : EntryKey(e) = Key(s)
    BY <2>1, <2>2 DEF TableOf, EntryKey
  <2>5. (CHOOSE e \in Stored(L) : EntryKey(e) = Key(s)) = ToStorage(s)
    BY <2>2, <2>3
  <2> QED BY <2>4, <2>5
<1>2. ASSUME NEW k \in IP \X Port, \A s \in L : Key(s) # k
      PROVE  TableOf(Stored(L))[k] = None
  <2>1. \A e \in Stored(L) : <<e[1], e[2]>> # k
    BY <1>2, StoredServerType DEF Stored
  <2> QED BY <2>1 DEF TableOf
<1>3. DOMAIN TableOf(Stored(L)) = IP \X Port
  BY DEF TableOf
<1> QED BY <1>1, <1>2, <1>3

\* An entry under its key replaces the one that was there.
LEMMA TableWithEntry ==
  ASSUME NEW L \in SUBSET Server, UniqueIn(L), NEW M \in SUBSET Server,
         UniqueIn(M), NEW s \in M,
         \A t \in L : Key(t) # Key(s) => t \in M,
         \A t \in M : t # s => t \in L
  PROVE  TableOf(Stored(M)) = [TableOf(Stored(L)) EXCEPT ![Key(s)] = ToStorage(s)]
<1> DEFINE tL == TableOf(Stored(L))
           tM == TableOf(Stored(M))
           k  == Key(s)
<1>1. /\ DOMAIN tM = IP \X Port /\ DOMAIN tL = IP \X Port
      /\ tM = [x \in IP \X Port |-> tM[x]]
  BY DEF TableOf
<1>2. tM[k] = ToStorage(s)
  BY Lookup
<1>3. ASSUME NEW x \in IP \X Port, x # k PROVE tM[x] = tL[x]
  <2>1. CASE \E t \in L : Key(t) = x
    <3>1. PICK t \in L : Key(t) = x
      BY <2>1
    <3>2. t \in M
      BY <1>3, <3>1
    <3>3. tL[x] = ToStorage(t) /\ tM[x] = ToStorage(t)
      BY <3>1, <3>2, Lookup
    <3> QED BY <3>3
  <2>2. CASE \A t \in L : Key(t) # x
    <3>1. \A t \in M : Key(t) # x
      BY <1>3, <2>2
    <3>2. tL[x] = None /\ tM[x] = None
      BY <2>2, <3>1, Lookup
    <3> QED BY <3>2
  <2> QED BY <2>1, <2>2
<1>4. k \in IP \X Port
  BY DEF Key, Server
<1> HIDE DEF tL, tM, k
<1>5. tM = [tL EXCEPT ![k] = ToStorage(s)]
  BY <1>1, <1>2, <1>3, <1>4
<1> QED BY <1>5 DEF tL, tM, k

\* Entries that leave the list leave the table under their keys.
LEMMA TableWithout ==
  ASSUME NEW L \in SUBSET Server, UniqueIn(L), NEW M \in SUBSET L
  PROVE  \E K \in SUBSET (IP \X Port) :
           TableOf(Stored(M)) =
             [k \in IP \X Port |-> IF k \in K THEN None ELSE TableOf(Stored(L))[k]]
<1> DEFINE K == {Key(s) : s \in L \ M}
           tL == TableOf(Stored(L))
           tM == TableOf(Stored(M))
<1>1. K \in SUBSET (IP \X Port)
  BY DEF Key, Server
<1>2. UniqueIn(M) /\ M \in SUBSET Server
  BY DEF UniqueIn
<1>3. tM = [x \in IP \X Port |-> tM[x]]
  BY DEF TableOf
<1>4. ASSUME NEW x \in IP \X Port PROVE tM[x] = IF x \in K THEN None ELSE tL[x]
  <2>1. CASE \E t \in M : Key(t) = x
    <3>1. PICK t \in M : Key(t) = x
      BY <2>1
    <3>2. x \notin K
      BY <3>1 DEF UniqueIn
    <3>3. tL[x] = ToStorage(t) /\ tM[x] = ToStorage(t)
      BY <1>2, <3>1, Lookup
    <3> QED BY <3>2, <3>3
  <2>2. CASE \A t \in M : Key(t) # x
    <3>1. tM[x] = None
      BY <1>2, <2>2, Lookup
    <3>2. x \notin K => tL[x] = None
      <4>1. x \notin K => \A t \in L : Key(t) # x
        BY <2>2
      <4> QED BY <4>1, Lookup
    <3> QED BY <3>1, <3>2
  <2> QED BY <2>1, <2>2
<1> HIDE DEF K, tL, tM
<1>5. tM = [x \in IP \X Port |-> IF x \in K THEN None ELSE tL[x]]
  BY <1>3, <1>4
<1> QED BY <1>1, <1>5 DEF tL, tM

\* The table shows the public what a list of its entries shows.
LEMMA ViewOfTable ==
  ASSUME NEW L \in SUBSET Server, UniqueIn(L)
  PROVE  Shown(L) = {ToListJSON(FromStorage(TableOf(Stored(L))[k])) :
                       k \in {x \in IP \X Port : TableOf(Stored(L))[x] # None}}
<1> DEFINE t == TableOf(Stored(L))
           V == {ToListJSON(FromStorage(t[k])) : k \in {x \in IP \X Port : t[x] # None}}
<1>1. ASSUME NEW s \in L
      PROVE  Key(s) \in IP \X Port /\ t[Key(s)] = ToStorage(s) /\ t[Key(s)] # None
             /\ ToListJSON(FromStorage(t[Key(s)])) = ToListJSON(s)
  <2>1. Key(s) \in IP \X Port /\ t[Key(s)] = ToStorage(s)
    BY Lookup DEF Key, Server
  <2> HIDE DEF t
  <2> QED BY <2>1, StoredServerType, NoneAssumption
<1>2. \A k \in IP \X Port : t[k] # None => \E s \in L : Key(s) = k
  BY Lookup
<1> HIDE DEF t
<1>3. Shown(L) \subseteq V
  BY <1>1 DEF Shown
<1>4. V \subseteq Shown(L)
  BY <1>1, <1>2 DEF Shown
<1> QED BY <1>3, <1>4 DEF t

\* Reloading a store and storing what was reloaded gives the store back.
LEMMA StoredAgain ==
  ASSUME NEW T \in SUBSET StoredServer
  PROVE  Stored({FromStorage(e) : e \in T}) = T
BY ReloadedServer DEF Stored

-----------------------------------------------------------------------------
LEMMA InitTable == Init => TableInv /\ Table!Init
<1> SUFFICES ASSUME Init PROVE TableInv /\ Table!Init
  OBVIOUS
<1>1. TableInv
  BY InitSaved DEF Init, TableInv
<1>2. SavedTable = [k \in IP \X Port |-> None] /\ MemoryTable = SavedTable
  BY DEF Init, SavedTable, MemoryTable, TableOf
<1>3. ShownView = NoFile
  BY DEF Init, ShownView
<1> QED BY <1>1, <1>2, <1>3 DEF Table!Init, Table!Keys

LEMMA NextTable == TableInv /\ [Next]_vars => TableInv'
<1> SUFFICES ASSUME TableInv, [Next]_vars PROVE TableInv'
  OBVIOUS
<1>1. phase' = "down" => FreshMemory \/ UNCHANGED <<list, phase>>
  BY DEF Next, Update, Remove, PurgeOld, SaveStorage, SaveStorageFails, Abort,
         SavePublic, SavePublicFails, Load, Crash, LosePublic, Unlocked, vars, memory
<1> QED BY <1>1, NextSaved DEF TableInv, FreshMemory

\* Every step of the list is a step of the table or leaves it as it is.
LEMMA TableStep == TableInv /\ TableInv' /\ [Next]_vars => [Table!Next]_(Table!vars)
<1> SUFFICES ASSUME TableInv, TableInv', [Next]_vars
             PROVE  [Table!Next]_(Table!vars)
  OBVIOUS
<1>0. /\ list \in SUBSET Server /\ UniqueIn(list)
      /\ list' \in SUBSET Server /\ UniqueIn(list')
      /\ store # NoFile => store.list \in SUBSET StoredServer
      /\ phase = "down" => list = {}
      /\ phase \in {"down", "boot", "serving"}
  BY DEF TableInv, SavedInv, UniqueInv, UniqueKey, UniqueIn, TypeInv, TypeOK, StoreFile
\* How the operations move the three parts of the mapping.
<1>a. store' = store => SavedTable' = SavedTable
  BY DEF SavedTable
<1>b. public' = public => ShownView' = ShownView
  BY DEF ShownView
<1>c. phase # "down" /\ phase' # "down" =>
        MemoryTable = TableOf(Stored(list)) /\ MemoryTable' = TableOf(Stored(list'))
  BY DEF MemoryTable
<1>d. phase' = "down" => MemoryTable' = SavedTable'
  BY DEF MemoryTable, SavedTable
<1>e. ASSUME UNCHANGED <<list, phase, store, public>> PROVE UNCHANGED Table!vars
  <2>1. MemoryTable' = MemoryTable
    BY <1>e, <1>a DEF MemoryTable
  <2> QED BY <1>a, <1>b, <1>e, <2>1 DEF Table!vars
<1>f. ASSUME FreshMemory, phase' = "down", UNCHANGED <<store, public>>
      PROVE  Table!Next
  BY <1>a, <1>b, <1>d, <1>f DEF Table!Next, Table!Recover
<1>g. ASSUME Unlocked, phase' = phase, UNCHANGED <<store, public>>, list' \subseteq list
      PROVE  Table!Next
  <2>1. MemoryTable = TableOf(Stored(list)) /\ MemoryTable' = TableOf(Stored(list'))
    BY <1>c, <1>g DEF Unlocked
  <2>2. PICK K \in SUBSET (IP \X Port) :
          TableOf(Stored(list')) =
            [k \in IP \X Port |-> IF k \in K THEN None ELSE TableOf(Stored(list))[k]]
    BY <1>0, <1>g, TableWithout
  <2>3. Table!Drop(K) /\ K \in SUBSET Table!Keys
    BY <1>a, <1>b, <1>g, <2>1, <2>2 DEF Table!Drop, Table!Keys
  <2> QED BY <2>3 DEF Table!Next
<1>1. ASSUME NEW s \in Submitted, Update(s) PROVE Table!Next
  <2>1. MemoryTable = TableOf(Stored(list)) /\ MemoryTable' = TableOf(Stored(list'))
    BY <1>c, <1>1 DEF Update, Unlocked
  <2>2. /\ s \in list'
        /\ \A t \in list : Key(t) # Key(s) => t \in list'
        /\ \A t \in list' : t # s => t \in list
    BY <1>1 DEF Update, Matching, Key
  <2>3. TableOf(Stored(list')) = [TableOf(Stored(list)) EXCEPT ![Key(s)] = ToStorage(s)]
    BY <1>0, <2>2, TableWithEntry
  <2>4. ToStorage(s) \in Stored(Submitted) /\ Table!KeyOf(ToStorage(s)) = Key(s)
    BY SubmittedAssumption, StoredServerType DEF Stored, Table!KeyOf
  <2>5. UNCHANGED <<store, public>>
    BY <1>1 DEF Update
  <2>6. Table!Put(ToStorage(s))
    BY <1>a, <1>b, <2>1, <2>3, <2>4, <2>5 DEF Table!Put
  <2> QED BY <2>4, <2>6 DEF Table!Next
<1>2. ASSUME NEW s \in list \cup Submitted, Remove(s) PROVE Table!Next
  BY <1>2, <1>g DEF Remove
<1>3. ASSUME NEW cutoff \in Cutoffs, PurgeOld(cutoff) PROVE Table!Next
  BY <1>3, <1>g DEF PurgeOld
<1>4. ASSUME SaveStorage PROVE Table!Next
  <2>1. store' # NoFile /\ store'.list = Stored(list)
    BY <1>4, StorageSaved DEF TableInv
  <2>2. phase # "down" /\ UNCHANGED <<list, phase, public>>
    BY <1>4 DEF SaveStorage, memory
  <2>3. SavedTable' = TableOf(Stored(list))
    BY <2>1 DEF SavedTable
  <2>4. MemoryTable = TableOf(Stored(list)) /\ MemoryTable' = TableOf(Stored(list))
    BY <1>c, <2>2
  <2> QED BY <1>b, <2>2, <2>3, <2>4 DEF Table!Next, Table!Checkpoint
<1>5. ASSUME SaveStorageFails PROVE [Table!Next]_(Table!vars)
  BY <1>5, <1>e, <1>f DEF SaveStorageFails, Abort, memory
<1>6. ASSUME SavePublic PROVE [Table!Next]_(Table!vars)
  <2>1. /\ store # NoFile /\ store.list = Stored(list)
        /\ phase # "down" /\ phase' # "down"
        /\ UNCHANGED <<list, store>>
    BY <1>6 DEF SavePublic, TableInv, SavedInv, HalfSaved, LifecycleInv
  <2>2. SavedTable = TableOf(Stored(list)) /\ SavedTable' = SavedTable
    BY <1>a, <2>1 DEF SavedTable
  <2>3. MemoryTable' = MemoryTable
    BY <1>c, <2>1
  <2>4. CASE PublicNeeded
    <3>1. public'.list = Shown(list) /\ public' # NoFile
      <4>1. TypeInv /\ RaisePeaks /\ WritePublic
        BY <1>6, <2>4 DEF SavePublic, TableInv, SavedInv, UniqueInv
      <4>2. /\ maxServers' \in Nat /\ maxClients' \in Nat
            /\ Cardinality(list) \in Nat /\ Clients(list) \in Nat
        BY <4>1, RaisePeaksType
      <4>3. Shown(list) \in SUBSET PublicServer
        BY <1>0, PublicServerType DEF Shown
      <4>4. public' \in PublicFile
        BY <4>1, <4>2, <4>3 DEF WritePublic, PublicFile
      <4> QED BY <4>1, <4>4, NoFileAssumption DEF WritePublic
    <3>2. ShownView' = Shown(list)
      BY <3>1 DEF ShownView
    <3>3. Table!View(SavedTable) =
            {ToListJSON(FromStorage(SavedTable[k])) :
               k \in {x \in IP \X Port : SavedTable[x] # None}}
      BY DEF Table!View, Table!Keys, Table!ToListJSON, ToListJSON, Table!FromStorage,
             FromStorage, Table!AverageClients, AverageClients
    <3>4. ShownView' = Table!View(SavedTable)
      BY <1>0, <2>2, <3>2, <3>3, ViewOfTable
    <3> QED BY <2>2, <2>3, <3>4 DEF Table!Next, Table!Publish
  <2>5. CASE ~PublicNeeded
    <3>1. public' = public
      BY <1>6, <2>5 DEF SavePublic
    <3> QED BY <1>b, <2>2, <2>3, <3>1 DEF Table!vars
  <2> QED BY <2>4, <2>5
<1>7. ASSUME SavePublicFails PROVE [Table!Next]_(Table!vars)
  BY <1>7, <1>e, <1>f DEF SavePublicFails
<1>8. ASSUME Load PROVE UNCHANGED Table!vars
  <2>1. /\ phase = "down" /\ phase' = "boot" /\ UNCHANGED <<store, public>>
        /\ list' = IF store = NoFile THEN list ELSE {FromStorage(e) : e \in store.list}
    BY <1>8 DEF Load, memory
  <2>2. Stored(list') = IF store = NoFile THEN {} ELSE store.list
    BY <1>0, <2>1, StoredAgain DEF Stored
  <2>3. MemoryTable' = SavedTable /\ MemoryTable = SavedTable
    BY <2>1, <2>2 DEF MemoryTable, SavedTable
  <2> QED BY <1>a, <1>b, <2>1, <2>3 DEF Table!vars
<1>9. ASSUME Crash PROVE Table!Next
  BY <1>9, <1>f DEF Crash
<1>10. ASSUME LosePublic PROVE Table!Next
  <2>1. UNCHANGED <<list, phase, store>> /\ ShownView' = NoFile
    BY <1>10 DEF LosePublic, memory, ShownView
  <2>2. MemoryTable' = MemoryTable
    BY <1>a, <2>1 DEF MemoryTable
  <2> QED BY <1>a, <2>1, <2>2 DEF Table!Next, Table!LoseShown
<1>11. ASSUME UNCHANGED vars PROVE UNCHANGED Table!vars
  BY <1>11, <1>e DEF vars, memory
<1> QED BY <1>1, <1>2, <1>3, <1>4, <1>5, <1>6, <1>7, <1>8, <1>9, <1>10, <1>11
        DEF Next

\* The list implements the table: an operation touches only its own keys, a
\* restart restores exactly the last checkpoint, and list.json shows nothing
\* but a checkpoint.
THEOREM ListImplementsTable == Spec => ImplementsTable
<1>1. Init => TableInv /\ Table!Init
  BY InitTable
<1>2. TableInv /\ [Next]_vars => TableInv'
  BY NextTable
<1>3. TableInv /\ TableInv' /\ [Next]_vars => [Table!Next]_(Table!vars)
  BY TableStep
<1> QED BY <1>1, <1>2, <1>3, PTL DEF Spec, ImplementsTable, Table!Spec
=============================================================================
