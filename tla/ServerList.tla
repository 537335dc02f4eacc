----------------------------- MODULE ServerList -----------------------------
(***************************************************************************)
(* The server list of src/list.go: the in-memory list under its mutex, the *)
(* store it is reloaded from (store.json) and the public file that /list   *)
(* serves (list.json).                                                     *)
(*                                                                         *)
(* The Go slice is a set: its order only decides which of two entries with *)
(* one key a lookup meets first, which `\E old' leaves open.  A set element*)
(* is one object (ServerRecord!id tells equal-looking objects apart).      *)
(* Every operation runs under mu and is one step, except Save: it writes   *)
(* two files, which readers of the files and a crash can see half-done, so *)
(* it is two steps with mu held in between (saver = "public").             *)
(***************************************************************************)
EXTENDS ServerRecord

CONSTANTS
  Submitted,  \* the objects callers pass to Update
  Cutoffs,    \* the cutoffs callers pass to PurgeOld
  NoFile      \* a file that does not exist

ASSUME SubmittedAssumption == Submitted \subseteq Server /\ Cutoffs \subseteq Int

VARIABLES
  list, modified, maxServers, maxClients,  \* ServerList's fields
  saver,                                   \* "public": Save is between its two files
  phase,                                   \* "down", "boot" (main before serving), "serving"
  store, public                            \* store.json and list.json

memory == <<list, modified, maxServers, maxClients>>
vars == <<memory, saver, phase, store, public>>

Larger(a, b) == IF a > b THEN a ELSE b

Matching(ip, port) == {s \in list : s.ip = ip /\ s.port = port}

Stored(L) == {ToStorage(s) : s \in L}
Shown(L)  == {ToListJSON(s) : s \in L}

\* The sum of clients over L, counted as (server, client) pairs.
ClientsOf(L) == UNION {{s} \X (1..s.meta.clients) : s \in L}

Clients(L) == Cardinality(ClientsOf(L))

StoreFile  == [list : SUBSET StoredServer,
               maxServers : Nat, maxClients : Nat]
PublicFile == [list : SUBSET PublicServer,
               servers : Nat, clients : Nat,
               maxServers : Nat, maxClients : Nat]

ASSUME NoFileAssumption == NoFile \notin StoreFile \cup PublicFile

-----------------------------------------------------------------------------
\* A process that is not running has the memory a new one starts from.
FreshMemory ==
  /\ list' = {}
  /\ modified' = TRUE
  /\ maxServers' = 0
  /\ maxClients' = 0
  /\ saver' = "idle"

Init ==
  /\ list = {} /\ modified = TRUE /\ maxServers = 0 /\ maxClients = 0
  /\ saver = "idle" /\ phase = "down"
  /\ store = NoFile /\ public = NoFile

\* mu is free and the process serves requests.
Unlocked == phase = "serving" /\ saver = "idle"

-----------------------------------------------------------------------------
\* Queries.  Get returns the first match or nil.
Get(ip, port) == IF Matching(ip, port) = {} THEN {NoServer} ELSE Matching(ip, port)

CheckDuplicate(s) == \E other \in list : IsDuplicate(s, other)

-----------------------------------------------------------------------------
\* Operations of the handlers and the timer.

\* (fault) the entry is searched by what the public sees of it
UpdateByAddress(s) ==
  /\ Unlocked
  /\ LET same == {o \in list : o.address = s.address /\ o.port = s.port}
     IN  \/ \E old \in same : list' = (list \ {old}) \cup {s}
         \/ same = {} /\ list' = list \cup {s}
  /\ modified' = TRUE
  /\ UNCHANGED <<maxServers, maxClients, saver, phase, store, public>>

\* (fault) a replaced entry is not taken for a change worth saving
UpdateKeepsClean(s) ==
  /\ Unlocked
  /\ \/ \E old \in Matching(s.ip, s.port) :
          list' = (list \ {old}) \cup {s} /\ UNCHANGED modified
     \/ Matching(s.ip, s.port) = {} /\ list' = list \cup {s} /\ modified' = TRUE
  /\ UNCHANGED <<maxServers, maxClients, saver, phase, store, public>>

\* (fault) the entry is searched by identity, as in Remove
UpdateByIdentity(s) ==
  /\ Unlocked
  /\ list' = list \cup {s}
  /\ modified' = TRUE
  /\ UNCHANGED <<maxServers, maxClients, saver, phase, store, public>>

Update(s) ==
  /\ Unlocked
  /\ \/ \E old \in Matching(s.ip, s.port) : list' = (list \ {old}) \cup {s}
     \/ Matching(s.ip, s.port) = {} /\ list' = list \cup {s}
  /\ modified' = TRUE
  /\ UNCHANGED <<maxServers, maxClients, saver, phase, store, public>>

\* By identity: an object that has been replaced meanwhile is not found.
Remove(s) ==
  /\ Unlocked
  /\ list' = list \ {s}
  /\ modified' = (modified \/ s \in list)
  /\ UNCHANGED <<maxServers, maxClients, saver, phase, store, public>>

\* (fault) the purge does not mark the list as changed
PurgeOldUnmarked(cutoff) ==
  /\ Unlocked
  /\ list' = {s \in list : cutoff <= s.updateTime}
  /\ UNCHANGED <<modified, maxServers, maxClients, saver, phase, store, public>>

PurgeOld(cutoff) ==
  /\ Unlocked
  /\ list' = {s \in list : cutoff <= s.updateTime}
  /\ modified' = (modified \/ list' # list)
  /\ UNCHANGED <<maxServers, maxClients, saver, phase, store, public>>

-----------------------------------------------------------------------------
\* Save.  A failed write leaves the file as it was (temporary file, rename);
\* in main the error is fatal, in the timer it is logged and retried.
Abort ==
  \/ phase = "boot" /\ phase' = "down" /\ FreshMemory
  \/ phase = "serving" /\ UNCHANGED <<memory, phase>> /\ saver' = "idle"

SaveStorage ==
  /\ phase # "down" /\ saver = "idle"
  /\ store' = IF modified
              THEN [list |-> Stored(list), maxServers |-> maxServers,
                    maxClients |-> maxClients]
              ELSE store
  /\ saver' = "public"
  /\ UNCHANGED <<memory, phase, public>>

SaveStorageFails ==
  /\ phase # "down" /\ saver = "idle" /\ modified
  /\ Abort
  /\ UNCHANGED <<store, public>>

\* list.json is left alone only when nothing changed and it is still there.
PublicNeeded == modified \/ public = NoFile

\* (fault) the totals restart from the current list
ForgetPeaks ==
  /\ maxServers' = Cardinality(list)
  /\ maxClients' = Clients(list)

\* The record maxima take in the list about to be published; store.json got
\* the maxima from before this line.
RaisePeaks ==
  /\ maxServers' = Larger(Cardinality(list), maxServers)
  /\ maxClients' = Larger(Clients(list), maxClients)

WritePublic ==
  public' = [list |-> Shown(list),
             servers |-> Cardinality(list), clients |-> Clients(list),
             maxServers |-> maxServers', maxClients |-> maxClients']

\* (fault) Save forgets to clear the flag
SavePublicStaysModified ==
  /\ saver = "public"
  /\ IF PublicNeeded THEN RaisePeaks /\ WritePublic
                     ELSE UNCHANGED <<maxServers, maxClients, public>>
  /\ saver' = "idle"
  /\ phase' = "serving"
  /\ UNCHANGED <<list, modified, store>>

SavePublic ==
  /\ saver = "public"
  /\ IF PublicNeeded THEN RaisePeaks /\ WritePublic
                     ELSE UNCHANGED <<maxServers, maxClients, public>>
  /\ modified' = FALSE
  /\ saver' = "idle"
  /\ phase' = "serving"
  /\ UNCHANGED <<list, store>>

\* (fault) the error path returns without releasing mu
SavePublicFailsLocked ==
  /\ saver = "public" /\ PublicNeeded
  /\ \/ phase = "boot" /\ phase' = "down" /\ FreshMemory
     \/ /\ phase = "serving" /\ RaisePeaks
        /\ saver' = "locked"
        /\ UNCHANGED <<list, modified, phase>>
  /\ UNCHANGED <<store, public>>

SavePublicFails ==
  /\ saver = "public" /\ PublicNeeded
  /\ \/ phase = "boot" /\ phase' = "down" /\ FreshMemory
     \/ /\ phase = "serving" /\ RaisePeaks
        /\ saver' = "idle"
        /\ UNCHANGED <<list, modified, phase>>
  /\ UNCHANGED <<store, public>>

-----------------------------------------------------------------------------
\* (fault) the loaded maxima are dropped
LoadListOnly ==
  /\ phase = "down"
  /\ phase' = "boot"
  /\ list' = IF store = NoFile THEN {} ELSE {FromStorage(t) : t \in store.list}
  /\ UNCHANGED <<modified, maxServers, maxClients, saver, store, public>>

\* NewServerList: the process starts and loads what the store holds.
Load ==
  /\ phase = "down"
  /\ phase' = "boot"
  /\ IF store = NoFile
     THEN UNCHANGED memory
     ELSE /\ list' = {FromStorage(t) : t \in store.list}
          /\ modified' = TRUE
          /\ maxServers' = store.maxServers
          /\ maxClients' = store.maxClients
  /\ UNCHANGED <<saver, store, public>>

\* The process dies, possibly between the two files of a Save.
Crash ==
  /\ phase # "down"
  /\ phase' = "down"
  /\ FreshMemory
  /\ UNCHANGED <<store, public>>

\* Somebody deletes list.json: the case savePublicLocked's Stat is for.
LosePublic ==
  /\ public # NoFile
  /\ public' = NoFile
  /\ UNCHANGED <<memory, saver, phase, store>>

Next ==
  \/ \E s \in Submitted : Update(s)
  \/ \E s \in list \cup Submitted : Remove(s)
  \/ \E cutoff \in Cutoffs : PurgeOld(cutoff)
  \/ SaveStorage \/ SaveStorageFails
  \/ SavePublic \/ SavePublicFails
  \/ Load \/ Crash \/ LosePublic

Spec == Init /\ [][Next]_vars

\* The timer saves every listSaveInterval; the disk does not refuse every
\* write of list.json, and the supervisor starts the process again.
Fairness ==
  /\ WF_vars(Load)
  /\ WF_vars(SaveStorage)
  /\ SF_vars(SavePublic)

FairSpec == Spec /\ Fairness

-----------------------------------------------------------------------------
\* Each variable has the Go field's type or the file's layout.
TypeOK ==
  /\ list \in SUBSET Server /\ IsFiniteSet(list)
  /\ modified \in BOOLEAN
  /\ maxServers \in Nat /\ maxClients \in Nat
  /\ saver \in {"idle", "public"}
  /\ phase \in {"down", "boot", "serving"}
  /\ store \in StoreFile \cup {NoFile}
  /\ public \in PublicFile \cup {NoFile}

UniqueIn(L) == \A s, t \in L : Key(s) = Key(t) => s = t

\* (ip, port) is a primary key: getWithIndex and Update stop at the first
\* match, which is only right if no second one ever exists - after any
\* number of updates, purges, crashes and reloads.
UniqueKey == UniqueIn(list)

\* The `modified' flag may only be down when both files say what memory
\* says: Save clears it after two writes that can each fail, and every
\* mutator has to raise it again.
CleanMeansSaved ==
  ~modified => /\ store # NoFile /\ store.list = Stored(list)
               /\ public # NoFile => public.list = Shown(list)

\* What /list shows can be recovered: list.json is only ever written with
\* servers that store.json already holds, so that a crash cannot take back
\* what has been published.
PublishOnlyStored ==
  [][public' \notin {public, NoFile} =>
       /\ store' # NoFile
       /\ public'.list = {ToListJSON(FromStorage(t)) : t \in store'.list}]_vars

\* total_max never goes down in list.json, across failed saves and restarts:
\* store.json carries the maxima of before the save, and the list saved with
\* them has to make up for the difference.
PeakServersNeverFall ==
  [][(public # NoFile /\ public' # NoFile) =>
       public'.maxServers >= public.maxServers]_vars

PeakClientsNeverFall ==
  [][(public # NoFile /\ public' # NoFile) =>
       public'.maxClients >= public.maxClients]_vars

\* A change is not kept from the files forever: as long as the process stays
\* up, Save is retried until both files are written.
ChangesAreSaved == <>[](phase = "serving") => []<>~modified
=============================================================================
