------------------------------ MODULE Service -------------------------------
(***************************************************************************)
(* The running program: src/handlers.go (announce), src/finish.go and      *)
(* src/main.go around one ServerList and one ErrorTracker.                 *)
(*                                                                         *)
(* Every announce request is a process: its handler reads the list once,   *)
(* decides, answers, and hands the new object to a goroutine that verifies *)
(* it - resolve, check for duplicates, ping - and only then lists it.  The *)
(* steps in between hold no lock, so requests, the timer and the clock     *)
(* interleave there.  A request's process dies with the program.           *)
(***************************************************************************)
EXTENDS ServerRecord

CONSTANTS
  NoFile,
  Announcement,   \* the well-formed requests clients send
  ValidAddress,   \* the addresses checkRequestAddress accepts
  Family,         \* an IP's family; "none" if its text has neither "." nor ":"
  Answers,        \* the IP sets a name may resolve to
  AllowUpdateWithoutOld,
  PurgeTime, Validity, CleanupInterval,
  MaxTime,        \* bound of the clock: stands for any later time
  NoError

ASSUME ServiceAssumption ==
  /\ Announcement \subseteq [action : {"start", "update", "delete"}, ip : IP,
                             port : Port, address : Address,
                             uptime : Nat, clients : Nat]
  /\ NoServer \notin Announcement
  /\ ValidAddress \subseteq Address
  /\ Family \in [IP -> {"v4", "v6", "none"}]
  /\ Answers \subseteq SUBSET IP
  /\ AllowUpdateWithoutOld \in BOOLEAN
  /\ {PurgeTime, Validity, CleanupInterval, MaxTime} \subseteq Nat

VARIABLES
  list, modified, maxServers, maxClients, saver, phase, store, public,
  errors, now,           \* the error tracker's table and the clock
  timer, nextCleanup,    \* runTimer
  pc,                    \* where each request is
  req, old, server,      \* announce's locals; server is finishRequest's too
  reply                  \* what the client was told

SLvars == <<list, modified, maxServers, maxClients, saver, phase, store, public>>
ETvars == <<errors, now>>
timerVars == <<timer, nextCleanup>>
requestVars == <<pc, req, old, server, reply>>
vars == <<SLvars, ETvars, timerVars, requestVars>>

ErrorKey  == IP \X Port \X Address
ErrorInfo == {"warning", "error"}

SL == INSTANCE ServerList WITH Submitted <- Server, Cutoffs <- Int
ET == INSTANCE ErrorTracker WITH table <- errors

\* What the parts assume of the constants.
ASSUME PartsAssumption == SL!NoFileAssumption /\ ET!ErrorAssumption

PC == {"new", "read", "filed", "resolve", "check", "ping", "failed", "over"}

Verifying == {"filed", "resolve", "check", "ping", "failed"}

Reply == {"none", "removed", "to remove not found", "to update not found",
          "bad address", "non-monotonic uptime",
          "filed", "filed, previous warning", "filed, previous error"}

Init ==
  /\ SL!Init /\ ET!Init
  /\ timer = "wait" /\ nextCleanup = 0
  /\ pc = [r \in Request |-> "new"]
  /\ req = [r \in Request |-> NoServer]
  /\ old = [r \in Request |-> NoServer]
  /\ server = [r \in Request |-> NoServer]
  /\ reply = [r \in Request |-> "none"]

-----------------------------------------------------------------------------
\* announce, up to its only look at the list.
Goto(r, l) == pc' = [pc EXCEPT ![r] = l]

\* A local that is out of scope is nil again.
Drop(local, r) == [local EXCEPT ![r] = NoServer]

Answer(r, text) ==
  /\ reply' = [reply EXCEPT ![r] = text]
  /\ old' = Drop(old, r)
  /\ Goto(r, "over")

Receive(r) ==
  /\ pc[r] = "new" /\ SL!Unlocked
  /\ \E a \in Announcement : \E o \in SL!Get(a.ip, a.port) :
       /\ req' = [req EXCEPT ![r] = a]
       /\ old' = [old EXCEPT ![r] = o]
  /\ Goto(r, "read")
  /\ UNCHANGED <<SLvars, ETvars, timerVars, server, reply>>

-----------------------------------------------------------------------------
\* announce, action "delete".
DeleteMissing(r) ==
  /\ pc[r] = "read" /\ req[r].action = "delete" /\ old[r] = NoServer
  /\ Answer(r, "to remove not found")
  /\ UNCHANGED <<SLvars, ETvars, timerVars, req, server>>

\* Remove looks for the object read before, not for the key.
DeleteListed(r) ==
  /\ pc[r] = "read" /\ req[r].action = "delete" /\ old[r] # NoServer
  /\ SL!Remove(old[r])
  /\ Answer(r, "removed")
  /\ UNCHANGED <<ETvars, timerVars, req, server>>

-----------------------------------------------------------------------------
\* announce, actions "start" and "update", decided against the object read.
Promoted(r) ==
  /\ req[r].action = "update" /\ old[r] = NoServer
  /\ AllowUpdateWithoutOld /\ req[r].uptime > 0

IsUpdate(r) == req[r].action = "update" /\ ~Promoted(r)

UpdateNotFound(r) == IsUpdate(r) /\ old[r] = NoServer

\* (fault) an update is trusted to keep its address
OnlyStartsAreChecked(r) ==
  ~IsUpdate(r) /\ req[r].address \notin ValidAddress

\* The address is looked at when it is new for the key.
BadAddress(r) ==
  /\ IsUpdate(r) => old[r].address # req[r].address
  /\ req[r].address \notin ValidAddress

NonMonotonic(r) == IsUpdate(r) /\ old[r].meta.uptime > req[r].uptime

Refuse(r) ==
  /\ pc[r] = "read" /\ req[r].action # "delete"
  /\ \/ UpdateNotFound(r) /\ Answer(r, "to update not found")
     \/ ~UpdateNotFound(r) /\ BadAddress(r) /\ Answer(r, "bad address")
     \/ /\ ~UpdateNotFound(r) /\ ~BadAddress(r) /\ NonMonotonic(r)
        /\ Answer(r, "non-monotonic uptime")
  /\ UNCHANGED <<SLvars, ETvars, timerVars, req, server>>

\* (fault) the listed object is updated in place
AnnouncedInPlace(r) ==
  LET s == TrackUpdate(ServerFromRequest(r, req[r].ip, req[r].port,
                         req[r].address, req[r].uptime, req[r].clients),
                       old[r], IsUpdate(r), now)
  IN  IF old[r] = NoServer THEN s ELSE [s EXCEPT !.id = old[r].id]

Announced(r) ==
  TrackUpdate(ServerFromRequest(r, req[r].ip, req[r].port, req[r].address,
                                req[r].uptime, req[r].clients),
              old[r], IsUpdate(r), now)

\* The object is made, the client learns of the previous verification's
\* complaint, and a goroutine takes over.
File(r) ==
  /\ pc[r] = "read" /\ req[r].action # "delete"
  /\ ~UpdateNotFound(r) /\ ~BadAddress(r) /\ ~NonMonotonic(r)
  /\ server' = [server EXCEPT ![r] = Announced(r)]
  /\ LET info == ET!Get(ErrorPK(Announced(r)))
     IN  reply' = [reply EXCEPT ![r] =
                     IF info = NoError THEN "filed"
                     ELSE IF info = "warning" THEN "filed, previous warning"
                     ELSE "filed, previous error"]
  /\ old' = Drop(old, r)
  /\ Goto(r, "filed")
  /\ UNCHANGED <<SLvars, ETvars, timerVars, req>>

-----------------------------------------------------------------------------
\* finishRequest.
\* (fault) an update needs no second look at the name
ForgetTrustsUpdates(r) ==
  /\ pc[r] = "filed"
  /\ ET!Remove(ErrorPK(server[r]))
  /\ Goto(r, IF req[r].action = "update" THEN "check" ELSE "resolve")
  /\ UNCHANGED <<SLvars, timerVars, req, old, server, reply>>

Forget(r) ==
  /\ pc[r] = "filed"
  /\ ET!Remove(ErrorPK(server[r]))
  /\ Goto(r, "resolve")
  /\ UNCHANGED <<SLvars, timerVars, req, old, server, reply>>

\* How far the resolved addresses bear out that the announcer owns the name.
VerifyLevel(s, ips) ==
  IF s.ip = s.address \/ s.ip \in ips THEN 3
  ELSE IF Family[s.ip] # "none" /\ \A a \in ips : Family[a] # Family[s.ip] THEN 2
  ELSE 1

Resolve(r) ==
  /\ pc[r] = "resolve"
  /\ \E ips \in Answers :
       LET level == VerifyLevel(server[r], ips)
       IN  /\ server' = [server EXCEPT ![r].verifyLevel = level]
           /\ IF level = 1 THEN ET!Put(ErrorPK(server[r]), "warning")
                           ELSE UNCHANGED ETvars
  /\ Goto(r, "check")
  /\ UNCHANGED <<SLvars, timerVars, req, old, reply>>

ResolveFails(r) ==
  /\ pc[r] = "resolve"
  /\ Goto(r, "failed")
  /\ UNCHANGED <<SLvars, ETvars, timerVars, req, old, server, reply>>

Check(r) ==
  /\ pc[r] = "check" /\ SL!Unlocked
  /\ Goto(r, IF SL!CheckDuplicate(server[r]) THEN "failed" ELSE "ping")
  /\ UNCHANGED <<SLvars, ETvars, timerVars, req, old, server, reply>>

\* (fault) the counts of the entry found on the list are added in
EnlistMerges(r) ==
  /\ pc[r] = "ping"
  /\ \E o \in SL!Get(server[r].ip, server[r].port) :
       SL!Update([server[r] EXCEPT
         !.updateCount = IF o = NoServer THEN @ ELSE @ + o.updateCount])
  /\ server' = Drop(server, r)
  /\ Goto(r, "over")
  /\ UNCHANGED <<ETvars, timerVars, req, old, reply>>

\* The server answered the ping: only now it is listed.
Enlist(r) ==
  /\ pc[r] = "ping"
  /\ SL!Update(server[r])
  /\ server' = Drop(server, r)
  /\ Goto(r, "over")
  /\ UNCHANGED <<ETvars, timerVars, req, old, reply>>

PingFails(r) ==
  /\ pc[r] = "ping"
  /\ Goto(r, "failed")
  /\ UNCHANGED <<SLvars, ETvars, timerVars, req, old, server, reply>>

\* Each failure posts its complaint and ends the verification.
Fail(r) ==
  /\ pc[r] = "failed"
  /\ ET!Put(ErrorPK(server[r]), "error")
  /\ server' = Drop(server, r)
  /\ Goto(r, "over")
  /\ UNCHANGED <<SLvars, timerVars, req, old, reply>>

-----------------------------------------------------------------------------
\* runTimer: purge and sweep once per CleanupInterval, then save.  At the
\* clock's bound a cleanup is always due: MaxTime stands for all later times.
CleanupDue == timer = "wait" /\ phase = "serving" /\ now >= nextCleanup

\* (fault) servers are purged by their age
PurgeByAge ==
  /\ CleanupDue /\ SL!Unlocked
  /\ list' = {s \in list : now - PurgeTime <= s.startTime}
  /\ modified' = (modified \/ list' # list)
  /\ timer' = "sweep"
  /\ UNCHANGED <<maxServers, maxClients, saver, phase, store, public,
                 ETvars, nextCleanup, requestVars>>

Purge ==
  /\ CleanupDue
  /\ SL!PurgeOld(now - PurgeTime)
  /\ timer' = "sweep"
  /\ UNCHANGED <<ETvars, nextCleanup, requestVars>>

Sweep ==
  /\ timer = "sweep"
  /\ ET!Cleanup
  /\ timer' = "save"
  /\ nextCleanup' = IF now + CleanupInterval < MaxTime
                    THEN now + CleanupInterval ELSE MaxTime
  /\ UNCHANGED <<SLvars, requestVars>>

\* main saves once before it serves, the timer at every pass.
SaveDue ==
  \/ phase = "boot"
  \/ phase = "serving" /\ (timer = "save" \/ (timer = "wait" /\ ~CleanupDue))

Save ==
  /\ SaveDue
  /\ SL!SaveStorage
  /\ timer' = "save"
  /\ UNCHANGED <<ETvars, nextCleanup, requestVars>>

Publish ==
  /\ SL!SavePublic
  /\ timer' = "wait"
  /\ nextCleanup' = IF phase = "boot" THEN now ELSE nextCleanup
  /\ UNCHANGED <<ETvars, requestVars>>

\* A failed save waits for the next pass of the timer; in main it is fatal.
SaveFails ==
  /\ (SaveDue /\ SL!SaveStorageFails) \/ SL!SavePublicFails
  /\ timer' = "wait"
  /\ UNCHANGED <<ETvars, nextCleanup, requestVars>>

-----------------------------------------------------------------------------
\* The world around.
Boot ==
  /\ SL!Load
  /\ UNCHANGED <<ETvars, timerVars, requestVars>>

\* Handlers, verifications and the error tracker die with the program.
Crash ==
  /\ SL!Crash
  /\ errors' = [k \in ErrorKey |-> NoError]
  /\ timer' = "wait" /\ nextCleanup' = 0
  /\ pc' = [r \in Request |-> IF pc[r] = "new" THEN "new" ELSE "over"]
  /\ old' = [r \in Request |-> NoServer]
  /\ server' = [r \in Request |-> NoServer]
  /\ UNCHANGED <<now, req, reply>>

Tick ==
  /\ ET!Tick
  /\ UNCHANGED <<SLvars, timerVars, requestVars>>

Handler(r) ==
  Receive(r) \/ DeleteMissing(r) \/ DeleteListed(r) \/ Refuse(r) \/ File(r)

Verification(r) ==
  \/ Forget(r) \/ Resolve(r) \/ ResolveFails(r) \/ Check(r)
  \/ Enlist(r) \/ PingFails(r) \/ Fail(r)

Timer == Purge \/ Sweep \/ Save \/ Publish \/ SaveFails

Next ==
  \/ \E r \in Request : Handler(r) \/ Verification(r)
  \/ Timer
  \/ Boot \/ Crash \/ Tick

Spec == Init /\ [][Next]_vars

\* Goroutines are scheduled, DNS and ping end (with an answer or a timeout),
\* time passes and the supervisor restarts the program.  Go's mutexes do not
\* starve a waiter, so what waits for mu is strongly fair; the disk is only
\* assumed not to refuse every write.  A verification at "ping" may fail or be
\* answered; one that was answered waits for mu and can fail no more, so its
\* end is only owed by Enlist.
Fairness ==
  /\ \A r \in Request :
       /\ WF_vars(Forget(r)) /\ WF_vars(Resolve(r) \/ ResolveFails(r))
       /\ SF_vars(Check(r)) /\ SF_vars(Enlist(r))
       /\ WF_vars(Fail(r))
       /\ WF_vars(DeleteMissing(r) \/ Refuse(r) \/ File(r))
       /\ SF_vars(DeleteListed(r))
  /\ SF_vars(Purge) /\ WF_vars(Sweep) /\ SF_vars(Save) /\ SF_vars(Publish)
  /\ WF_vars(Boot) /\ WF_vars(Tick)

FairSpec == Spec /\ Fairness

-----------------------------------------------------------------------------
\* Each variable has its Go type; a verification has an object of its own.
TimerOK == timer \in {"wait", "sweep", "save"} /\ nextCleanup \in 0..MaxTime

RequestsOK ==
  /\ pc \in [Request -> PC]
  /\ req \in [Request -> Announcement \cup {NoServer}]
  /\ old \in [Request -> Server \cup {NoServer}]
  /\ server \in [Request -> Server \cup {NoServer}]
  /\ reply \in [Request -> Reply]
  /\ \A r \in Request :
       /\ pc[r] = "read" => req[r] # NoServer
       /\ pc[r] \in Verifying => server[r] # NoServer /\ server[r].id = r

TypeOK == SL!TypeOK /\ ET!TypeOK /\ TimerOK /\ RequestsOK

\* Wherever a server can still get onto the list from, and on it.
Live == list \cup {server[r] : r \in {x \in Request : pc[x] \in Verifying}}

\* checkRequestAddress only runs for a start and for a changed address; an
\* update inherits the verdict from the object it read.  That object may be
\* gone, replaced or reloaded meanwhile, and still no server with an address
\* the program would refuse is ever listed or on its way there.
AddressAlwaysChecked == \A s \in Live : s.address \in ValidAddress

\* Nothing gets onto the list, or into its files, unverified.
ListedAreVerified == \A s \in list : s.verifyLevel \in 1..3

Filed == {"filed", "filed, previous warning", "filed, previous error"}

ErrorKeyOf(a) == <<a.ip, a.port, a.address>>

\* Updates may be lost when two verifications of one server overlap (the
\* later one to finish wins), but none is ever counted twice: not by a
\* retry, an overlap, a reload after a crash or a delete in between.
UpdatesNotCountedTwice ==
  \A s \in list :
    s.updateCount <= Cardinality({r \in Request : /\ reply[r] \in Filed
                                                 /\ Key(req[r]) = Key(s)})

\* What a client is told of "the previous one" is about a request of its own:
\* an earlier one from its IP, for the same port and address, that was filed
\* too, although the complaint is posted by a verification nobody waits for.
NoForeignComplaints ==
  \A r \in Request :
    reply[r] \in Filed \ {"filed"} =>
      \E x \in Request \ {r} :
        reply[x] \in Filed /\ ErrorKeyOf(req[x]) = ErrorKeyOf(req[r])

\* The counters a server accumulates stay consistent: the average the public
\* sees never exceeds the best of its updates.
AverageBelowTop == \A s \in Live : AverageClients(s) <= s.meta.clients_top

-----------------------------------------------------------------------------
\* What the repository says of itself and overlapping requests refute.

\* "unix time of last update received" (server.py, field updateTime): a later
\* listing never carries an earlier time.
UpdateTimeNeverRegresses ==
  [][\A s \in list, t \in list' :
       phase' = "serving" /\ Key(s) = Key(t) => s.updateTime <= t.updateTime]_vars

\* "Removed from server list." (announce): a client that is told so has no
\* entry on the list.
RemovedMeansGone ==
  [][\A r \in Request :
       reply[r] # "removed" /\ reply'[r] = "removed" =>
         \A s \in list' : Key(s) # Key(req[r])]_vars

\* "we have a duplicate but the more trusted one gets to stay" (is_duplicate):
\* of two claimants of one endpoint with different trust, one is listed.
OnlyTheMoreTrustedStays == \A s, t \in list : ~IsDuplicate(s, t)

-----------------------------------------------------------------------------
StaysUp == <>[](phase = "serving")

\* Every request comes to an end, its verification included, with saves that
\* fail while they hold mu; and unless the program dies before, the client of a
\* handler that has read the list is answered.
EveryRequestEnds ==
  \A r \in Request :
    /\ pc[r] \notin {"new", "over"} ~> pc[r] = "over"
    /\ pc[r] = "read" ~> (reply[r] # "none" \/ phase = "down")

\* A server that stopped announcing leaves list.json, although one of its
\* verifications may finish after any number of purges.
SilentServersLeave ==
  StaysUp =>
    []<>(public # NoFile /\
         public.list \subseteq
           SL!Shown({s \in list : s.updateTime + PurgeTime >= MaxTime}))
=============================================================================
