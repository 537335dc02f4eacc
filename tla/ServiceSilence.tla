---------------------------- MODULE ServiceSilence ----------------------------
(***************************************************************************)
(* Service with history variables: when the announcements of a server were *)
(* made, whatever the entry on the list says of it.  An entry's updateTime *)
(* goes back when an older verification finishes after a newer one (the    *)
(* finding on UpdateTimeNeverRegresses), so that the purge, which looks at *)
(* nothing else, cannot be judged by it.                                   *)
(*                                                                         *)
(* Record only remembers: every step of Service can be taken, and Service  *)
(* never looks at these variables.                                         *)
(***************************************************************************)
EXTENDS Service

VARIABLES
  filedAt,   \* when each request in verification was filed
  late,      \* those whose server had another announcement listed since then
  heard,     \* of each listed server, the announcements listed: when filed
  overtaken, \* the servers whose last listed announcement was late
  saved      \* heard and overtaken of the list that store.json holds

silenceVars == <<filedAt, late, heard, overtaken, saved>>

ServerKey == IP \X Port

Listed == {Key(s) : s \in list}

InitRecord ==
  /\ filedAt = [r \in Request |-> 0] /\ late = {}
  /\ heard = [k \in ServerKey |-> {}] /\ overtaken = {}
  /\ saved = [heard |-> heard, overtaken |-> overtaken]

\* The events of a step: who is filed and who is listed by it, whether it
\* writes or reads store.json.
Filing(r)  == pc[r] = "read" /\ pc'[r] = "filed"
Listing(k) == {r \in Request : /\ pc[r] = "ping" /\ pc'[r] = "over"
                               /\ phase' = "serving" /\ Key(server[r]) = k}
Storing    == modified /\ saver = "idle" /\ saver' = "public"
Loading    == phase = "down" /\ phase' = "boot"

\* A crash forgets what was not saved, of the announcements as of the list.
Record ==
  /\ filedAt' = [r \in Request |-> IF Filing(r) THEN now
                                   ELSE IF pc'[r] \in Verifying THEN filedAt[r]
                                   ELSE 0]
  /\ late' = {r \in Request : /\ pc[r] \in Verifying /\ pc'[r] \in Verifying
                              /\ r \in late \/ Listing(Key(server[r])) # {}}
  /\ LET stays == Listed'
     IN  /\ heard' = [k \in ServerKey |->
                        IF k \notin stays THEN {}
                        ELSE IF Loading THEN saved.heard[k]
                        ELSE heard[k] \cup {filedAt[r] : r \in Listing(k)}]
         /\ overtaken' = {k \in stays : IF Loading THEN k \in saved.overtaken
                                        ELSE IF Listing(k) = {} THEN k \in overtaken
                                        ELSE Listing(k) \cap late # {}}
  /\ saved' = IF Storing THEN [heard |-> heard, overtaken |-> overtaken]
              ELSE saved

SilenceSpec ==
  Init /\ InitRecord /\ [][Next /\ Record]_<<vars, silenceVars>>

-----------------------------------------------------------------------------
LongAgo(t) == t + PurgeTime < now

\* What the purge may take away.  A server whose verifications finish in the
\* order they were filed must have been silent: all its listed announcements
\* are older than PurgeTime.  Of one whose last listed announcement was
\* overtaken the code guarantees less, that one of them is.
MayBePurged(k) ==
  /\ \E t \in heard[k] : LongAgo(t)
  /\ k \notin overtaken => \A t \in heard[k] : LongAgo(t)

\* A listed server leaves a running program's list only by a delete request
\* of its own key or by silence: by the times at which its announcements were
\* made, which go through an object in verification, the list, store.json and
\* a reload before PurgeOld compares them, past purges, deletes and crashes.
\* It may go early only after verifications of it that overlapped finished in
\* the wrong order; what a crash lost before it was saved was never heard.
OnlySilentOrDeleted ==
  [][\A k \in Listed \ Listed' :
       phase' = "serving" =>
         \/ MayBePurged(k)
         \/ \E r \in Request : /\ pc[r] = "read" /\ pc'[r] = "over"
                               /\ req[r].action = "delete"
                               /\ Key(req[r]) = k]_<<vars, silenceVars>>
=============================================================================
