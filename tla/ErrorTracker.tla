---------------------------- MODULE ErrorTracker ----------------------------
(***************************************************************************)
(* The error tracker of src/errors.go: what the last verification of a     *)
(* server had to complain about, kept for a while under the server's       *)
(* ErrorPK so that its next announcement can be told.  Every operation     *)
(* runs under the tracker's mutex and is one step.                         *)
(***************************************************************************)
EXTENDS Integers

CONSTANTS
  ErrorKey,  \* the strings ErrorPK can return
  ErrorInfo, \* what can be reported: warnings and errors
  NoError,   \* Go's nil *ErrorInfo, and a key the map does not hold
  Validity,  \* how long an entry is reported (10 minutes)
  MaxTime    \* bound of the clock

ASSUME ErrorAssumption ==
  /\ Validity \in Nat /\ MaxTime \in Nat
  /\ NoError \notin ErrorInfo
  /\ NoError \notin [expires : Nat, info : ErrorInfo]
  /\ NoError \notin [info : ErrorInfo, left : Nat]

VARIABLES
  table,     \* the tracker's map
  now        \* the wall clock

vars == <<table, now>>

Entry == [expires : Nat, info : ErrorInfo]

Expired(entry) == now > entry.expires

Init == table = [k \in ErrorKey |-> NoError] /\ now = 0

\* (fault) a pending entry is prolonged instead of replaced
PutProlongs(k, info) ==
  /\ table' = [table EXCEPT ![k] =
                 [expires |-> IF @ = NoError THEN now + Validity
                              ELSE @.expires + Validity,
                  info |-> info]]
  /\ UNCHANGED now

Put(k, info) ==
  /\ table' = [table EXCEPT ![k] = [expires |-> now + Validity, info |-> info]]
  /\ UNCHANGED now

Remove(k) ==
  /\ table' = [table EXCEPT ![k] = NoError]
  /\ UNCHANGED now

Get(k) ==
  IF table[k] = NoError \/ Expired(table[k]) THEN NoError ELSE table[k].info

\* (fault) the entries of the current instant are swept too
CleanupEarly ==
  /\ table' = [k \in ErrorKey |->
                 IF table[k] # NoError /\ now >= table[k].expires
                 THEN NoError ELSE table[k]]
  /\ UNCHANGED now

Cleanup ==
  /\ table' = [k \in ErrorKey |->
                 IF table[k] # NoError /\ Expired(table[k])
                 THEN NoError ELSE table[k]]
  /\ UNCHANGED now

Tick == now < MaxTime /\ now' = now + 1 /\ UNCHANGED table

Next ==
  \/ \E k \in ErrorKey : (\E info \in ErrorInfo : Put(k, info)) \/ Remove(k)
  \/ Cleanup
  \/ Tick

Spec == Init /\ [][Next]_vars

-----------------------------------------------------------------------------
\* The map holds ErrorInfos whose expiry lies at most Validity ahead: no
\* entry outlives a later one.
TypeOK ==
  /\ now \in 0..MaxTime
  /\ table \in [ErrorKey -> Entry \cup {NoError}]
  /\ \A k \in ErrorKey : table[k] # NoError => table[k].expires <= now + Validity

-----------------------------------------------------------------------------
\* What a caller can tell: the pending complaint and the time left to it.
Visible ==
  [k \in ErrorKey |->
     IF Get(k) = NoError THEN NoError
     ELSE [info |-> Get(k), left |-> table[k].expires - now]]

Board == INSTANCE ErrorBoard WITH board <- Visible, clock <- now

\* Through Get the tracker is a board on which a complaint stands for exactly
\* Validity and then disappears by itself: Cleanup, whenever it runs, frees
\* memory and takes nothing, not one entry, from what Get still has to report.
ImplementsBoard == Board!Spec /\ [][Cleanup => UNCHANGED Visible]_vars
=============================================================================
