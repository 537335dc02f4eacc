---------------------------- MODULE ServerTable -----------------------------
(***************************************************************************)
(* What the server list promises its callers and the readers of its files: *)
(* a table with at most one entry per (ip, port), a durable copy of some   *)
(* past table, a recovery to exactly that copy, and a published view that  *)
(* only ever shows the durable copy.                                       *)
(***************************************************************************)
EXTENDS ServerRecord

CONSTANTS
  Entries, \* what may be put into the table
  None,    \* no entry under a key
  NoFile   \* nothing published

VARIABLES table, saved, shown

vars == <<table, saved, shown>>

Keys == IP \X Port

KeyOf(e) == <<e[1], e[2]>>

View(t) == {ToListJSON(FromStorage(t[k])) : k \in {x \in Keys : t[x] # None}}

Init ==
  /\ table = [k \in Keys |-> None]
  /\ saved = [k \in Keys |-> None]
  /\ shown = NoFile

\* An entry is added or replaced under its own key; no other key changes.
Put(e) ==
  /\ table' = [table EXCEPT ![KeyOf(e)] = e]
  /\ UNCHANGED <<saved, shown>>

\* Entries are deleted or expire.
Drop(K) ==
  /\ table' = [k \in Keys |-> IF k \in K THEN None ELSE table[k]]
  /\ UNCHANGED <<saved, shown>>

Checkpoint == saved' = table /\ UNCHANGED <<table, shown>>

\* A crash: everything after the last checkpoint is lost, nothing else.
Recover == table' = saved /\ UNCHANGED <<saved, shown>>

Publish == shown' = View(saved) /\ UNCHANGED <<table, saved>>

LoseShown == shown' = NoFile /\ UNCHANGED <<table, saved>>

Next ==
  \/ \E e \in Entries : Put(e)
  \/ \E K \in SUBSET Keys : Drop(K)
  \/ Checkpoint \/ Recover \/ Publish \/ LoseShown

Spec == Init /\ [][Next]_vars
=============================================================================
