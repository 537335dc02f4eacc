------------------------ MODULE ServerListImplements ------------------------
(***************************************************************************)
(* ServerList implements ServerTable: the refinement mapping.  While the   *)
(* process is down the table is what a reload will bring back, so that a   *)
(* crash is the table's recovery and the reload itself is a stutter.       *)
(***************************************************************************)
EXTENDS ServerList

CONSTANT None  \* no entry under a key

ASSUME NoneAssumption == None \notin StoredServer

\* Stored entries as a function of their key.
TableOf(entries) ==
  [k \in IP \X Port |->
     IF \E e \in entries : <<e[1], e[2]>> = k
     THEN CHOOSE e \in entries : <<e[1], e[2]>> = k
     ELSE None]

SavedTable == TableOf(IF store = NoFile THEN {} ELSE store.list)

MemoryTable == IF phase = "down" THEN SavedTable ELSE TableOf(Stored(list))

ShownView == IF public = NoFile THEN NoFile ELSE public.list

Table == INSTANCE ServerTable WITH
  Entries <- Stored(Submitted),
  table <- MemoryTable, saved <- SavedTable, shown <- ShownView

\* Every behaviour of the list is one of the abstract table: an operation
\* touches only its own keys, a restart restores exactly the last checkpoint
\* and list.json only shows the checkpoint.
ImplementsTable == Table!Spec
=============================================================================
