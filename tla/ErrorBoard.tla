----------------------------- MODULE ErrorBoard -----------------------------
(***************************************************************************)
(* What the error tracker promises: a complaint is readable from the       *)
(* moment it is posted until it is cleared or its time has run out, and    *)
(* nothing else removes it.                                                *)
(***************************************************************************)
EXTENDS Integers

CONSTANTS ErrorKey, ErrorInfo, NoError, Validity

VARIABLES board, clock

vars == <<board, clock>>

Init == board = [k \in ErrorKey |-> NoError] /\ clock = 0

Post(k, info) ==
  /\ board' = [board EXCEPT ![k] = [info |-> info, left |-> Validity]]
  /\ UNCHANGED clock

Clear(k) ==
  /\ board' = [board EXCEPT ![k] = NoError]
  /\ UNCHANGED clock

\* Time passes for every complaint at once.
Aged(note) ==
  IF note = NoError \/ note.left = 0 THEN NoError
  ELSE [info |-> note.info, left |-> note.left - 1]

Age ==
  /\ board' = [k \in ErrorKey |-> Aged(board[k])]
  /\ clock' = clock + 1

Next ==
  \/ \E k \in ErrorKey : (\E info \in ErrorInfo : Post(k, info)) \/ Clear(k)
  \/ Age

Spec == Init /\ [][Next]_vars
=============================================================================
