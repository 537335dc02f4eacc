------------------------- MODULE ErrorTrackerProofs -------------------------
(***************************************************************************)
(* The tracker implements the board for every set of keys and complaints,  *)
(* every validity period and every bound of the clock.                     *)
(***************************************************************************)
EXTENDS ErrorTracker, TLAPS

LEMMA InitTracker == Init => TypeOK
BY ErrorAssumption DEF Init, TypeOK, Entry

LEMMA NextTracker == TypeOK /\ [Next]_vars => TypeOK'
<1> SUFFICES ASSUME TypeOK, [Next]_vars PROVE TypeOK'
  OBVIOUS
<1> USE ErrorAssumption DEF TypeOK, Entry
<1>1. ASSUME NEW k \in ErrorKey, NEW info \in ErrorInfo, Put(k, info)
      PROVE  TypeOK'
  BY <1>1 DEF Put
<1>2. ASSUME NEW k \in ErrorKey, Remove(k) PROVE TypeOK'
  BY <1>2 DEF Remove
<1>3. CASE Cleanup
  BY <1>3 DEF Cleanup
<1>4. CASE Tick
  <2>1. \A k \in ErrorKey : table[k] # NoError => table[k].expires \in Nat
    OBVIOUS
  <2> QED BY <1>4, <2>1 DEF Tick
<1>5. CASE UNCHANGED vars
  BY <1>5 DEF vars
<1> QED BY <1>1, <1>2, <1>3, <1>4, <1>5 DEF Next

\* The map never holds an entry that would be reported longer than Validity
\* from now on.
THEOREM TrackerTypeCorrect == Spec => []TypeOK
BY InitTracker, NextTracker, PTL DEF Spec

-----------------------------------------------------------------------------
\* What a caller sees of one entry at time t.
Seen(entry, t) ==
  IF entry = NoError \/ t > entry.expires THEN NoError
  ELSE [info |-> entry.info, left |-> entry.expires - t]

LEMMA VisibleIsSeen ==
  ASSUME TypeOK
  PROVE  Visible = [k \in ErrorKey |-> Seen(table[k], now)]
<1> SUFFICES ASSUME NEW k \in ErrorKey
             PROVE  Visible[k] = Seen(table[k], now)
  BY DEF Visible
<1>1. table[k] # NoError => table[k].info # NoError
  BY ErrorAssumption DEF TypeOK, Entry
<1> QED BY <1>1 DEF Visible, Get, Expired, Seen

\* Time passing ages what is seen; an entry that is not seen stays unseen.
LEMMA SeenAges ==
  ASSUME NEW entry \in Entry \cup {NoError}, NEW t \in Nat
  PROVE  Seen(entry, t + 1) = Board!Aged(Seen(entry, t))
<1> USE ErrorAssumption
<1>1. CASE entry = NoError
  BY <1>1 DEF Seen, Board!Aged
<1>2. CASE entry # NoError
  <2>1. entry.expires \in Nat /\ entry.info \in ErrorInfo
    BY <1>2 DEF Entry
  <2>2. CASE t > entry.expires
    BY <1>2, <2>1, <2>2 DEF Seen, Board!Aged
  <2>3. CASE t = entry.expires
    BY <1>2, <2>1, <2>3 DEF Seen, Board!Aged
  <2>4. CASE t < entry.expires
    <3> DEFINE note == [info |-> entry.info, left |-> entry.expires - t]
    <3>1. note \in [info : ErrorInfo, left : Nat] /\ note.left # 0
      BY <2>1, <2>4
    <3>2. Seen(entry, t) = note /\ note # NoError
      BY <1>2, <2>1, <2>4, <3>1 DEF Seen
    <3>3. Seen(entry, t + 1) =
            [info |-> entry.info, left |-> entry.expires - (t + 1)]
      BY <1>2, <2>1, <2>4 DEF Seen
    <3>4. Board!Aged(note) = [info |-> entry.info, left |-> note.left - 1]
      BY <3>1, <3>2 DEF Board!Aged
    <3>5. note.left - 1 = entry.expires - (t + 1)
      BY <2>1
    <3> QED BY <3>2, <3>3, <3>4, <3>5
  <2> QED BY <2>1, <2>2, <2>3, <2>4
<1> QED BY <1>1, <1>2

\* A sweep takes nothing that Get would report.
LEMMA SweepIsInvisible ==
  ASSUME TypeOK, TypeOK', Cleanup
  PROVE  UNCHANGED Visible
<1> USE ErrorAssumption
<1>1. Visible = [k \in ErrorKey |-> Seen(table[k], now)]
  BY VisibleIsSeen
<1>2. Visible' = [k \in ErrorKey |-> Seen(table'[k], now')]
  <2>1. \A k \in ErrorKey : table'[k] # NoError => table'[k].info # NoError
    BY DEF TypeOK, Entry
  <2> QED BY <2>1 DEF Visible, Get, Expired, Seen
<1>3. \A k \in ErrorKey : Seen(table'[k], now') = Seen(table[k], now)
  BY DEF Cleanup, Expired, Seen
<1> QED BY <1>1, <1>2, <1>3

\* Every step of the tracker is a step of the board or invisible on it.
LEMMA TrackerStep ==
  ASSUME TypeOK, TypeOK', [Next]_vars
  PROVE  [Board!Next]_(Board!vars)
<1> USE ErrorAssumption
<1>1. Visible = [k \in ErrorKey |-> Seen(table[k], now)]
  BY VisibleIsSeen
<1>2. Visible' = [k \in ErrorKey |-> Seen(table'[k], now')]
  <2>1. \A k \in ErrorKey : table'[k] # NoError => table'[k].info # NoError
    BY DEF TypeOK, Entry
  <2> QED BY <2>1 DEF Visible, Get, Expired, Seen
<1>3. /\ now \in Nat
      /\ table \in [ErrorKey -> Entry \cup {NoError}]
  BY DEF TypeOK
<1>4. ASSUME NEW k \in ErrorKey, NEW info \in ErrorInfo, Put(k, info)
      PROVE  Board!Post(k, info)
  <2>1. table'[k] = [expires |-> now + Validity, info |-> info] /\ now' = now
    BY <1>3, <1>4 DEF Put
  <2>2. table'[k] \in Entry
    BY <1>3, <2>1 DEF Entry
  <2>3. Seen(table'[k], now') = [info |-> info, left |-> Validity]
    BY <1>3, <2>1, <2>2 DEF Seen, Entry
  <2>4. \A j \in ErrorKey \ {k} : Seen(table'[j], now') = Seen(table[j], now)
    BY <1>3, <1>4 DEF Put
  <2> QED BY <1>1, <1>2, <2>1, <2>3, <2>4 DEF Board!Post
<1>5. ASSUME NEW k \in ErrorKey, Remove(k)
      PROVE  Board!Clear(k)
  <2>1. table'[k] = NoError /\ now' = now
    BY <1>3, <1>5 DEF Remove
  <2>2. \A j \in ErrorKey \ {k} : table'[j] = table[j]
    BY <1>3, <1>5 DEF Remove
  <2> QED BY <1>1, <1>2, <2>1, <2>2 DEF Board!Clear, Seen
<1>6. CASE Cleanup
  BY <1>6, SweepIsInvisible DEF Cleanup, Board!vars
<1>7. CASE Tick
  <2>1. \A k \in ErrorKey :
          Seen(table'[k], now') = Board!Aged(Seen(table[k], now))
    BY <1>3, <1>7, SeenAges DEF Tick
  <2>2. Board!Age
    BY <1>1, <1>2, <1>7, <2>1 DEF Board!Age, Tick
  <2> QED BY <2>2 DEF Board!Next
<1>8. CASE UNCHANGED vars
  BY <1>1, <1>2, <1>8 DEF vars, Board!vars
<1> QED BY <1>4, <1>5, <1>6, <1>7, <1>8 DEF Next, Board!Next

LEMMA TrackerInit == Init => Board!Init
BY DEF Init, Board!Init, Visible, Get

\* Through Get the tracker is the board: a complaint stands from Put until it
\* is removed, replaced or Validity old, and sweeping the map is invisible.
THEOREM TrackerImplementsBoard == Spec => ImplementsBoard
<1>1. TypeOK /\ TypeOK' /\ [Next]_vars => [Board!Next]_(Board!vars)
  BY TrackerStep
<1>2. TypeOK /\ TypeOK' /\ [Next]_vars => [Cleanup => UNCHANGED Visible]_vars
  BY SweepIsInvisible
<1> QED BY <1>1, <1>2, InitTracker, NextTracker, TrackerInit, PTL
        DEF Spec, Board!Spec, ImplementsBoard
=============================================================================
