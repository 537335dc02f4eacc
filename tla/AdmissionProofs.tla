-------------------------- MODULE AdmissionProofs ---------------------------
(***************************************************************************)
(* The request checks are right for every set of fields, every request and *)
(* every order in which the fields are visited.                            *)
(***************************************************************************)
EXTENDS Admission, FiniteSetTheorems, WellFoundedInduction, TLAPS

-----------------------------------------------------------------------------
\* sortUniqueStringList keeps the texts of a list: no two have as many smaller
\* ones, so that each of them has its place.
LEMMA SortKeepsTexts ==
  ASSUME NEW v, IsFiniteSet(Texts(v)), Texts(v) \subseteq DOMAIN ByteOrder
  PROVE  Texts(SortUnique(v)) = Texts(v)
<1> DEFINE T == Texts(v)
           Smaller(t) == {u \in T : ByteOrder[u] < ByteOrder[t]}
           n == Cardinality(T)
           rank == [t \in T |-> Cardinality(Smaller(t))]
           place == [t \in T |-> rank[t] + 1]
           sorted == [i \in 1..n |-> CHOOSE t \in T : Cardinality(Smaller(t)) = i - 1]
<1>1. \A t \in T : ByteOrder[t] \in Int /\ \A u \in T : ByteOrder[t] = ByteOrder[u] => t = u
  BY StringAssumption
<1>2. n \in Nat
  BY FS_CardinalityType
<1>3. ASSUME NEW t \in T, NEW S \in SUBSET T, t \in S, Smaller(t) \subseteq S
      PROVE  Cardinality(Smaller(t)) \in Nat /\ Cardinality(Smaller(t)) < Cardinality(S)
  <2>1. t \notin Smaller(t) /\ Smaller(t) # S
    BY <1>1, <1>3
  <2>2. IsFiniteSet(S) /\ IsFiniteSet(Smaller(t))
    BY FS_Subset
  <2> QED BY <1>3, <2>1, <2>2, FS_Subset, FS_CardinalityType
<1>4. rank \in [T -> 0..(n - 1)]
  <2>1. ASSUME NEW t \in T PROVE Cardinality(Smaller(t)) \in 0..(n - 1)
    <3>1. T \in SUBSET T /\ Smaller(t) \subseteq T
      OBVIOUS
    <3>2. Cardinality(Smaller(t)) \in Nat /\ Cardinality(Smaller(t)) < n
      BY <1>3, <3>1
    <3> QED BY <1>2, <3>2
  <2> QED BY <2>1
<1>5. ASSUME NEW t \in T, NEW u \in T, ByteOrder[t] < ByteOrder[u]
      PROVE  rank[t] < rank[u]
  <2>1. t \in Smaller(u) /\ Smaller(t) \subseteq Smaller(u) /\ Smaller(u) \in SUBSET T
    BY <1>1, <1>5
  <2>2. Cardinality(Smaller(t)) < Cardinality(Smaller(u))
    BY <1>3, <2>1
  <2>3. rank[t] = Cardinality(Smaller(t)) /\ rank[u] = Cardinality(Smaller(u))
    OBVIOUS
  <2> HIDE DEF rank, Smaller
  <2> QED BY <2>2, <2>3
<1>6. \A t \in T : rank[t] = Cardinality(Smaller(t))
  OBVIOUS
<1> HIDE DEF rank, Smaller, n
<1>7. \A t, u \in T : rank[t] = rank[u] => t = u
  <2> SUFFICES ASSUME NEW t \in T, NEW u \in T, t # u PROVE rank[t] # rank[u]
    OBVIOUS
  <2>1. rank[t] \in Int /\ rank[u] \in Int
    BY <1>2, <1>4
  <2>2. CASE ByteOrder[t] < ByteOrder[u]
    BY <1>5, <2>1, <2>2
  <2>3. CASE ByteOrder[u] < ByteOrder[t]
    BY <1>5, <2>1, <2>3
  <2> QED BY <1>1, <2>2, <2>3
<1>8. \A i \in 1..n : \E t \in T : rank[t] = i - 1
  <2>1. place \in [T -> 1..n] /\ \A t \in T : rank[t] \in Int /\ place[t] = rank[t] + 1
    BY <1>2, <1>4
  <2> HIDE DEF place
  <2>2. \A t, u \in T : place[t] = place[u] => t = u
    BY <1>7, <2>1
  <2>3. place \in Injection(T, 1..n)
    BY <2>1, <2>2 DEF Injection, IsInjective
  <2>4. IsFiniteSet(1..n) /\ Cardinality(1..n) = n
    BY <1>2, FS_Interval
  <2>5. place \in Surjection(T, 1..n)
    BY <2>3, <2>4, FS_Injection DEF n
  <2>6. \A i \in 1..n : \E t \in T : place[t] = i
    BY <2>5 DEF Surjection
  <2>7. ASSUME NEW i \in 1..n PROVE \E t \in T : rank[t] = i - 1
    <3>1. PICK t \in T : place[t] = i
      BY <2>6
    <3>2. rank[t] \in Int /\ i = rank[t] + 1
      BY <2>1, <3>1
    <3>3. rank[t] = i - 1
      BY <3>2
    <3> QED BY <3>3
  <2> QED BY <2>7
<1>9. ASSUME NEW i \in 1..n
      PROVE  sorted[i] \in T /\ rank[sorted[i]] = i - 1
  <2>1. \E t \in T : Cardinality(Smaller(t)) = i - 1
    BY <1>6, <1>8
  <2>2. sorted[i] \in T /\ Cardinality(Smaller(sorted[i])) = i - 1
    BY <2>1
  <2> QED BY <1>6, <2>2
<1>10. ASSUME NEW t \in T
       PROVE  \E i \in 1..n : sorted[i] = t
  <2>1. rank[t] + 1 \in 1..n /\ (rank[t] + 1) - 1 = rank[t]
    BY <1>2, <1>4
  <2>2. rank[sorted[rank[t] + 1]] = rank[t] /\ sorted[rank[t] + 1] \in T
    BY <1>9, <2>1
  <2> QED BY <1>7, <2>1, <2>2
<1>11. Texts(SortUnique(v)) = {sorted[i] : i \in 1..n}
  BY DEF Texts, SortUnique, List, Str, n, Smaller
<1> HIDE DEF sorted, T
<1>12. {sorted[i] : i \in 1..n} = T
  BY <1>9, <1>10
<1> QED BY <1>11, <1>12 DEF T

\* Sorting what was sorted changes nothing.
LEMMA SortTwice ==
  ASSUME NEW v, IsFiniteSet(Texts(v)), Texts(v) \subseteq DOMAIN ByteOrder
  PROVE  /\ SortUnique(SortUnique(v)) = SortUnique(v)
         /\ Texts(SortUnique(v)) = Texts(v)
         /\ Len(SortUnique(v).is) \in Nat
<1> DEFINE At(T, i) ==
             Str(CHOOSE t \in T : Cardinality({u \in T : ByteOrder[u] < ByteOrder[t]}) = i - 1)
           Sorted(T) == List([i \in 1..Cardinality(T) |-> At(T, i)])
<1>1. \A w : SortUnique(w) = Sorted(Texts(w))
  BY DEF SortUnique
<1>2. Texts(SortUnique(v)) = Texts(v)
  BY SortKeepsTexts
<1>3. Cardinality(Texts(v)) \in Nat
  BY FS_CardinalityType
<1> HIDE DEF At
<1>4. SortUnique(v).is = [i \in 1..Cardinality(Texts(v)) |-> At(Texts(v), i)]
  BY <1>1 DEF List
<1>5. SortUnique(v).is \in Seq({At(Texts(v), i) : i \in 1..Cardinality(Texts(v))})
  BY <1>3, <1>4
<1> HIDE DEF Sorted
<1> QED BY <1>1, <1>2, <1>5

-----------------------------------------------------------------------------
\* A set of indices has a least one.
LEMMA LeastIndex ==
  ASSUME NEW S \in SUBSET Nat, S # {}
  PROVE  \E i \in S : \A j \in S : i <= j
<1>1. PICK i \in S : \A j \in S : ~(<<j, i>> \in OpToRel(<, Nat))
  BY NatLessThanWellFounded, WFMin, Zenon
<1>2. ASSUME NEW j \in S PROVE i <= j
  <2>1. <<j, i>> \in Nat \X Nat /\ i \in Nat /\ j \in Nat
    OBVIOUS
  <2>2. j < i => <<j, i>> \in OpToRel(<, Nat)
    BY <2>1 DEF OpToRel
  <2>3. ~(j < i)
    BY <1>1, <2>2, Zenon
  <2> QED BY <2>1, <2>3
<1> QED BY <1>2

\* The sources in their order, and the one that forwardedIP takes.
LEMMA SourceOrder ==
  ASSUME NEW request, NEW Text, request.forwardedFor \in Seq(Text)
  PROVE  \E n \in Nat :
           LET parts == request.forwardedFor
               all == Sources(request, TRUE)
           IN  /\ DOMAIN parts = 1..n /\ DOMAIN all = 1..(n + 2)
               /\ \A i \in 1..n : all[i] = parts[i]
               /\ all[n + 1] = request.realIP /\ all[n + 2] = request.remoteAddr
               /\ DOMAIN Sources(request, FALSE) = {1}
               /\ Sources(request, FALSE)[1] = request.remoteAddr
<1> DEFINE parts == request.forwardedFor
           all == Sources(request, TRUE)
<1>1. PICK n \in Nat : n = Len(parts) /\ DOMAIN parts = 1..n
  OBVIOUS
<1>2. DOMAIN all = 1..(n + 2) /\ \A i \in 1..n : all[i] = parts[i]
  BY <1>1 DEF Sources
<1>3. all[n + 1] = request.realIP /\ all[n + 2] = request.remoteAddr
  BY <1>1 DEF Sources
<1>4. /\ DOMAIN Sources(request, FALSE) = {1}
      /\ Sources(request, FALSE)[1] = request.remoteAddr
  BY DEF Sources
<1> QED BY <1>1, <1>2, <1>3, <1>4, Zenon

\* remoteIP is the normal form of the first source that has one, however many
\* parts X-Forwarded-For has.
LEMMA FirstSource ==
  ASSUME NEW request, NEW Text, request.forwardedFor \in Seq(Text),
         NEW trusted \in BOOLEAN
  PROVE  LET sources == Sources(request, trusted)
         IN  \/ /\ RemoteIP(request, trusted) = ""
                /\ \A i \in DOMAIN sources : NormalizeIPString(sources[i]) = ""
             \/ \E i \in DOMAIN sources :
                  /\ RemoteIP(request, trusted) = NormalizeIPString(sources[i])
                  /\ RemoteIP(request, trusted) # ""
                  /\ \A j \in 1..(i - 1) :
                       j \in DOMAIN sources /\ NormalizeIPString(sources[j]) = ""
<1> DEFINE parts == request.forwardedFor
           sources == Sources(request, trusted)
           N(text) == NormalizeIPString(text)
<1>1. PICK n \in Nat :
        /\ DOMAIN parts = 1..n
        /\ trusted => /\ DOMAIN sources = 1..(n + 2)
                      /\ \A i \in 1..n : sources[i] = parts[i]
                      /\ sources[n + 1] = request.realIP
                      /\ sources[n + 2] = request.remoteAddr
        /\ ~trusted => DOMAIN sources = {1} /\ sources[1] = request.remoteAddr
  BY SourceOrder
<1>2. PICK none : none = ""
  BY Zenon
<1>3. PICK result : result = RemoteIP(request, trusted)
  OBVIOUS
<1>4. result = IF trusted /\ ForwardedIP(request) # none THEN ForwardedIP(request)
               ELSE N(request.remoteAddr)
  BY <1>2, <1>3, Zenon DEF RemoteIP
<1>5. ForwardedIP(request) =
        LET usable == {i \in DOMAIN parts : N(parts[i]) # ""}
            first  == CHOOSE i \in usable : \A j \in usable : i <= j
        IN  N(IF usable # {} THEN parts[first] ELSE request.realIP)
  BY Zenon DEF ForwardedIP
<1> HIDE DEF N
<1>6. PICK ips : ips = [i \in DOMAIN sources |-> N(sources[i])]
  OBVIOUS
<1>7. \A i \in DOMAIN sources : ips[i] = N(sources[i])
  BY <1>6
<1>8. \/ result = none /\ \A i \in DOMAIN sources : ips[i] = none
      \/ \E i \in DOMAIN sources :
           /\ result = ips[i] /\ result # none
           /\ \A j \in 1..(i - 1) : j \in DOMAIN sources /\ ips[j] = none
  <2>1. CASE ~trusted
    <3>1. result = ips[1] /\ DOMAIN sources = {1}
      BY <1>1, <1>4, <1>7, <2>1
    <3>2. 1..(1 - 1) = {}
      OBVIOUS
    <3> QED BY <3>1, <3>2
  <2>2. CASE trusted
    <3>1. DOMAIN sources = 1..(n + 2)
      BY <1>1, <2>2
    <3>2. \A i \in DOMAIN parts : N(parts[i]) = ips[i]
      <4>1. \A i \in 1..n : i \in 1..(n + 2)
        OBVIOUS
      <4> QED BY <1>1, <1>7, <2>2, <3>1, <4>1, Zenon
    <3>3. N(request.realIP) = ips[n + 1] /\ N(request.remoteAddr) = ips[n + 2]
      <4>1. n + 1 \in DOMAIN sources /\ n + 2 \in DOMAIN sources
        BY <3>1
      <4> QED BY <1>1, <1>7, <2>2, <4>1, Zenon
    <3>4. PICK usable : usable = {i \in 1..n : ips[i] # none}
      OBVIOUS
    <3>5. {i \in DOMAIN parts : N(parts[i]) # none} = usable
      BY <1>1, <3>2, <3>4
    <3>6. {i \in DOMAIN parts : N(parts[i]) # ""} = usable
      BY <1>2, <3>5, Zenon
    <3>7. PICK first : first = CHOOSE i \in usable : \A j \in usable : i <= j
      OBVIOUS
    <3>8. ForwardedIP(request) = N(IF usable # {} THEN parts[first] ELSE request.realIP)
      BY <1>5, <3>6, <3>7, Zenon
    <3>9. CASE usable # {}
      <4>1. usable \in SUBSET Nat
        BY <3>4
      <4>2. \E i \in usable : \A j \in usable : i <= j
        BY <3>9, <4>1, LeastIndex
      <4>3. first \in usable /\ \A j \in usable : first <= j
        BY <3>7, <4>2
      <4>4. first \in 1..n /\ ips[first] # none
        BY <3>4, <4>3
      <4>5. ForwardedIP(request) = ips[first]
        BY <1>1, <3>2, <3>8, <3>9, <4>4
      <4>6. result = ips[first]
        BY <1>4, <2>2, <4>4, <4>5
      <4>7. \A j \in 1..(first - 1) : j \in 1..n /\ ips[j] = none
        BY <3>4, <4>3, <4>4
      <4> QED BY <3>1, <4>4, <4>6, <4>7
    <3>10. CASE usable = {}
      <4>1. ForwardedIP(request) = ips[n + 1]
        BY <3>3, <3>8, <3>10
      <4>2. result = IF ips[n + 1] # none THEN ips[n + 1] ELSE ips[n + 2]
        BY <1>4, <2>2, <3>3, <4>1
      <4>3. \A j \in 1..n : ips[j] = none
        BY <3>4, <3>10
      <4> QED BY <3>1, <4>2, <4>3
    <3> QED BY <3>9, <3>10
  <2> QED BY <2>1, <2>2
<1> QED BY <1>2, <1>3, <1>7, <1>8, Zenon DEF N

USE ArrivalAssumption, FieldAssumption

Refused == {"method not allowed", "banned", "bad form", "invalid action",
            "schema error", "incorrect", "bad address"}

Stage == {"receive", "port", "ban", "schema", "check", "address", "to delete"}
           \cup Filed \cup Refused

-----------------------------------------------------------------------------
\* A value that a field may have once the schema is checked.
Typed(f, v) ==
  IF v.type = "absent" THEN f \notin Required
  ELSE /\ f \in NumberField => v.type = "number"
       /\ f \in StringField => v.type = "string"
       /\ f \in BoolField   => v.type = "bool"
       /\ f \in ListField   => /\ v.type = "list"
                               /\ \A i \in DOMAIN v.is : v.is[i].type = "string"

\* Whatever passes the schema has its type after the conversion.
LEMMA ConvertedIsTyped ==
  ASSUME NEW f \in Field, NEW v, Fits(f, v)
  PROVE  Typed(f, Converted(f, v))
<1>1. CASE f \in NumberField
  BY <1>1 DEF Fits, Converted, Typed, NumberField, StringField, BoolField,
              ListField, Required, Num, Absent
<1>2. CASE f \in StringField
  BY <1>2 DEF Fits, Converted, Typed, NumberField, StringField, BoolField,
              ListField, Required
<1>3. CASE f \in BoolField
  BY <1>3 DEF Fits, Converted, Typed, NumberField, StringField, BoolField,
              ListField, Required, Bool
<1>4. CASE f \in ListField
  BY <1>4 DEF Fits, Converted, Typed, NumberField, StringField, BoolField,
              ListField, Required
<1> QED BY <1>1, <1>2, <1>3, <1>4

\* The clean-up keeps every field's type and removes nothing required.
LEMMA CleanedIsTyped ==
  ASSUME NEW f \in Field, \A g \in Field : Typed(g, req[g])
  PROVE  Typed(f, Cleaned[f])
<1>1. CASE f = "url"
  BY <1>1 DEF Cleaned, Typed, Has, Absent, Required, Stripped, NumberField,
              StringField, BoolField, ListField
<1>2. CASE f \in ListField
  <2>1. CASE Has(f)
    BY <1>2, <2>1 DEF Cleaned, SortUnique, List, Str, Typed, Has, Required,
                      NumberField, StringField, BoolField, ListField
  <2>2. CASE ~Has(f)
    <3>1. Cleaned[f] = req[f]
      BY <1>2, <2>2 DEF Cleaned, ListField
    <3> QED BY <3>1
  <2> QED BY <2>1, <2>2
<1>3. CASE f = "clients"
  BY <1>3 DEF Cleaned, Typed, Has, Whole, Num, Required, Stripped, NumberField,
              StringField, BoolField, ListField
<1>4. CASE f \in Stripped \cup {"address"}
  BY <1>4 DEF Cleaned, Typed, Has, Str, Required, Stripped, NumberField,
              StringField, BoolField, ListField
<1>5. CASE f \notin {"url", "clients", "address"} \cup Stripped \cup ListField
  <2>1. Cleaned[f] = req[f]
    BY <1>5 DEF Cleaned
  <2> QED BY <2>1
<1> QED BY <1>1, <1>2, <1>3, <1>4, <1>5

\* The announcement is one of those that arrive, the map is there once the
\* request is accepted as one, and visited fields have their types.
TypedInv ==
  /\ \E arrival \in Arrival : config = arrival[1] /\ raw = arrival[2]
  /\ stage \in {"receive", "port", "ban"} => todo = Field
  /\ stage \in {"port", "ban", "schema", "check", "address"} \cup Filed =>
       DOMAIN req = Field
  /\ stage = "schema" => \A f \in Field \ todo : Typed(f, req[f])
  /\ stage \in {"check", "address"} \cup Filed => \A f \in Field : Typed(f, req[f])

LEMMA TypedInit == Init => TypedInv
BY DEF Init, TypedInv, Filed

LEMMA TypedStep == TypedInv /\ [Next]_vars => TypedInv'
<1> SUFFICES ASSUME TypedInv, [Next]_vars PROVE TypedInv'
  OBVIOUS
<1>r. ASSUME NEW why \in Refused, Reject(why) PROVE TypedInv'
  BY <1>r DEF TypedInv, Reject, Refused, Filed
<1>1. CASE Receive
  <2> DEFINE sender == RemoteIP(raw, config.TrustProxyHeaders)
  <2>1. PICK body \in JSONData(config, raw) :
          IF FirstAnswer(sender, body) # "go on"
          THEN Reject(FirstAnswer(sender, body))
          ELSE /\ ip' = sender
               /\ req' = IF body = "null" THEN NilMap ELSE raw.fields
               /\ stage' = "port"
               /\ UNCHANGED <<config, raw, todo>>
    BY <1>1 DEF Receive
  <2>2. CASE FirstAnswer(sender, body) # "go on"
    <3>1. FirstAnswer(sender, body) \in Refused
      BY <2>2 DEF FirstAnswer, Refused
    <3> QED BY <1>r, <2>1, <2>2, <3>1
  <2>3. CASE FirstAnswer(sender, body) = "go on"
    <3>1. PICK arrival \in Arrival : config = arrival[1] /\ raw = arrival[2]
      BY DEF TypedInv
    <3>2. body # "null"
      BY <2>3, <3>1 DEF FirstAnswer, JSONData
    <3>3. DOMAIN raw.fields = Field
      BY <3>1
    <3> QED BY <1>1, <2>1, <2>3, <3>2, <3>3 DEF TypedInv, Receive, Filed
  <2> QED BY <2>2, <2>3
<1>2. CASE NormalizePort
  <2>1. CASE NormalPort(req["port"]) = Absent
    BY <1>2, <1>r, <2>1 DEF NormalizePort, Refused
  <2>2. CASE NormalPort(req["port"]) # Absent
    BY <1>2, <2>2 DEF NormalizePort, TypedInv, Filed
  <2> QED BY <2>1, <2>2
<1>3. CASE CheckBan
  <2>1. CASE IsServerBanned
    BY <1>3, <1>r, <2>1 DEF CheckBan, Refused
  <2>2. CASE ~IsServerBanned
    BY <1>3, <2>2 DEF CheckBan, TypedInv, Filed
  <2> QED BY <2>1, <2>2
<1>4. ASSUME NEW f \in Field, CheckField(f) PROVE TypedInv'
  <2>1. CASE ~Fits(f, req[f])
    BY <1>4, <1>r, <2>1 DEF CheckField, Refused
  <2>2. CASE Fits(f, req[f])
    <3>1. /\ stage = "schema" /\ f \in todo /\ todo' = todo \ {f}
          /\ req' = [req EXCEPT ![f] = Converted(f, req[f])]
          /\ stage' = IF todo = {f} THEN "check" ELSE "schema"
          /\ UNCHANGED <<config, raw>> /\ DOMAIN req = Field
      BY <1>4, <2>2 DEF CheckField, TypedInv
    <3>2. Typed(f, req'[f])
      BY <2>2, <3>1, ConvertedIsTyped
    <3>3. \A g \in Field \ todo' : Typed(g, req'[g])
      <4> SUFFICES ASSUME NEW g \in Field \ todo' PROVE Typed(g, req'[g])
        OBVIOUS
      <4>1. CASE g = f
        BY <3>2, <4>1
      <4>2. CASE g # f
        <5>1. req'[g] = req[g] /\ g \in Field \ todo
          BY <3>1, <4>2
        <5> QED BY <3>1, <5>1 DEF TypedInv
      <4> QED BY <4>1, <4>2
    <3> QED BY <3>1, <3>3 DEF TypedInv, Filed
  <2> QED BY <2>1, <2>2
<1>5. CASE CheckRequest
  <2>1. CASE Incorrect
    BY <1>5, <1>r, <2>1 DEF CheckRequest, Refused
  <2>2. CASE ~Incorrect
    <3>1. \A f \in Field : Typed(f, Cleaned[f])
      BY <1>5, CleanedIsTyped DEF CheckRequest, TypedInv
    <3>2. DOMAIN Cleaned = Field
      BY DEF Cleaned
    <3> QED BY <1>5, <2>2, <3>1, <3>2 DEF CheckRequest, TypedInv, Filed
  <2> QED BY <2>1, <2>2
<1>6. CASE CheckAddress
  BY <1>6 DEF CheckAddress, TypedInv, Filed
<1>7. CASE UNCHANGED vars
  BY <1>7 DEF TypedInv, vars
<1> QED BY <1>1, <1>2, <1>3, <1>4, <1>5, <1>6, <1>7 DEF Next

LEMMA TypedAlways == Spec => []TypedInv
BY TypedInit, TypedStep, PTL DEF Spec

\* No type assertion of announce, checkRequest or sortUniqueStringList can
\* panic, and no entry is assigned in a nil map, for whatever was sent.
THEOREM AssertionsNeverPanic == Spec => []AssertionsHold
<1>1. TypedInv => AssertionsHold
  BY DEF TypedInv, AssertionsHold, Typed, Has, Filed
<1> QED BY <1>1, TypedAlways, PTL

-----------------------------------------------------------------------------
\* A port that normalizePort leaves fits the schema, which does not touch it.
LEMMA NormalPortFits ==
  ASSUME NEW v, v.type = "string" => v.is \in DOMAIN Atoi, NormalPort(v) # Absent
  PROVE  /\ NormalPort(v).type = "number"
         /\ Fits("port", NormalPort(v))
<1>1. CASE v.type = "absent"
  BY <1>1 DEF NormalPort, Whole, Num, Fits, NumberField, IsWhole
<1>2. CASE v.type = "string"
  <2>1. /\ NormalPort(v) = Num(Atoi[v.is])
        /\ Atoi[v.is] \in Int /\ Atoi[v.is] % 2 = 0 /\ Atoi[v.is] # NaN
    BY <1>2 DEF NormalPort
  <2> QED BY <2>1 DEF Num, Fits, NumberField, IsWhole
<1>3. CASE v.type = "number"
  <2>1. NormalPort(v) = v /\ IsWhole(v.is)
    BY <1>3 DEF NormalPort
  <2> QED BY <1>3, <2>1 DEF Fits, NumberField
<1>4. CASE v.type \notin {"absent", "string", "number"}
  BY <1>4 DEF NormalPort
<1> QED BY <1>1, <1>2, <1>3, <1>4

\* Each visited field is its own conversion, each other one is as it was sent;
\* the port fits, so that only a field that was sent wrong can be refused.
OrderInv ==
  /\ stage = "receive" => todo = Field
  /\ stage = "port" => req = raw.fields /\ todo = Field
  /\ stage \in {"ban", "schema", "check"} =>
       Fits("port", req["port"]) /\ req["port"].type = "number"
  /\ stage \in {"ban", "schema"} =>
       /\ NormalPort(raw.fields["port"]) # Absent
       /\ \A f \in Field \ {"port"} :
            IF f \in todo THEN req[f] = raw.fields[f]
            ELSE Fits(f, raw.fields[f]) /\ req[f] = Converted(f, raw.fields[f])
  /\ stage = "ban" => todo = Field
  /\ OrderDoesNotMatter

LEMMA OrderInit == Init => OrderInv
BY DEF Init, OrderInv, OrderDoesNotMatter

LEMMA OrderStep == TypedInv /\ OrderInv /\ [Next]_vars => OrderInv'
<1> SUFFICES ASSUME TypedInv, OrderInv, [Next]_vars PROVE OrderInv'
  OBVIOUS
<1>r. ASSUME NEW why \in Refused \ {"schema error"}, Reject(why) PROVE OrderInv'
  BY <1>r DEF OrderInv, OrderDoesNotMatter, Reject, Refused
<1>s. ASSUME Reject("schema error"),
             \/ NormalPort(raw.fields["port"]) = Absent
             \/ \E f \in Field \ {"port"} : ~Fits(f, raw.fields[f])
      PROVE  OrderInv'
  BY <1>s DEF OrderInv, OrderDoesNotMatter, Reject
<1>1. CASE Receive
  <2> DEFINE sender == RemoteIP(raw, config.TrustProxyHeaders)
  <2>1. PICK body \in JSONData(config, raw) :
          IF FirstAnswer(sender, body) # "go on"
          THEN Reject(FirstAnswer(sender, body))
          ELSE /\ ip' = sender
               /\ req' = IF body = "null" THEN NilMap ELSE raw.fields
               /\ stage' = "port"
               /\ UNCHANGED <<config, raw, todo>>
    BY <1>1 DEF Receive
  <2>2. CASE FirstAnswer(sender, body) # "go on"
    <3>1. FirstAnswer(sender, body) \in Refused \ {"schema error"}
      BY <2>2 DEF FirstAnswer, Refused
    <3> QED BY <1>r, <2>1, <2>2, <3>1
  <2>3. CASE FirstAnswer(sender, body) = "go on"
    <3>1. body # "null"
      BY <2>3 DEF FirstAnswer, JSONData, TypedInv
    <3> QED BY <1>1, <2>1, <2>3, <3>1 DEF OrderInv, OrderDoesNotMatter, Receive
  <2> QED BY <2>2, <2>3
<1>2. CASE NormalizePort
  <2>1. req = raw.fields /\ todo = Field /\ stage = "port" /\ DOMAIN req = Field
    BY <1>2 DEF NormalizePort, OrderInv, TypedInv
  <2>2. CASE NormalPort(req["port"]) = Absent
    BY <1>2, <1>s, <2>1, <2>2 DEF NormalizePort
  <2>3. CASE NormalPort(req["port"]) # Absent
    <3>1. /\ req' = [raw.fields EXCEPT !["port"] = NormalPort(raw.fields["port"])]
          /\ stage' = "ban" /\ raw' = raw /\ todo' = Field
      BY <1>2, <2>1, <2>3 DEF NormalizePort
    <3>2. raw.fields["port"].type = "string" => raw.fields["port"].is \in DOMAIN Atoi
      BY DEF TypedInv
    <3>3. /\ NormalPort(raw.fields["port"]).type = "number"
          /\ Fits("port", NormalPort(raw.fields["port"]))
      BY <2>1, <2>3, <3>2, NormalPortFits
    <3>4. /\ req'["port"] = NormalPort(raw.fields["port"])
          /\ \A f \in Field \ {"port"} : req'[f] = raw.fields[f]
      BY <2>1, <3>1
    <3> HIDE DEF NormalPort, Fits
    <3> QED BY <2>1, <2>3, <3>1, <3>3, <3>4 DEF OrderInv, OrderDoesNotMatter
  <2> QED BY <2>2, <2>3
<1>3. CASE CheckBan
  <2>1. CASE IsServerBanned
    BY <1>3, <1>r, <2>1 DEF CheckBan, Refused
  <2>2. CASE ~IsServerBanned
    BY <1>3, <2>2 DEF CheckBan, OrderInv, OrderDoesNotMatter
  <2> QED BY <2>1, <2>2
<1>4. ASSUME NEW f \in Field, CheckField(f) PROVE OrderInv'
  <2>1. stage = "schema" /\ f \in todo /\ DOMAIN req = Field
    BY <1>4 DEF CheckField, TypedInv
  <2>2. CASE ~Fits(f, req[f])
    <3>1. f # "port" /\ req[f] = raw.fields[f]
      BY <2>1, <2>2 DEF OrderInv
    <3>2. Reject("schema error")
      BY <1>4, <2>2 DEF CheckField
    <3> QED BY <1>s, <2>2, <3>1, <3>2
  <2>3. CASE Fits(f, req[f])
    <3>1. /\ todo' = todo \ {f} /\ req' = [req EXCEPT ![f] = Converted(f, req[f])]
          /\ stage' = IF todo = {f} THEN "check" ELSE "schema"
          /\ raw' = raw
      BY <1>4, <2>3 DEF CheckField
    <3>2. \A g \in Field : req'[g] = IF g = f THEN Converted(f, req[f]) ELSE req[g]
      BY <2>1, <3>1
    <3>3. Fits("port", req'["port"]) /\ req'["port"].type = "number"
      <4>1. CASE f = "port"
        BY <2>1, <3>2, <4>1 DEF OrderInv, Converted
      <4>2. CASE f # "port"
        BY <2>1, <3>2, <4>2 DEF OrderInv
      <4> QED BY <4>1, <4>2
    <3>4. \A g \in Field \ {"port"} :
            IF g \in todo' THEN req'[g] = raw.fields[g]
            ELSE Fits(g, raw.fields[g]) /\ req'[g] = Converted(g, raw.fields[g])
      BY <2>1, <2>3, <3>1, <3>2 DEF OrderInv
    <3> QED BY <2>1, <3>1, <3>3, <3>4 DEF OrderInv, OrderDoesNotMatter
  <2> QED BY <2>2, <2>3
<1>5. CASE CheckRequest
  <2>1. CASE Incorrect
    BY <1>5, <1>r, <2>1 DEF CheckRequest, Refused
  <2>2. CASE ~Incorrect
    BY <1>5, <2>2 DEF CheckRequest, OrderInv, OrderDoesNotMatter
  <2> QED BY <2>1, <2>2
<1>6. CASE CheckAddress
  BY <1>6 DEF CheckAddress, OrderInv, OrderDoesNotMatter
<1>7. CASE UNCHANGED vars
  BY <1>7 DEF OrderInv, OrderDoesNotMatter, vars
<1> QED BY <1>1, <1>2, <1>3, <1>4, <1>5, <1>6, <1>7 DEF Next

\* Go's random order of the fields decides nothing, however many there are.
THEOREM OrderNeverMatters == Spec => []OrderDoesNotMatter
<1>1. OrderInv => OrderDoesNotMatter
  BY DEF OrderInv
<1> QED BY <1>1, OrderInit, OrderStep, TypedAlways, PTL DEF Spec

-----------------------------------------------------------------------------
\* The client named an address.
Named == raw.fields["address"].type = "string" /\ raw.fields["address"].is # ""

NotBanned(address, port) ==
  /\ <<address, port>> \notin config.BannedServers.pairs
  /\ address \notin config.BannedServers.hosts

\* What a ban asks about stays as it was looked up: the schema and the clean-up
\* leave the port and a named address alone, and only where none was named the
\* requester's own is filled in.
BanInv ==
  /\ stage \notin {"receive"} \cup Refused => ip \notin config.BannedIPs
  /\ stage \in {"schema", "check", "address", "to delete"} \cup Filed =>
       /\ req["port"].type = "number"
       /\ <<ip, req["port"].is>> \notin config.BannedServers.pairs
       /\ Named => /\ req["address"] = raw.fields["address"]
                   /\ NotBanned(Lower[raw.fields["address"].is], req["port"].is)
  /\ stage \in {"address"} \cup Filed /\ ~Named => req["address"] = Str(ip)

\* The announced address is the named one, and is looked up as such.
LEMMA NamedIsAnnounced ==
  ASSUME TypedInv, Named, req["address"] = raw.fields["address"]
  PROVE  /\ AnnouncedAddress = Lower[raw.fields["address"].is]
         /\ AnnouncedAddress # ""
<1>1. raw.fields["address"].is \in DOMAIN Lower
  <2>1. PICK arrival \in Arrival : raw = arrival[2]
    BY DEF TypedInv
  <2>2. raw.fields["address"].type = "string"
    BY Zenon DEF Named
  <2> QED BY <2>1, <2>2, LowerAssumption, Zenon
<1>2. Lower[raw.fields["address"].is] # ""
  BY <1>1, LowerAssumption, Zenon DEF Named
<1>3. AnnouncedAddress = Lower[raw.fields["address"].is]
  BY Zenon DEF AnnouncedAddress, Named
<1> QED BY <1>2, <1>3, Zenon

\* The clean-up leaves a named address, and gives the requester's to the others.
LEMMA AddressCleaned ==
  ASSUME OrderInv, stage = "check", DOMAIN req = Field
  PROVE  Cleaned["address"] = IF Named THEN raw.fields["address"] ELSE Str(ip)
<1>1. /\ Fits("address", raw.fields["address"])
      /\ req["address"] = Converted("address", raw.fields["address"])
  BY DEF OrderInv, OrderDoesNotMatter
<1>2. req["address"] = raw.fields["address"]
  BY <1>1 DEF Converted, BoolField, NumberField
<1>3. raw.fields["address"].type \in {"string", "absent"}
  BY <1>1 DEF Fits, NumberField, StringField, BoolField, ListField
<1>4. /\ "address" \notin ListField \cup Stripped
      /\ "address" # "clients" /\ "address" # "url"
  BY DEF ListField, Stripped
<1>5. Has("address") <=> raw.fields["address"].type = "string"
  BY <1>2, <1>3 DEF Has
<1>6. Cleaned["address"] = IF ~Has("address") \/ req["address"].is = "" THEN Str(ip)
                           ELSE req["address"]
  BY <1>4, Zenon DEF Cleaned
<1> QED BY <1>2, <1>5, <1>6, Zenon DEF Named

LEMMA BanInit == Init => BanInv
BY DEF Init, BanInv, Filed

LEMMA BanStep == TypedInv /\ OrderInv /\ BanInv /\ [Next]_vars => BanInv'
<1> SUFFICES ASSUME TypedInv, OrderInv, BanInv, [Next]_vars PROVE BanInv'
  OBVIOUS
<1>r. ASSUME NEW why \in Refused, Reject(why) PROVE BanInv'
  BY <1>r DEF BanInv, Reject, Refused, Filed
<1>1. CASE Receive
  <2> DEFINE sender == RemoteIP(raw, config.TrustProxyHeaders)
  <2>1. PICK body \in JSONData(config, raw) :
          IF FirstAnswer(sender, body) # "go on"
          THEN Reject(FirstAnswer(sender, body))
          ELSE /\ ip' = sender
               /\ req' = IF body = "null" THEN NilMap ELSE raw.fields
               /\ stage' = "port"
               /\ UNCHANGED <<config, raw, todo>>
    BY <1>1 DEF Receive
  <2>2. CASE FirstAnswer(sender, body) # "go on"
    <3>1. FirstAnswer(sender, body) \in Refused
      BY <2>2 DEF FirstAnswer, Refused
    <3> QED BY <1>r, <2>1, <2>2, <3>1
  <2>3. CASE FirstAnswer(sender, body) = "go on"
    <3>1. sender \notin config.BannedIPs
      BY <2>3 DEF FirstAnswer
    <3> QED BY <2>1, <2>3, <3>1 DEF BanInv, Filed
  <2> QED BY <2>2, <2>3
<1>2. CASE NormalizePort
  <2>1. CASE NormalPort(req["port"]) = Absent
    BY <1>2, <1>r, <2>1 DEF NormalizePort, Refused
  <2>2. CASE NormalPort(req["port"]) # Absent
    BY <1>2, <2>2 DEF NormalizePort, BanInv, Filed, Refused
  <2> QED BY <2>1, <2>2
<1>3. CASE CheckBan
  <2>1. CASE IsServerBanned
    BY <1>3, <1>r, <2>1 DEF CheckBan, Refused
  <2>2. CASE ~IsServerBanned
    <3>1. /\ stage = "ban" /\ stage' \in {"schema", "to delete"}
          /\ UNCHANGED <<config, ip, req>>
      BY <1>3, <2>2 DEF CheckBan
    <3>2. raw' = raw /\ (Named' <=> Named)
      BY <1>3, <2>2 DEF CheckBan, Named
    <3>3. req["port"].type = "number" /\ ip \notin config.BannedIPs
      BY <3>1 DEF OrderInv, BanInv, Refused
    <3>4. req["address"] = raw.fields["address"]
      BY <3>1 DEF OrderInv
    <3>5. Named => NotBanned(Lower[raw.fields["address"].is], req["port"].is)
      BY <2>2, <3>4, NamedIsAnnounced, Zenon DEF IsServerBanned, NotBanned
    <3>6. <<ip, req["port"].is>> \notin config.BannedServers.pairs
      BY <2>2, Zenon DEF IsServerBanned
    <3> HIDE DEF Named
    <3> QED BY <3>1, <3>2, <3>3, <3>4, <3>5, <3>6 DEF BanInv, NotBanned, Filed
  <2> QED BY <2>1, <2>2
<1>4. ASSUME NEW f \in Field, CheckField(f) PROVE BanInv'
  <2>1. CASE ~Fits(f, req[f])
    BY <1>4, <1>r, <2>1 DEF CheckField, Refused
  <2>2. CASE Fits(f, req[f])
    <3>1. /\ stage = "schema" /\ stage' \in {"check", "schema"} /\ DOMAIN req = Field
          /\ req' = [req EXCEPT ![f] = Converted(f, req[f])]
          /\ UNCHANGED <<config, ip>>
      BY <1>4, <2>2 DEF CheckField, TypedInv
    <3>2. req'["port"] = req["port"]
      BY <3>1 DEF OrderInv, Converted
    <3>3. req'["address"] = req["address"]
      BY <3>1 DEF Converted, BoolField, NumberField
    <3>4. raw' = raw /\ (Named' <=> Named)
      BY <1>4, <2>2 DEF CheckField, Named
    <3> QED BY <3>1, <3>2, <3>3, <3>4 DEF BanInv, NotBanned, Filed, Refused
  <2> QED BY <2>1, <2>2
<1>5. CASE CheckRequest
  <2>1. CASE Incorrect
    BY <1>5, <1>r, <2>1 DEF CheckRequest, Refused
  <2>2. CASE ~Incorrect
    <3>1. /\ stage = "check" /\ stage' = "address" /\ req' = Cleaned
          /\ UNCHANGED <<config, ip>>
      BY <1>5, <2>2 DEF CheckRequest
    <3>2. req'["port"] = req["port"]
      BY <3>1 DEF Cleaned, ListField, Stripped, Has
    <3>3. req'["address"] = IF Named THEN raw.fields["address"] ELSE Str(ip)
      BY <3>1, AddressCleaned DEF TypedInv
    <3>4. raw' = raw /\ (Named' <=> Named)
      BY <1>5, <2>2 DEF CheckRequest, Named
    <3>5. Str(ip)' = Str(ip)
      BY <3>1 DEF Str
    <3> QED BY <3>1, <3>2, <3>3, <3>4, <3>5 DEF BanInv, NotBanned, Filed, Refused
  <2> QED BY <2>1, <2>2
<1>6. CASE CheckAddress
  <2>1. /\ stage = "address" /\ stage' \in Filed \cup {"bad address"}
        /\ UNCHANGED <<config, raw, ip, req>>
    BY <1>6 DEF CheckAddress, Filed
  <2>2. (Named' <=> Named) /\ Str(ip)' = Str(ip)
    BY <2>1 DEF Named, Str
  <2> QED BY <2>1, <2>2 DEF BanInv, NotBanned, Filed, Refused
<1>7. CASE UNCHANGED vars
  <2>1. (Named' <=> Named) /\ Str(ip)' = Str(ip)
    BY <1>7 DEF Named, Str, vars
  <2> QED BY <1>7, <2>1 DEF BanInv, NotBanned, vars
<1> QED BY <1>1, <1>2, <1>3, <1>4, <1>5, <1>6, <1>7 DEF Next

\* Nothing is filed or deleted for a banned requester, nor with a banned address
\* that the client named, whatever the checks replace after the look-up; all
\* they put in place of an address is the requester's IP where none was named.
THEOREM BansAlwaysHold == Spec => []BansHold
<1>1. TypedInv /\ BanInv => BansHold
  <2> SUFFICES ASSUME TypedInv, BanInv, stage \in Filed \cup {"to delete"}
               PROVE  /\ ip \notin config.BannedIPs
                      /\ <<ip, req["port"].is>> \notin config.BannedServers.pairs
                      /\ Named => NotBanned(AnnouncedAddress, req["port"].is)
                      /\ stage \in Filed /\ ~Named => req["address"] = Str(ip)
    BY Zenon DEF BansHold, Named, NotBanned
  <2>1. /\ ip \notin config.BannedIPs
        /\ <<ip, req["port"].is>> \notin config.BannedServers.pairs
        /\ Named => /\ req["address"] = raw.fields["address"]
                    /\ NotBanned(Lower[raw.fields["address"].is], req["port"].is)
        /\ stage \in Filed /\ ~Named => req["address"] = Str(ip)
    BY DEF BanInv, Filed, Refused
  <2> QED BY <2>1, NamedIsAnnounced, Zenon
<1> QED
  BY <1>1, BanInit, BanStep, OrderInit, OrderStep, TypedAlways, PTL DEF Spec

-----------------------------------------------------------------------------
\* What sortUniqueStringList is given: a list as it was sent.
LEMMA ListsAsSent ==
  ASSUME TypedInv, OrderInv, stage = "check", NEW f \in ListField, Has(f)
  PROVE  IsFiniteSet(Texts(req[f])) /\ Texts(req[f]) \subseteq DOMAIN ByteOrder
<1>1. f \in Field \ {"port"} /\ req[f].type = "list"
  BY DEF TypedInv, Typed, Has, ListField, NumberField, StringField, BoolField
<1>2. Fits(f, raw.fields[f]) /\ req[f] = Converted(f, raw.fields[f])
  BY <1>1 DEF OrderInv, OrderDoesNotMatter
<1>3. /\ req[f] = raw.fields[f]
      /\ \A i \in DOMAIN req[f].is : req[f].is[i].type = "string"
  BY <1>1, <1>2 DEF Fits, Converted, ListField, NumberField, StringField, BoolField
<1>4. /\ IsFiniteSet(DOMAIN req[f].is)
      /\ \A i \in DOMAIN req[f].is : req[f].is[i].is \in DOMAIN ByteOrder
  BY <1>1, <1>3 DEF TypedInv
<1> DEFINE S == DOMAIN req[f].is
           text == [i \in S |-> req[f].is[i].is]
<1>5. text \in Surjection(S, Texts(req[f]))
  BY DEF Surjection, Texts
<1> HIDE DEF S, text
<1>6. IsFiniteSet(Texts(req[f]))
  BY <1>4, <1>5, FS_Surjection DEF S
<1> QED BY <1>4, <1>6 DEF Texts

\* What checkRequest leaves of a request it would leave as it is.
LEMMA CleanedAgain ==
  ASSUME TypedInv, OrderInv, CheckRequest, ~Incorrect
  PROVE  (~Incorrect /\ Cleaned = req)'
<1>1. PICK c : c = Cleaned
  OBVIOUS
<1>2. req' = c /\ ip' = ip /\ stage = "check" /\ DOMAIN c = Field
  BY <1>1 DEF CheckRequest, Cleaned
<1>3. \A f \in Field : Typed(f, req[f]) /\ Typed(f, c[f])
  BY <1>1, <1>2, CleanedIsTyped DEF TypedInv
<1>4. ASSUME NEW f \in ListField, Has(f)
      PROVE  /\ f \in Field /\ c[f] = SortUnique(req[f])
             /\ SortUnique(c[f]) = c[f] /\ Texts(c[f]) = Texts(req[f])
             /\ Len(SortUnique(req[f]).is) \in Nat
  <2>1. f \in Field /\ c[f] = SortUnique(req[f])
    BY <1>1, <1>4 DEF Cleaned, Has, ListField
  <2>2. IsFiniteSet(Texts(req[f])) /\ Texts(req[f]) \subseteq DOMAIN ByteOrder
    BY <1>2, <1>4, ListsAsSent
  <2> QED BY <2>1, <2>2, SortTwice
<1>5. ASSUME NEW f \in Field \ {"address", "url"}
      PROVE  Has(f)' <=> Has(f)
  <2>1. c[f].type = "absent" <=> req[f].type = "absent"
    <3>1. CASE f = "clients"
      BY <1>3, <3>1 DEF Typed, Required
    <3>2. CASE f \in ListField
      BY <1>1, <3>2 DEF Cleaned, Has, ListField, SortUnique, List
    <3>3. CASE f \in Stripped
      BY <1>1, <3>3 DEF Cleaned, Has, ListField, Stripped, Str
    <3>4. CASE f \notin {"clients", "address", "url"} \cup ListField \cup Stripped
      BY <1>1, <3>4 DEF Cleaned
    <3> QED BY <1>5, <3>1, <3>2, <3>3, <3>4
  <2> QED BY <1>2, <1>5, <2>1 DEF Has
<1>6. ~Incorrect'
  <2>1. ASSUME NEW f \in (NumberField \ {"port"}) \cap Field, Has(f)'
        PROVE  ~Below(c[f].is, 0)
    <3>1. Has(f) /\ ~Below(req[f].is, 0)
      BY <1>5, <2>1 DEF Incorrect, NumberField
    <3>2. CASE f = "clients" /\ Has("clients_list")
      <4>1. c[f] = Whole(Len(SortUnique(req["clients_list"]).is))
        BY <1>1, <2>1, <3>2 DEF Cleaned
      <4>2. Len(SortUnique(req["clients_list"]).is) \in Nat
        BY <1>4, <3>2 DEF ListField
      <4> QED BY <4>1, <4>2 DEF Whole, Num, Below
    <3>3. CASE ~(f = "clients" /\ Has("clients_list"))
      BY <1>1, <2>1, <3>1, <3>3 DEF Cleaned, NumberField, ListField, Stripped
    <3> QED BY <3>2, <3>3
  <2>2. c["proto_max"] = req["proto_max"] /\ c["proto_min"] = req["proto_min"]
    BY <1>1 DEF Cleaned, ListField, Stripped
  <2>3. ASSUME NEW f \in ListField, Has(f)'
        PROVE  Texts(c[f]) \cap (Bad \cup {""}) = {}
    <3>1. Has(f)
      BY <1>5, <2>3 DEF Has, ListField
    <3> QED BY <1>4, <3>1 DEF Incorrect
  <2> QED BY <1>2, <2>1, <2>2, <2>3 DEF Incorrect, Texts, Below
<1>7. ASSUME NEW f \in Field PROVE Cleaned'[f] = c[f]
  <2>1. CASE f = "address"
    BY <1>1, <1>2, <2>1 DEF Cleaned, Has, Str, ListField, Stripped
  <2>2. CASE f = "clients" /\ Has("clients_list")
    <3>1. c[f] = Whole(Len(SortUnique(req["clients_list"]).is))
      BY <1>1, <2>2 DEF Cleaned
    <3>2. "clients_list" \in Field \ {"address", "url"}
      BY <2>2 DEF Has
    <3>3. Cleaned'[f] = Whole(Len(SortUnique(c["clients_list"]).is))
      BY <1>2, <1>5, <2>2, <3>2 DEF Cleaned, SortUnique, Texts
    <3> QED BY <1>4, <2>2, <3>1, <3>3 DEF ListField
  <2>3. CASE f = "url"
    BY <1>1, <1>2, <2>3 DEF Cleaned, Has, Absent, GoodURL, ListField, Stripped
  <2>4. CASE f \in ListField
    <3>1. CASE Has(f)
      <4>1. Has(f)'
        BY <1>5, <2>4, <3>1 DEF ListField
      <4>2. Cleaned'[f] = SortUnique(c[f])
        BY <1>2, <2>4, <4>1 DEF Cleaned, ListField
      <4> QED BY <1>4, <2>4, <3>1, <4>2
    <3>2. CASE ~Has(f)
      BY <1>1, <1>2, <1>5, <2>4, <3>2 DEF Cleaned, ListField
    <3> QED BY <3>1, <3>2
  <2>5. CASE f \in Stripped
    <3>1. CASE Has(f)
      <4>1. req[f].type = "string" /\ f # "port"
        BY <1>3, <2>5, <3>1 DEF Typed, Has, Stripped, StringField
      <4>2. Fits(f, raw.fields[f]) /\ req[f] = Converted(f, raw.fields[f])
        BY <1>2, <4>1 DEF OrderInv, OrderDoesNotMatter
      <4>3. req[f] = raw.fields[f]
        BY <2>5, <4>2 DEF Converted, Stripped, BoolField, NumberField
      <4>4. req[f].is \in DOMAIN Strip
        BY <2>5, <4>1, <4>3 DEF TypedInv
      <4>5. c[f] = Str(Strip[req[f].is])
        BY <1>1, <2>5, <3>1 DEF Cleaned, Stripped, ListField
      <4>6. Cleaned'[f] = Str(Strip[c[f].is])
        BY <1>2, <1>5, <2>5, <3>1 DEF Cleaned, Stripped, ListField
      <4> QED BY <4>4, <4>5, <4>6, StringAssumption DEF Str
    <3>2. CASE ~Has(f)
      BY <1>1, <1>2, <1>5, <2>5, <3>2 DEF Cleaned, ListField, Stripped
    <3> QED BY <3>1, <3>2
  <2>6. CASE /\ f \notin {"address", "url"} \cup ListField \cup Stripped
             /\ ~(f = "clients" /\ Has("clients_list"))
    <3>1. c[f] = req[f]
      BY <1>1, <2>6 DEF Cleaned
    <3>2. f = "clients" => ~Has("clients_list")'
      BY <1>5, <2>6 DEF Has
    <3>3. Cleaned'[f] = c[f]
      BY <1>2, <2>6, <3>2 DEF Cleaned
    <3> QED BY <3>3
  <2> QED BY <2>1, <2>2, <2>3, <2>4, <2>5, <2>6
<1>8. Cleaned' = [f \in Field |-> Cleaned'[f]]
  BY DEF Cleaned
<1>9. c = [f \in Field |-> c[f]]
  BY <1>1 DEF Cleaned
<1> QED BY <1>2, <1>6, <1>7, <1>8, <1>9

\* What was cleaned fits the schema, which would not convert it, unless it is a
\* fraction that came as a string.
FitsAgain(f) ==
  \/ Fits(f, req[f]) /\ Converted(f, req[f]) = req[f]
  \/ /\ f \in NumberField \ {"port", "lag"}
     /\ raw.fields[f].type = "string" /\ ~IsWhole(req[f].is)

LEMMA TypedFits ==
  ASSUME NEW f \in Field, NEW v, Typed(f, v)
  PROVE  /\ Converted(f, v) = v
         /\ Fits(f, v) \/ (f \in NumberField \ {"lag"} /\ v.type = "number" /\ ~IsWhole(v.is))
<1>1. CASE f \in NumberField
  BY <1>1 DEF Fits, Converted, Typed, NumberField, StringField, BoolField, ListField
<1>2. CASE f \in StringField
  BY <1>2 DEF Fits, Converted, Typed, NumberField, StringField, BoolField, ListField
<1>3. CASE f \in BoolField
  BY <1>3 DEF Fits, Converted, Typed, NumberField, StringField, BoolField, ListField
<1>4. CASE f \in ListField
  BY <1>4 DEF Fits, Converted, Typed, NumberField, StringField, BoolField, ListField
<1> QED BY <1>1, <1>2, <1>3, <1>4

LEMMA CleanedFits ==
  ASSUME TypedInv, OrderInv, CheckRequest, ~Incorrect
  PROVE  /\ (NormalPort(req["port"]) = req["port"])'
         /\ \A f \in Field : FitsAgain(f)'
<1>1. PICK c : c = Cleaned
  OBVIOUS
<1>2. req' = c /\ raw' = raw /\ stage = "check" /\ DOMAIN c = Field
  BY <1>1 DEF CheckRequest, Cleaned
<1>3. \A f \in Field : Typed(f, req[f]) /\ Typed(f, c[f])
  BY <1>1, <1>2, CleanedIsTyped DEF TypedInv
<1>4. c["port"] = req["port"] /\ Fits("port", req["port"]) /\ req["port"].type = "number"
  <2>1. c["port"] = req["port"]
    BY <1>1 DEF Cleaned, ListField, Stripped, Has
  <2>2. stage = "check" => Fits("port", req["port"]) /\ req["port"].type = "number"
    BY DEF OrderInv
  <2> QED BY <1>2, <2>1, <2>2
<1>5. NormalPort(c["port"]) = c["port"]
  BY <1>4 DEF NormalPort, Fits, NumberField, StringField, BoolField, ListField
<1>6. ASSUME NEW f \in Field PROVE FitsAgain(f)'
  <2>1. Converted(f, c[f]) = c[f]
    BY <1>3, TypedFits
  <2>2. Fits(f, c[f]) \/ (f \in NumberField \ {"port", "lag"} /\ raw.fields[f].type = "string"
                          /\ ~IsWhole(c[f].is))
    <3>1. CASE Fits(f, c[f])
      BY <3>1
    <3>2. CASE f = "port"
      BY <1>4, <3>2
    <3>3. CASE ~Fits(f, c[f]) /\ f # "port"
      <4>1. f \in NumberField \ {"lag"} /\ c[f].type = "number" /\ ~IsWhole(c[f].is)
        BY <1>3, <3>3, TypedFits
      <4>2. ~(f = "clients" /\ Has("clients_list"))
        <5> SUFFICES ASSUME f = "clients" /\ Has("clients_list") PROVE FALSE
          OBVIOUS
        <5>1. c[f] = Whole(Len(SortUnique(req["clients_list"]).is))
          BY <1>1 DEF Cleaned
        <5>2. Len(SortUnique(req["clients_list"]).is) \in Nat
          BY <1>2, ListsAsSent, SortTwice DEF ListField
        <5>3. PICK n \in Nat : c[f].is = 2 * n
          BY <5>1, <5>2 DEF Whole, Num
        <5>4. 2 * n \in Int /\ (2 * n) % 2 = 0
          OBVIOUS
        <5>5. IsWhole(c[f].is)
          BY <5>3, <5>4 DEF IsWhole
        <5> QED BY <4>1, <5>5
      <4>3. c[f] = req[f]
        BY <1>1, <4>1, <4>2 DEF Cleaned, NumberField, ListField, Stripped
      <4>4. Fits(f, raw.fields[f]) /\ req[f] = Converted(f, raw.fields[f])
        BY <1>2, <3>3 DEF OrderInv, OrderDoesNotMatter
      <4>5. raw.fields[f].type # "string" => req[f] = raw.fields[f]
        BY <4>4 DEF Converted
      <4>6. raw.fields[f].type = "string"
        BY <3>3, <4>3, <4>4, <4>5
      <4> QED BY <3>3, <4>1, <4>6
    <3> QED BY <3>1, <3>2, <3>3
  <2> QED BY <1>2, <2>1, <2>2 DEF FitsAgain
<1> QED BY <1>2, <1>5, <1>6

NormalInv ==
  stage \in {"address"} \cup Filed =>
    /\ NormalPort(req["port"]) = req["port"]
    /\ \A f \in Field : FitsAgain(f)
    /\ ~Incorrect /\ Cleaned = req

\* A request is rewritten to something that normalizePort, the schema and
\* checkRequest would take and leave as it is, whatever was sent, but for
\* integers that came as strings and are fractions or NaN.
THEOREM AcceptedStaysNormal == Spec => []AcceptedIsNormal
<1>1. Init => NormalInv
  BY DEF Init, NormalInv, Filed
<1>2. TypedInv /\ OrderInv /\ NormalInv /\ [Next]_vars => NormalInv'
  <2> SUFFICES ASSUME TypedInv, OrderInv, NormalInv, [Next]_vars,
                      stage' \in {"address"} \cup Filed
               PROVE  NormalInv'
    BY DEF NormalInv
  <2>1. ASSUME Receive \/ NormalizePort \/ CheckBan \/ \E f \in Field : CheckField(f)
        PROVE  FALSE
    BY <2>1 DEF Receive, NormalizePort, CheckBan, CheckField, Reject, FirstAnswer, Filed
  <2>2. CASE CheckRequest
    <3>1. ~Incorrect
      BY <2>2 DEF CheckRequest, Reject, Filed
    <3> QED BY <2>2, <3>1, CleanedAgain, CleanedFits DEF NormalInv
  <2>3. ASSUME stage \in {"address"} \cup Filed, UNCHANGED <<raw, ip, req>>
        PROVE  NormalInv'
    BY <2>3 DEF NormalInv, FitsAgain, Incorrect, Cleaned, Has
  <2>4. CASE CheckAddress
    BY <2>3, <2>4 DEF CheckAddress
  <2>5. CASE UNCHANGED vars
    BY <2>3, <2>5 DEF vars
  <2> QED BY <2>1, <2>2, <2>4, <2>5 DEF Next
<1>3. NormalInv => AcceptedIsNormal
  BY DEF NormalInv, FitsAgain, AcceptedIsNormal
<1> QED BY <1>1, <1>2, <1>3, OrderInit, OrderStep, TypedAlways, PTL DEF Spec

-----------------------------------------------------------------------------
CountersInv ==
  stage \in {"address"} \cup Filed =>
    \A f \in (NumberField \ {"lag", "port"}) \cap Field :
      /\ Has(f)
      /\ raw.fields[f].type # "string" \/ (f = "clients" /\ Has("clients_list"))
      => IsWhole(req[f].is) /\ req[f].is >= 0

\* What the clean-up leaves of a counter that no string stood for is what was
\* sent, looked at by the schema and by checkRequest, or counts the names.
LEMMA CountersCleaned ==
  ASSUME TypedInv, OrderInv, CheckRequest, ~Incorrect,
         NEW f \in (NumberField \ {"lag", "port"}) \cap Field, Has(f)',
         raw.fields[f].type # "string" \/ (f = "clients" /\ Has("clients_list")')
  PROVE  IsWhole(req'[f].is) /\ req'[f].is >= 0
<1>1. req' = Cleaned /\ stage = "check"
  BY DEF CheckRequest
<1>2. CASE f = "clients" /\ Has("clients_list")
  <2>1. req'[f] = Whole(Len(SortUnique(req["clients_list"]).is))
    BY <1>1, <1>2 DEF Cleaned
  <2>2. Len(SortUnique(req["clients_list"]).is) \in Nat
    BY <1>1, <1>2, ListsAsSent, SortTwice DEF ListField
  <2>3. PICK n \in Nat : req'[f].is = 2 * n
    BY <2>1, <2>2 DEF Whole, Num
  <2>4. 2 * n \in Int /\ (2 * n) % 2 = 0 /\ 2 * n >= 0
    OBVIOUS
  <2> QED BY <2>3, <2>4 DEF IsWhole
<1>3. CASE ~(f = "clients" /\ Has("clients_list"))
  <2>1. req'[f] = req[f] /\ Has(f)
    BY <1>1, <1>3 DEF Cleaned, Has, NumberField, ListField, Stripped
  <2>2. raw.fields[f].type # "string"
    <3>1. Has("clients_list")' => Has("clients_list")
      BY <1>1 DEF Cleaned, Has, ListField
    <3> QED BY <1>3, <3>1
  <2>3. Fits(f, raw.fields[f]) /\ req[f] = Converted(f, raw.fields[f])
    BY <1>1 DEF OrderInv, OrderDoesNotMatter
  <2>4. req[f] = raw.fields[f] /\ req[f].type = "number" /\ IsWhole(req[f].is)
    BY <2>1, <2>2, <2>3 DEF Fits, Converted, Has, NumberField, StringField,
                            BoolField, ListField
  <2>5. req[f].is \in Int
    BY <2>4 DEF TypedInv
  <2>6. ~Below(req[f].is, 0)
    BY <2>1 DEF Incorrect
  <2> QED BY <2>1, <2>4, <2>5, <2>6 DEF Below, IsWhole
<1> QED BY <1>2, <1>3

\* The list may take for natural numbers what it sums up and averages, however
\* a request mixes old strings, numbers and names, unless a string stood for it.
THEOREM CountersStayNatural == Spec => []CountersAreNatural
<1>1. Init => CountersInv
  BY DEF Init, CountersInv, Filed
<1>2. TypedInv /\ OrderInv /\ CountersInv /\ [Next]_vars => CountersInv'
  <2> SUFFICES ASSUME TypedInv, OrderInv, CountersInv, [Next]_vars,
                      stage' \in {"address"} \cup Filed
               PROVE  CountersInv'
    BY DEF CountersInv
  <2>1. ASSUME Receive \/ NormalizePort \/ CheckBan \/ \E f \in Field : CheckField(f)
        PROVE  FALSE
    BY <2>1 DEF Receive, NormalizePort, CheckBan, CheckField, Reject, FirstAnswer, Filed
  <2>2. CASE CheckRequest
    <3>1. ~Incorrect /\ UNCHANGED raw
      BY <2>2 DEF CheckRequest, Reject, Filed
    <3> QED BY <2>2, <3>1, CountersCleaned DEF CountersInv
  <2>3. ASSUME stage \in {"address"} \cup Filed, UNCHANGED <<raw, req>>
        PROVE  CountersInv'
    BY <2>3 DEF CountersInv, Has
  <2>4. CASE CheckAddress
    BY <2>3, <2>4 DEF CheckAddress
  <2>5. CASE UNCHANGED vars
    BY <2>3, <2>5 DEF vars
  <2> QED BY <2>1, <2>2, <2>4, <2>5 DEF Next
<1>3. CountersInv => CountersAreNatural
  BY DEF CountersInv, CountersAreNatural
<1> QED BY <1>1, <1>2, <1>3, OrderInit, OrderStep, TypedAlways, PTL DEF Spec

-----------------------------------------------------------------------------
Unasked == {"receive", "method not allowed", "banned", "bad form", "invalid action"}

\* Once asked for, the requester is the one that remoteIP finds.
SenderInv ==
  /\ \E arrival \in Arrival : config = arrival[1] /\ raw = arrival[2]
  /\ stage \notin Unasked => ip = RemoteIP(raw, config.TrustProxyHeaders)

\* Nobody unless some source has an IP in it, and else what the first source
\* that has one says; trusted headers come before the connection.
FirstThatSays ==
  stage \notin Unasked =>
    LET sources == Sources(raw, config.TrustProxyHeaders)
    IN  \/ ip = "" /\ \A i \in DOMAIN sources : NormalizeIPString(sources[i]) = ""
        \/ \E i \in DOMAIN sources :
             /\ ip = NormalizeIPString(sources[i]) /\ ip # ""
             /\ \A j \in 1..(i - 1) :
                  j \in DOMAIN sources /\ NormalizeIPString(sources[j]) = ""

\* The requester is who the first source names that normalizeIPString finds an
\* IP in, from the first part of X-Forwarded-For to the connection: parts it
\* cannot use, however many, neither stand in the way nor count.
THEOREM RequesterIsTheFirst == Spec => []FirstThatSays
<1>1. Init => SenderInv
  BY DEF Init, SenderInv, Unasked
<1>2. SenderInv /\ [Next]_vars => SenderInv'
  <2> SUFFICES ASSUME SenderInv, [Next]_vars PROVE SenderInv'
    OBVIOUS
  <2>1. CASE Receive
    <3>1. UNCHANGED <<config, raw>>
      BY <2>1 DEF Receive, Reject
    <3>2. \/ stage' \in Unasked
          \/ ip' = RemoteIP(raw, config.TrustProxyHeaders)
      BY <2>1 DEF Receive, Reject, FirstAnswer, Unasked
    <3> QED BY <3>1, <3>2 DEF SenderInv
  <2>2. ASSUME UNCHANGED <<config, raw, ip>>, stage \notin Unasked PROVE SenderInv'
    BY <2>2 DEF SenderInv
  <2>3. CASE NormalizePort
    BY <2>2, <2>3 DEF NormalizePort, Reject, Unasked
  <2>4. CASE CheckBan
    BY <2>2, <2>4 DEF CheckBan, Reject, Unasked
  <2>5. ASSUME NEW f \in Field, CheckField(f) PROVE SenderInv'
    BY <2>2, <2>5 DEF CheckField, Reject, Unasked
  <2>6. CASE CheckRequest
    BY <2>2, <2>6 DEF CheckRequest, Reject, Unasked
  <2>7. CASE CheckAddress
    BY <2>2, <2>7 DEF CheckAddress, Unasked
  <2>8. CASE UNCHANGED vars
    BY <2>8 DEF vars, SenderInv
  <2> QED BY <2>1, <2>3, <2>4, <2>5, <2>6, <2>7, <2>8 DEF Next
<1>3. SenderInv => FirstThatSays
  <2> DEFINE trusted == config.TrustProxyHeaders
             sources == Sources(raw, trusted)
  <2> SUFFICES ASSUME SenderInv, stage \notin Unasked
               PROVE  \/ ip = "" /\ \A i \in DOMAIN sources : NormalizeIPString(sources[i]) = ""
                      \/ \E i \in DOMAIN sources :
                           /\ ip = NormalizeIPString(sources[i]) /\ ip # ""
                           /\ \A j \in 1..(i - 1) :
                                j \in DOMAIN sources /\ NormalizeIPString(sources[j]) = ""
    BY Zenon DEF FirstThatSays
  <2>1. trusted \in BOOLEAN /\ raw.forwardedFor \in Seq(DOMAIN Denotes)
    BY DEF SenderInv
  <2>2. ip = RemoteIP(raw, trusted)
    BY DEF SenderInv
  <2> QED BY <2>1, <2>2, FirstSource, Zenon
<1> QED BY <1>1, <1>2, <1>3, PTL DEF Spec

-----------------------------------------------------------------------------
\* Only addresses that passed the check get as far as "filed".
PlainInv ==
  stage = "filed" =>
    CheckRequestAddress(NameOf[req["address"].is], config.RejectPrivateAddresses) = "ok"

\* The overlapping tests of checkRequestAddress leave nothing through.
LEMMA OkIsPlain ==
  ASSUME NEW name, NEW rejectPrivate, CheckRequestAddress(name, rejectPrivate) = "ok"
  PROVE  /\ \/ IsDomain(name) \/ ParseIP(name) = "public"
            \/ ParseIP(name) = "private" /\ ~rejectPrivate
         /\ \A fault \in Fault :
              Wrong(name, fault) => fault = "reserved" /\ ~rejectPrivate
<1> USE DEF CheckRequestAddress
<1>1. /\ ~EndsInExample(name) /\ ~Wrong(name, "long") /\ ~Wrong(name, "bad character")
      /\ IsDomain(name) \/ ParseIP(name) \notin {"nil", "never valid"}
      /\ rejectPrivate => ParseIP(name) # "private" /\ ~EndsInReserved(name)
      /\ ~(HasColon(name) /\ (HasDot(name) \/ name.form = "bracketed IPv6"))
      /\ ~Wrong(name, "unicode")
  OBVIOUS
<1>2. ParseIP(name) \in {"nil", "public", "private", "never valid"}
  BY DEF ParseIP
<1>3. ~Wrong(name, "port")
  BY <1>1 DEF ParseIP, IsDomain, HasColon, HasDot
<1>4. ~Wrong(name, "example")
  BY <1>1, <1>3 DEF EndsInExample
<1>5. Wrong(name, "reserved") => ~rejectPrivate
  BY <1>1, <1>3 DEF EndsInReserved
<1> QED BY <1>1, <1>2, <1>3, <1>4, <1>5 DEF Fault

\* A checked address is a domain or a literal that may be listed, with nothing
\* wrong with it, whatever texts are announced.
THEOREM AcceptedAddressIsPlain == Spec => []AcceptedIsPlain
<1>1. Init => PlainInv
  BY DEF Init, PlainInv
<1>2. PlainInv /\ [Next]_vars => PlainInv'
  <2> SUFFICES ASSUME PlainInv, [Next]_vars, stage' = "filed"
               PROVE  CheckRequestAddress(NameOf[req'["address"].is],
                                          config'.RejectPrivateAddresses) = "ok"
    BY DEF PlainInv
  <2>1. CASE Receive
    BY <2>1 DEF Receive, Reject, FirstAnswer
  <2>2. CASE NormalizePort
    BY <2>2 DEF NormalizePort, Reject
  <2>3. CASE CheckBan
    BY <2>3 DEF CheckBan, Reject
  <2>4. ASSUME NEW f \in Field, CheckField(f) PROVE FALSE
    BY <2>4 DEF CheckField, Reject
  <2>5. CASE CheckRequest
    BY <2>5 DEF CheckRequest, Reject
  <2>6. CASE CheckAddress
    BY <2>6 DEF CheckAddress
  <2>7. CASE UNCHANGED vars
    BY <2>7 DEF vars, PlainInv
  <2> QED BY <2>1, <2>2, <2>3, <2>4, <2>5, <2>6, <2>7 DEF Next
<1>3. PlainInv => AcceptedIsPlain
  BY OkIsPlain DEF PlainInv, AcceptedIsPlain
<1> QED BY <1>1, <1>2, <1>3, PTL DEF Spec
=============================================================================
