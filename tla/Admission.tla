----------------------------- MODULE Admission ------------------------------
(***************************************************************************)
(* What announce (src/handlers.go) asks of a request itself, whatever the  *)
(* list holds: who sent it, whether it is an announcement at all, bans,    *)
(* and the checks of src/validation.go.  Each check changes the JSON       *)
(* object in place; checkRequestSchema visits the fields in the random     *)
(* order of a Go map.                                                      *)
(*                                                                         *)
(* A JSON value is tagged with its type.  Numbers are counted in halves,   *)
(* so that 1.5 is one of them; a string is known by what the program asks  *)
(* of it: what it parses to, whether it has bad characters, its form       *)
(* without them or in lower case.                                          *)
(***************************************************************************)
EXTENDS FiniteSets, ClientAddress, AddressCheck

CONSTANTS
  Field,         \* the fields the requests differ in; all others are in order
  Arrival,       \* a configuration and a request as sent, in pairs
  ByteOrder,     \* the rank of a string in the order of sort.Strings
  ParseFloat, Atoi,   \* what a string parses to
  NaN, NoNumber, \* the float, and a failed parse
  Yes,           \* the strings a boolean field takes for true
  Bad,           \* the strings with characters of badChars
  Strip, Lower,
  Http,          \* the strings that start like an absolute http(s) URL
  NameOf,        \* what checkRequestAddress can tell of a string
  Denotes        \* the IP that a connection's or a proxy's text stands for, or ""

NumberField == {"port", "clients", "clients_max", "uptime", "game_time",
                "lag", "proto_min", "proto_max"}
StringField == {"address", "version", "gameid", "mapgen", "url", "privs",
                "name", "description"}
ListField == {"clients_list", "mods"}
BoolField == {"creative", "dedicated", "damage", "pvp", "password",
              "rollback", "can_see_far_names"}
Stripped == {"gameid", "mapgen", "version", "privs"}
Required  == {"clients", "clients_max", "uptime", "game_time", "version",
              "proto_min", "proto_max", "gameid", "name", "description"}

ASSUME FieldAssumption ==
  /\ Field \subseteq NumberField \cup StringField \cup ListField \cup BoolField
  /\ {"port", "address", "clients", "proto_min", "proto_max"} \subseteq Field

Absent == [type |-> "absent"]
Num(q)   == [type |-> "number", is |-> q]
Str(t)   == [type |-> "string", is |-> t]
Bool(b)  == [type |-> "bool", is |-> b]
List(vs) == [type |-> "list", is |-> vs]

Whole(n) == Num(2 * n)

\* null has no action, and what Atoi parses is an integer.
ASSUME ArrivalAssumption ==
  /\ NaN \notin Int /\ NoNumber \notin Int
  /\ \A t \in DOMAIN Atoi : Atoi[t] = NoNumber \/ (Atoi[t] \in Int /\ Atoi[t] % 2 = 0)
  /\ \A arrival \in Arrival :
       LET request == arrival[2]
       IN  /\ arrival[1].TrustProxyHeaders \in BOOLEAN
           /\ request.forwardedFor \in Seq(DOMAIN Denotes)
           /\ {request.realIP, request.remoteAddr} \subseteq DOMAIN Denotes
           /\ DOMAIN request.fields = Field
           /\ request.body = "null" => request.action = "missing"
           /\ \A f \in Field :
                request.fields[f].type = "number" => request.fields[f].is \in Int
           /\ request.fields["port"].type = "string" =>
                request.fields["port"].is \in DOMAIN Atoi
           /\ \A f \in Stripped \cap Field :
                request.fields[f].type = "string" => request.fields[f].is \in DOMAIN Strip
           /\ \A f \in ListField \cap Field : request.fields[f].type = "list" =>
                LET items == request.fields[f].is
                IN  /\ IsFiniteSet(DOMAIN items)
                    /\ \A i \in DOMAIN items :
                         items[i].type = "string" => items[i].is \in DOMAIN ByteOrder

\* Different strings have different ranks; what was stripped stays as it is.
ASSUME StringAssumption ==
  /\ \A t \in DOMAIN ByteOrder : ByteOrder[t] \in Int
  /\ \A t, u \in DOMAIN ByteOrder : ByteOrder[t] = ByteOrder[u] => t = u
  /\ \A t \in DOMAIN Strip : Strip[t] \in DOMAIN Strip /\ Strip[Strip[t]] = Strip[t]

\* Only the empty text is empty in lower case.
ASSUME LowerAssumption ==
  /\ \A t \in DOMAIN Lower : Lower[t] = "" => t = ""
  /\ \A arrival \in Arrival :
       arrival[2].fields["address"].type = "string" =>
         arrival[2].fields["address"].is \in DOMAIN Lower

\* A map that was never made: "null" decodes into it.
NilMap == [f \in {} |-> Absent]

VARIABLES
  config, raw, \* the settings, and the request as sent
  ip, req,     \* announce's locals: the map as decoded and changed so far
  todo,        \* the fields checkRequestSchema has not visited
  stage        \* the check that is next, or the outcome

vars == <<config, raw, ip, req, todo, stage>>

Has(f) == f \in Field /\ req[f].type # "absent"

Init ==
  /\ \E arrival \in Arrival : config = arrival[1] /\ raw = arrival[2]
  /\ ip = "" /\ req = NilMap /\ todo = Field
  /\ stage = "receive"

Reject(why) == stage' = why /\ UNCHANGED <<config, raw, ip, req, todo>>

-----------------------------------------------------------------------------
\* What the form has in its field "json".  Logging reads the body first and puts
\* back little more than 64 KB of it: what lies beyond is cut off.  That may be
\* an end of the field, an error, or nothing that matters.
JSONData(c, request) ==
  IF c.LogRawRequests /\ request.beyond
  THEN {request.body, "form error", "missing", "too large", "undecodable"}
         \cup (IF request.body = "form error" THEN {"object"} ELSE {})
  ELSE {request.body}

\* (fault) a missing action is taken for a start
StartsByDefault(sender, body) ==
  IF raw.method # "POST" THEN "method not allowed"
  ELSE IF sender \in config.BannedIPs THEN "banned"
  ELSE IF body \notin {"null", "object"} THEN "bad form"
  ELSE IF raw.action \notin {"start", "update", "delete", "missing"} THEN "invalid action"
  ELSE "go on"

\* The answers announce gives before it touches the map, in their order.
FirstAnswer(sender, body) ==
  IF raw.method # "POST" THEN "method not allowed"
  ELSE IF sender \in config.BannedIPs THEN "banned"
  ELSE IF body \notin {"null", "object"} THEN "bad form"
  ELSE IF raw.action \notin {"start", "update", "delete"} THEN "invalid action"
  ELSE "go on"

Receive ==
  /\ stage = "receive"
  /\ LET sender == RemoteIP(raw, config.TrustProxyHeaders)
     IN  \E body \in JSONData(config, raw) :
           IF FirstAnswer(sender, body) # "go on"
           THEN Reject(FirstAnswer(sender, body))
           ELSE /\ ip' = sender
                /\ req' = IF body = "null" THEN NilMap ELSE raw.fields
                /\ stage' = "port"
                /\ UNCHANGED <<config, raw, todo>>

-----------------------------------------------------------------------------
IsWhole(q) == q # NaN /\ q % 2 = 0

\* The port normalizePort leaves behind, Absent if it refuses it.
NormalPort(v) ==
  IF v.type = "absent" THEN Whole(30000)
  ELSE IF v.type = "string" /\ Atoi[v.is] # NoNumber THEN Num(Atoi[v.is])
  ELSE IF v.type = "number" /\ IsWhole(v.is) THEN v
  ELSE Absent

NormalizePort ==
  /\ stage = "port"
  /\ LET port == NormalPort(req["port"])
     IN  IF port = Absent THEN Reject("schema error")
         ELSE /\ req' = [req EXCEPT !["port"] = port]
              /\ stage' = "ban"
              /\ UNCHANGED <<config, raw, ip, todo>>

AnnouncedAddress ==
  IF req["address"].type = "string" THEN Lower[req["address"].is] ELSE ""

\* (fault) the announced address is looked up as it was spelled
BansAsSpelled ==
  LET port == req["port"].is
  IN  \/ <<ip, port>> \in config.BannedServers.pairs
      \/ /\ req["address"].type = "string"
         /\ \/ <<req["address"].is, port>> \in config.BannedServers.pairs
            \/ req["address"].is \in config.BannedServers.hosts

\* The host and the pair are both looked up, for the requester and, if it
\* names one, for the announced address.
IsServerBanned ==
  LET port == req["port"].is
  IN  \/ <<ip, port>> \in config.BannedServers.pairs
      \/ /\ AnnouncedAddress # ""
         /\ \/ <<AnnouncedAddress, port>> \in config.BannedServers.pairs
            \/ AnnouncedAddress \in config.BannedServers.hosts

\* A delete is not checked any further.
CheckBan ==
  /\ stage = "ban"
  /\ IF IsServerBanned THEN Reject("banned")
     ELSE /\ stage' = IF raw.action = "delete" THEN "to delete" ELSE "schema"
          /\ UNCHANGED <<config, raw, ip, req, todo>>

-----------------------------------------------------------------------------
\* checkRequestSchema's conversion of old clients' strings.
Converted(f, v) ==
  IF v.type # "string" THEN v
  ELSE IF f \in BoolField THEN Bool(v.is \in Yes)
  ELSE IF f \in NumberField /\ ParseFloat[v.is] # NoNumber THEN Num(ParseFloat[v.is])
  ELSE v

\* (fault) the elements of a list are not looked at
FitsAnyList(f, v) ==
  \/ v.type = "absent" /\ f \notin Required
  \/ f \in StringField /\ v.type = "string"
  \/ f \in NumberField /\ v.type = "number" /\ (f = "lag" \/ IsWhole(v.is))
  \/ f \in NumberField /\ v.type = "string" /\ ParseFloat[v.is] # NoNumber
  \/ f \in BoolField /\ v.type \in {"bool", "string"}
  \/ f \in ListField /\ v.type = "list"

\* What passes: a number that came as a string is not asked to be whole.
Fits(f, v) ==
  \/ v.type = "absent" /\ f \notin Required
  \/ f \in StringField /\ v.type = "string"
  \/ f \in NumberField /\ v.type = "number" /\ (f = "lag" \/ IsWhole(v.is))
  \/ f \in NumberField /\ v.type = "string" /\ ParseFloat[v.is] # NoNumber
  \/ f \in BoolField /\ v.type \in {"bool", "string"}
  \/ /\ f \in ListField /\ v.type = "list"
     /\ \A i \in DOMAIN v.is : v.is[i].type = "string"

\* (fault) a field that was not sent ends the check
CheckFieldStops(f) ==
  /\ stage = "schema" /\ f \in todo
  /\ IF Fits(f, req[f])
     THEN /\ req' = [req EXCEPT ![f] = Converted(f, @)]
          /\ todo' = todo \ {f}
          /\ stage' = IF todo = {f} \/ ~Has(f) THEN "check" ELSE "schema"
          /\ UNCHANGED <<config, raw, ip>>
     ELSE Reject("schema error")

CheckField(f) ==
  /\ stage = "schema" /\ f \in todo
  /\ IF Fits(f, req[f])
     THEN /\ req' = [req EXCEPT ![f] = Converted(f, @)]
          /\ todo' = todo \ {f}
          /\ stage' = IF todo = {f} THEN "check" ELSE "schema"
          /\ UNCHANGED <<config, raw, ip>>
     ELSE Reject("schema error")

-----------------------------------------------------------------------------
\* Go's comparison of floats: false if one of them is NaN.
Below(p, q) == p # NaN /\ q # NaN /\ p < q

GoodURL(t) == t # "" /\ t \in Http /\ t \notin Bad

Texts(v) == {v.is[i].is : i \in DOMAIN v.is}

\* sortUniqueStringList, on a list without an empty or bad string: each text
\* once, as many before it as are smaller.
SortUnique(v) ==
  LET texts == Texts(v)
      Smaller(t) == {u \in texts : ByteOrder[u] < ByteOrder[t]}
  IN  List([i \in 1..Cardinality(texts) |->
              Str(CHOOSE t \in texts : Cardinality(Smaller(t)) = i - 1)])

Incorrect ==
  \/ \E f \in (NumberField \ {"port"}) \cap Field :
       Has(f) /\ Below(req[f].is, 0)
  \/ Below(req["proto_max"].is, req["proto_min"].is)
  \/ \E f \in ListField : Has(f) /\ Texts(req[f]) \cap (Bad \cup {""}) # {}

\* (fault) the clients are counted before the list is made unique
CleanedCountsAll ==
  [f \in Field |->
     IF f = "address" /\ (~Has(f) \/ req[f].is = "") THEN Str(ip)
     ELSE IF f = "clients" /\ Has("clients_list") THEN Whole(Len(req["clients_list"].is))
     ELSE IF ~Has(f) THEN req[f]
     ELSE IF f = "url" /\ ~GoodURL(req[f].is) THEN Absent
     ELSE IF f \in ListField THEN SortUnique(req[f])
     ELSE IF f \in Stripped THEN Str(Strip[req[f].is])
     ELSE req[f]]

\* (fault) an announced count goes before the names in the list
CleanedKeepsClients ==
  [f \in Field |->
     IF f = "address" /\ (~Has(f) \/ req[f].is = "") THEN Str(ip)
     ELSE IF ~Has(f) THEN req[f]
     ELSE IF f = "url" /\ ~GoodURL(req[f].is) THEN Absent
     ELSE IF f \in ListField THEN SortUnique(req[f])
     ELSE IF f \in Stripped THEN Str(Strip[req[f].is])
     ELSE req[f]]

\* What checkRequest leaves of a request it accepts.
Cleaned ==
  [f \in Field |->
     IF f = "address" /\ (~Has(f) \/ req[f].is = "") THEN Str(ip)
     ELSE IF f = "clients" /\ Has("clients_list") THEN
       Whole(Len(SortUnique(req["clients_list"]).is))
     ELSE IF ~Has(f) THEN req[f]
     ELSE IF f = "url" /\ ~GoodURL(req[f].is) THEN Absent
     ELSE IF f \in ListField THEN SortUnique(req[f])
     ELSE IF f \in Stripped THEN Str(Strip[req[f].is])
     ELSE req[f]]

CheckRequest ==
  /\ stage = "check"
  /\ IF Incorrect THEN Reject("incorrect")
     ELSE req' = Cleaned /\ stage' = "address" /\ UNCHANGED <<config, raw, ip, todo>>

\* The address is looked at unless an update finds its server with it.
CheckAddress ==
  /\ stage = "address"
  /\ \/ raw.action = "update" /\ stage' = "filed, address known"
     \/ stage' = IF CheckRequestAddress(NameOf[req["address"].is],
                                        config.RejectPrivateAddresses) = "ok"
                 THEN "filed" ELSE "bad address"
  /\ UNCHANGED <<config, raw, ip, req, todo>>

Next ==
  \/ Receive \/ NormalizePort \/ CheckBan
  \/ \E f \in Field : CheckField(f)
  \/ CheckRequest \/ CheckAddress

Spec == Init /\ [][Next]_vars

-----------------------------------------------------------------------------
Filed == {"filed", "filed, address known"}

\* Where a requester's address may be found, in this order.
Sources(request, trusted) ==
  (IF trusted THEN Append(request.forwardedFor, request.realIP) ELSE <<>>)
    \o <<request.remoteAddr>>

\* The requester is who the first of its sources says that says anything:
\* the trusted headers, then the peer; however the address is spelled there.
\* Bans and keys compare texts: an address that is spelled with the prefix of
\* the mapped form, once outside or inside its brackets, does not keep it, and
\* without a trusted proxy every address has one spelling only.
RequesterIsKnown ==
  stage \notin {"receive", "method not allowed", "banned", "bad form", "invalid action"} =>
    LET sources == Sources(raw, config.TrustProxyHeaders)
    IN  /\ \/ \A i \in DOMAIN sources : Denotes[sources[i]] = "" /\ ip = ""
           \/ \E i \in DOMAIN sources :
                /\ Denotes[sources[i]] # "" /\ Denotes[ip] = Denotes[sources[i]]
                /\ \A j \in 1..(i - 1) : Denotes[sources[j]] = ""
        /\ TrimMapped[ip] = ip
        /\ ~config.TrustProxyHeaders => ip = Denotes[raw.remoteAddr]

\* Bans are looked up before the request is checked and rewritten, with the port
\* and the address as far as they are known by then.  For all that, nothing is
\* filed or deleted for a requester who is banned by IP or with the port of the
\* server, or with an address its client named that is banned as a host or with
\* that port, in any case of letters.  A client that names none gets its own IP
\* for an address: that was looked up with the port, but never as a host.
BansHold ==
  stage \in Filed \cup {"to delete"} =>
    LET port  == req["port"].is
        named == raw.fields["address"].type = "string" /\ raw.fields["address"].is # ""
    IN  /\ ip \notin config.BannedIPs
        /\ <<ip, port>> \notin config.BannedServers.pairs
        /\ named => /\ <<AnnouncedAddress, port>> \notin config.BannedServers.pairs
                    /\ AnnouncedAddress \notin config.BannedServers.hosts
        /\ stage \in Filed /\ ~named => req["address"] = Str(ip)

\* Nothing is assigned in a map that does not exist.  The type assertions that
\* checkRequest, sortUniqueStringList and announce make on the request without
\* looking cannot panic either: once the schema is checked every field has its
\* type, a list has strings in it and nothing required is missing, although the
\* conversions and the clean-up go on replacing values.  (The assertion that
\* announce makes on the listed entry is not about the request.)
AssertionsHold ==
  /\ stage \in {"port", "ban", "schema", "check", "address"} => DOMAIN req = Field
  /\ stage \in {"check", "address"} \cup Filed =>
       \A f \in Field :
         IF ~Has(f) THEN f \notin Required
         ELSE /\ f \in NumberField => req[f].type = "number"
              /\ f \in StringField => req[f].type = "string"
              /\ f \in BoolField   => req[f].type = "bool"
              /\ f \in ListField   => /\ req[f].type = "list"
                                      /\ \A i \in DOMAIN req[f].is :
                                           req[f].is[i].type = "string"

\* The order in which Go's map hands out the fields decides neither whether
\* the schema holds nor what the request looks like afterwards.
OrderDoesNotMatter ==
  /\ stage = "schema error" =>
       \/ NormalPort(raw.fields["port"]) = Absent
       \/ \E f \in Field \ {"port"} : ~Fits(f, raw.fields[f])
  /\ stage = "check" =>
       \A f \in Field \ {"port"} :
         Fits(f, raw.fields[f]) /\ req[f] = Converted(f, raw.fields[f])

\* An accepted request is in a normal form: normalizePort, the schema and
\* checkRequest would take it as it is once more and leave it so, but for an
\* integer that came as a string: that may be a fraction or NaN by now, which
\* the schema refuses.
AcceptedIsNormal ==
  stage \in Filed =>
    /\ NormalPort(req["port"]) = req["port"]
    /\ \A f \in Field :
         \/ Fits(f, req[f]) /\ Converted(f, req[f]) = req[f]
         \/ /\ f \in NumberField \ {"port", "lag"}
            /\ raw.fields[f].type = "string" /\ ~IsWhole(req[f].is)
    /\ ~Incorrect /\ Cleaned = req

\* The address checks overlap, each relies on what the earlier ones left, and
\* the address may be the requester's own: a server whose address was checked
\* has a plain domain or a bare IP literal that the configuration allows to
\* list, with nothing wrong with it.
AcceptedIsPlain ==
  stage = "filed" =>
    LET name    == NameOf[req["address"].is]
        private == ~config.RejectPrivateAddresses
    IN  /\ IsDomain(name) \/ ParseIP(name) = "public"
             \/ (ParseIP(name) = "private" /\ private)
        /\ \A fault \in Fault : Wrong(name, fault) => fault = "reserved" /\ private

\* What the list sums up and averages are natural numbers, unless a string
\* stood for one; that of the clients counts them whatever stood there if
\* their names were sent too.
CountersAreNatural ==
  stage \in Filed =>
    \A f \in (NumberField \ {"lag", "port"}) \cap Field :
      /\ Has(f)
      /\ raw.fields[f].type # "string" \/ (f = "clients" /\ Has("clients_list"))
      => IsWhole(req[f].is) /\ req[f].is >= 0

\* "Accept strings in integer fields but convert it to an integer"
\* (server.py, checkRequestSchema).
IntegersAreWhole ==
  stage \in Filed =>
    \A f \in (NumberField \ {"lag"}) \cap Field : Has(f) => IsWhole(req[f].is)
=============================================================================
