---------------------------- MODULE MCAdmission -----------------------------
(***************************************************************************)
(* Arrivals in families, so that what one check looks at is combined in    *)
(* full and the rest is in order: requests that differ from a good one in  *)
(* at most two fields, every address, every requester, every body.         *)
(***************************************************************************)
EXTENDS Admission, TLC, SequencesExt

CONSTANT Families

Texts12 ==
  <<"", "1", "1.5", "10.0.0.1", "A.org", "NaN", "a", "a.org", "b", "http://a",
    "x y", "xy">>

\* Addresses as a connection or a header has them.
Spelled ==
  {"10.0.0.1:80", "10.0.0.9", "::ffff:10.0.0.9", "[::ffff:10.0.0.9]:80",
   "2001:db8::1", "2001:DB8::1", "[2001:db8::1]", "[2001:db8::1]:80",
   "fe80::1%eth0", "[fe80::1%eth0]:80", "unknown"}

Text == Range(Texts12) \cup Spelled \cup {ToString(n) : n \in Name}

\* Only the strings of lists are ordered.
MCByteOrder == [t \in Range(Texts12) |-> CHOOSE i \in DOMAIN Texts12 : Texts12[i] = t]

MCParseFloat == [t \in Text |->
  CASE t = "1" -> 2 [] t = "1.5" -> 3 [] t = "NaN" -> NaN [] OTHER -> NoNumber]
MCAtoi == [t \in Text |-> IF t = "1" THEN 2 ELSE NoNumber]
MCStrip == [t \in Text |-> IF t = "x y" THEN "xy" ELSE t]
MCLower == [t \in Text |-> CASE t = "A.org" -> "a.org"
                             [] t = "2001:DB8::1" -> "2001:db8::1"
                             [] OTHER -> t]

MCTrimMapped ==
  [t \in Text |-> IF t = "::ffff:10.0.0.9" THEN "10.0.0.9" ELSE t]
MCHostOf == [t \in Text |->
  CASE t = "10.0.0.1:80" -> "10.0.0.1"
    [] t = "[::ffff:10.0.0.9]:80" -> "::ffff:10.0.0.9"
    [] t = "[2001:db8::1]:80" -> "2001:db8::1"
    [] t = "[fe80::1%eth0]:80" -> "fe80::1%eth0"
    [] OTHER -> NoHost]
MCTrimBrackets == [t \in Text |-> IF t = "[2001:db8::1]" THEN "2001:db8::1" ELSE t]
MCLiteral == {"10.0.0.1", "10.0.0.9", "::ffff:10.0.0.9", "2001:db8::1", "2001:DB8::1"}
MCDenotes == [t \in Text |->
  CASE t \in {"10.0.0.1", "10.0.0.1:80"} -> "10.0.0.1"
    [] t \in {"10.0.0.9", "::ffff:10.0.0.9", "[::ffff:10.0.0.9]:80"} -> "10.0.0.9"
    [] t \in {"2001:db8::1", "2001:DB8::1", "[2001:db8::1]", "[2001:db8::1]:80"} ->
         "2001:db8::1"
    [] OTHER -> ""]

Named(form, faults) == [form |-> form, faults |-> faults]

MCNameOf == [t \in Text |->
  CASE \E n \in Name : ToString(n) = t -> CHOOSE n \in Name : ToString(n) = t
    [] t \in {"a.org", "A.org"} -> Named("domain", {})
    [] t \in {"10.0.0.1", "10.0.0.9"} -> Named("private IPv4", {})
    [] t \in {"2001:db8::1", "2001:DB8::1"} -> Named("public IPv6", {})
    [] t \in {"x y", "http://a"} -> Named("word", {"bad character"})
    [] OTHER -> Named("word", {})]

-----------------------------------------------------------------------------
Config ==
  [TrustProxyHeaders |-> FALSE, LogRawRequests |-> FALSE,
   RejectPrivateAddresses |-> FALSE, BannedIPs |-> {"10.0.0.9"},
   BannedServers |-> [hosts |-> {"b", "10.0.0.1"},
                      pairs |-> {<<"a.org", 60000>>, <<"10.0.0.1", 2>>,
                                 <<"2001:db8::1", 60000>>}]]

Null == [type |-> "null"]

Good == [f \in Field |->
  CASE f = "port" -> Whole(2)
    [] f = "gameid" -> Str("a")
    [] f \in {"clients", "proto_min", "proto_max"} -> Whole(1)
    [] OTHER -> Absent]

Request(fields) ==
  [method |-> "POST", remoteAddr |-> "10.0.0.1:80", forwardedFor |-> <<>>,
   realIP |-> "", body |-> "object", beyond |-> FALSE, action |-> "start",
   fields |-> fields]

Names(ts) == List([i \in DOMAIN ts |-> Str(ts[i])])

Odd(f) ==
  CASE f = "port" -> {Absent, Str("1"), Str("1.5"), Num(3)}
    [] f = "clients" -> {Absent, Num(3), Num(-2), Str("1.5"), Str("a")}
    [] f = "lag" -> {Num(3), Str("NaN"), Num(-1)}
    [] f = "proto_min" -> {Whole(2), Str("NaN"), Str("1")}
    [] f = "proto_max" -> {Whole(2), Whole(0)}
    [] f = "clients_list" -> {Names(<<"b", "a", "b">>), Names(<<"x y">>),
                              List(<<Whole(1)>>), Null}
    [] f = "gameid" -> {Absent, Str("x y")}
    [] f = "creative" -> {Str("1"), Str("a"), Whole(1)}
    [] f = "url" -> {Str("http://a"), Str("a")}
    [] f = "address" -> {Str(""), Str("A.org"), Str("b"), Str("10.0.0.1"), Bool(TRUE)}

Fields ==
  UNION {{<<Config, Request([Good EXCEPT ![f] = v, ![g] = w])>> :
            v \in Odd(f), w \in Odd(g)} : f, g \in Field}

Addresses ==
  {<<[Config EXCEPT !.RejectPrivateAddresses = reject],
     Request([Good EXCEPT !["address"] = Str(ToString(n))])>> :
     n \in Name, reject \in BOOLEAN}

Requesters ==
  {<<[Config EXCEPT !.TrustProxyHeaders = trust],
     [Request(Good) EXCEPT !.remoteAddr = peer, !.forwardedFor = forwarded,
                           !.realIP = real, !.action = "delete"]>> :
     trust \in BOOLEAN,
     peer \in {"10.0.0.1:80", "[2001:db8::1]:80", "[fe80::1%eth0]:80"},
     forwarded \in {<<>>, <<"unknown">>, <<"">>, <<"unknown", "2001:DB8::1">>,
                    <<"[2001:db8::1]:80", "10.0.0.9">>, <<"::ffff:10.0.0.9">>,
                    <<"[::ffff:10.0.0.9]:80", "2001:db8::1">>},
     real \in {"", "unknown", "10.0.0.9", "[2001:db8::1]"}}

Bodies ==
  {<<[Config EXCEPT !.LogRawRequests = log],
     [Request(Good) EXCEPT !.method = method, !.body = body, !.beyond = beyond,
                           !.action = IF body = "null" THEN "missing" ELSE action]>> :
     log \in BOOLEAN, beyond \in BOOLEAN, method \in {"POST", "GET"},
     body \in {"form error", "missing", "too large", "undecodable", "null", "object"},
     action \in {"start", "update", "missing", "other"}}

MCArrival == UNION {Families[i] : i \in DOMAIN Families}

AllFamilies == <<Fields, Addresses, Requesters, Bodies>>
FieldFamily == <<Fields>>
=============================================================================
