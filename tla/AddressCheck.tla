---------------------------- MODULE AddressCheck ----------------------------
(***************************************************************************)
(* checkRequestAddress of src/validation.go.  An announced address is what *)
(* the check can tell of it: its form, and what is wrong with it.          *)
(* `rejectPrivate' is the setting reject-private-addresses.                *)
(***************************************************************************)
\* A domain name has a dot and a letter after the last one; that of an IDN is
\* not an ASCII letter.  "[::1]" is a bracketed literal, "::ffff:1.2.3.4" a
\* mapped one.
IPv4 == {"public IPv4", "private IPv4", "never valid IPv4"}
IPv6 == {"public IPv6", "private IPv6", "never valid IPv6", "mapped IPv4"}
Form == {"domain", "idn", "word", "bracketed IPv6"} \cup IPv4 \cup IPv6

\* example, reserved: its last labels are those of an example or a reserved
\* domain ("localhost" is a reserved word); port: ":30000" follows.
Fault == {"example", "reserved", "port", "long", "unicode", "bad character"}

\* An IP literal is short ASCII, and an IPv6 one needs brackets for a port.
Name ==
  {n \in [form : Form, faults : SUBSET Fault] :
     /\ "example" \in n.faults => n.form = "domain" /\ "reserved" \notin n.faults
     /\ "reserved" \in n.faults => n.form \in {"domain", "word"}
     /\ n.form = "idn" => "unicode" \in n.faults
     /\ n.form \in IPv4 \cup {"bracketed IPv6"} => n.faults \subseteq {"port"}
     /\ n.form \in IPv6 => n.faults = {}}

Wrong(n, fault) == fault \in n.faults

\* The suffixes are compared with the whole string, ":30000" included.
EndsInExample(n)  == Wrong(n, "example") /\ ~Wrong(n, "port")
EndsInReserved(n) == Wrong(n, "reserved") /\ ~Wrong(n, "port")

HasDot(n)   == n.form \in {"domain", "idn", "mapped IPv4"} \cup IPv4
HasColon(n) == Wrong(n, "port") \/ n.form \in IPv6 \cup {"bracketed IPv6"}

IsDomain(n) == n.form = "domain"

\* What net.ParseIP makes of it, "nil" of anything but a bare literal.
ParseIP(n) ==
  IF Wrong(n, "port") THEN "nil"
  ELSE IF n.form \in {"public IPv4", "public IPv6", "mapped IPv4"} THEN "public"
  ELSE IF n.form \in {"private IPv4", "private IPv6"} THEN "private"
  ELSE IF n.form \in {"never valid IPv4", "never valid IPv6"} THEN "never valid"
  ELSE "nil"

\* (fault) what is neither a domain nor an IP goes on to the later checks
CheckAnyWord(n, rejectPrivate) ==
  IF EndsInExample(n) THEN "example"
  ELSE IF \/ Wrong(n, "long") \/ Wrong(n, "bad character")
          \/ ~IsDomain(n) /\ ParseIP(n) = "never valid" THEN "invalid"
  ELSE IF /\ rejectPrivate
          /\ ParseIP(n) = "private" \/ EndsInReserved(n) THEN "private"
  ELSE IF HasColon(n) /\ (HasDot(n) \/ n.form = "bracketed IPv6") THEN "invalid port"
  ELSE IF Wrong(n, "unicode") THEN "unicode"
  ELSE "ok"

CheckRequestAddress(n, rejectPrivate) ==
  IF EndsInExample(n) THEN "example"
  ELSE IF \/ Wrong(n, "long") \/ Wrong(n, "bad character")
          \/ ~IsDomain(n) /\ ParseIP(n) \in {"nil", "never valid"} THEN "invalid"
  ELSE IF /\ rejectPrivate
          /\ ParseIP(n) = "private" \/ EndsInReserved(n) THEN "private"
  ELSE IF HasColon(n) /\ (HasDot(n) \/ n.form = "bracketed IPv6") THEN "invalid port"
  ELSE IF Wrong(n, "unicode") THEN "unicode"
  ELSE "ok"
=============================================================================
