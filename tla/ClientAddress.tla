--------------------------- MODULE ClientAddress ----------------------------
(***************************************************************************)
(* The requester's IP: remoteIP, forwardedIP and normalizeIPString of      *)
(* src/handlers.go.  An address as it was written is a text, known by what *)
(* Go's library makes of it.                                               *)
(***************************************************************************)
EXTENDS Integers, Sequences

CONSTANTS
  TrimMapped,   \* a text without the prefix "::ffff:"
  HostOf,       \* the host that net.SplitHostPort finds
  NoHost,       \* what it finds in a text without a port
  TrimBrackets,
  Literal       \* the texts net.ParseIP accepts: no zones, no ports

\* (fault) the mapped form is only looked for in front of the brackets
NormalizeOutsideBrackets(text) ==
  LET value == TrimMapped[text]
      host  == IF HostOf[value] = NoHost THEN value ELSE HostOf[value]
      bare  == TrimBrackets[host]
  IN  IF bare \in Literal THEN bare ELSE ""

\* The text as it is when nothing surrounds the IP, "" when there is none.
NormalizeIPString(text) ==
  LET value == TrimMapped[text]
      host  == IF HostOf[value] = NoHost THEN value ELSE HostOf[value]
      bare  == TrimMapped[TrimBrackets[host]]
  IN  IF bare \in Literal THEN bare ELSE ""

\* The first usable part of X-Forwarded-For, or else X-Real-IP.  A header is
\* what is between its commas, trimmed; a missing one is empty.
ForwardedIP(request) ==
  LET parts  == request.forwardedFor
      usable == {i \in DOMAIN parts : NormalizeIPString(parts[i]) # ""}
      first  == CHOOSE i \in usable : \A j \in usable : i <= j
  IN  NormalizeIPString(IF usable # {} THEN parts[first] ELSE request.realIP)

\* The peer's own address counts if no proxy is trusted or none said more.
RemoteIP(request, trustProxyHeaders) ==
  IF trustProxyHeaders /\ ForwardedIP(request) # ""
  THEN ForwardedIP(request)
  ELSE NormalizeIPString(request.remoteAddr)
=============================================================================
