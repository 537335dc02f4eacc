----------------------------- MODULE MCService ------------------------------
(***************************************************************************)
(* Small instances of Service: two IPs that claim one name, one of which   *)
(* also tries an address that is refused.                                  *)
(***************************************************************************)
EXTENDS Service, TLC

CONSTANTS i1, i2, i6, name, bad

MCPort == 30000

MCAnnounce(action, ip, address, uptime, clients) ==
  [action |-> action, ip |-> ip, port |-> MCPort, address |-> address,
   uptime |-> uptime, clients |-> clients]

\* One server that comes (even by an update), goes on, tries to move to an
\* address that is refused and leaves; and another IP that claims its name.
TwoClaimants ==
  {MCAnnounce("update", i1, name, 1, 2), MCAnnounce("update", i1, name, 0, 1),
   MCAnnounce("update", i1, bad, 0, 1), MCAnnounce("delete", i1, name, 0, 0),
   MCAnnounce("start", i2, name, 0, 1)}

\* Two IPs that claim the same name.
TwoServers ==
  {MCAnnounce("start", i1, name, 0, 1), MCAnnounce("start", i2, name, 0, 1)}

\* It comes and goes, and may go on when it has gone.
OneServer ==
  {MCAnnounce("start", i1, name, 0, 1), MCAnnounce("update", i1, name, 0, 1),
   MCAnnounce("delete", i1, name, 0, 0)}

MCFold == [a \in Address |-> a]
MCFamily == [i \in IP |-> IF i = i6 THEN "v6" ELSE "v4"]
\* The announcer's IP, another one, or one of the other family only.
MCAnswers == {{i1}, {i2}, {i6}}
SureAnswer == {{i1}}

MCSymmetry == Permutations(Request)
=============================================================================
