-------------------------------- MODULE Ping --------------------------------
(***************************************************************************)
(* ServerUp (src/ping.go), called by any number of verifications at once.  *)
(* Each call opens a UDP socket connected to one address of the announced  *)
(* name, says hello as a client does, looks at the first datagram it gets  *)
(* and, if that is what a game server answers, gives back the peer id it   *)
(* was assigned.                                                           *)
(*                                                                         *)
(* A datagram once sent may be lost, delayed, repeated and overtaken: the  *)
(* network keeps it for good and delivers it at any time or never.  Local  *)
(* ports are reused, so that it may reach a later call.  Any other service *)
(* may listen where a game server was announced, and send what it likes.   *)
(***************************************************************************)
EXTENDS Integers

CONSTANTS
  Call,       \* identities of the calls
  Host,       \* the addresses and ports a name resolves to
  Game,       \* the hosts that run a game server
  Sends,      \* what each of the others may send, none, one or many datagrams
  LocalPort,
  MaxId,      \* bound of the peer ids a game server has given out
  None

ASSUME HostAssumption ==
  /\ Game \subseteq Host /\ DOMAIN Sends = Host \ Game
  /\ LocalPort \cap Host = {}

VARIABLES
  pc, socket, target, \* ServerUp's locals: the local port, the remote host
  inbox,              \* the first datagram a socket received
  network,            \* every datagram sent so far
  peers, lastId       \* what each game server has: its clients, the last id

locals == <<pc, socket, target, inbox>>
servers == <<peers, lastId>>
vars == <<locals, network, servers>>

\* A server's own id is 1, a client that has none yet sends 0.
ServerId == 1

\* What ServerUp tells of a datagram: that there are 14 bytes of it, the name of
\* the protocol in the first four, the sender's peer id in the next two, and the
\* code and the id in the last three.  What it is called is for the reader.
Bytes(type, long, protocol, sender, code, id) ==
  [type |-> type, long |-> long, protocol |-> protocol, sender |-> sender,
   code |-> code, id |-> id]

Datagram(from, to, bytes) == [from |-> from, to |-> to, bytes |-> bytes]

SetPeerCode == 1
PingCode == 2

\* A hello, a goodbye and a keep-alive are too short for an id, the first two
\* for a code as well.
HelloBytes == Bytes("hello", FALSE, TRUE, 0, 0, 0)
PingBytes  == Bytes("ping", FALSE, TRUE, ServerId, PingCode, 0)

Hello(from, to)       == Datagram(from, to, HelloBytes)
KeptAlive(from, to)   == Datagram(from, to, PingBytes)
SetPeer(from, to, id) ==
  Datagram(from, to, Bytes("set peer id", TRUE, TRUE, ServerId, SetPeerCode, id))
Disco(from, to, id)   == Datagram(from, to, Bytes("disco", FALSE, TRUE, id, 0, 0))

Send(d) == network' = network \cup {d}

Init ==
  /\ pc = [c \in Call |-> "dial"]
  /\ socket = [c \in Call |-> None] /\ target = [c \in Call |-> None]
  /\ inbox = [c \in Call |-> None]
  /\ network = {}
  /\ peers = [h \in Game |-> {}] /\ lastId = [h \in Game |-> ServerId]

-----------------------------------------------------------------------------
\* ServerUp.
Return(c, answer) ==
  /\ pc' = [pc EXCEPT ![c] = answer]
  /\ socket' = [socket EXCEPT ![c] = None]
  /\ inbox' = [inbox EXCEPT ![c] = None]

\* The name is resolved once more, and a free port taken.
Dial(c) ==
  /\ pc[c] = "dial"
  /\ \E h \in Host, port \in LocalPort :
       /\ \A x \in Call : socket[x] # port
       /\ socket' = [socket EXCEPT ![c] = port]
       /\ target' = [target EXCEPT ![c] = h]
  /\ pc' = [pc EXCEPT ![c] = "write"]
  /\ UNCHANGED <<inbox, network, servers>>

DialFails(c) ==
  /\ pc[c] = "dial"
  /\ Return(c, "down")
  /\ UNCHANGED <<target, network, servers>>

Write(c) ==
  /\ pc[c] = "write"
  /\ Send(Hello(socket[c], target[c]))
  /\ pc' = [pc EXCEPT ![c] = "read"]
  /\ UNCHANGED <<socket, target, inbox, servers>>

WriteFails(c) ==
  /\ pc[c] = "write"
  /\ Return(c, "down")
  /\ UNCHANGED <<target, network, servers>>

\* (fault) anything a server of the protocol sends will do
AnyFromServer(d) == d.bytes.long /\ d.bytes.protocol /\ d.bytes.sender = ServerId

\* The length, the protocol, the sender and the code: nothing else is looked at.
IsAnswer(d) ==
  /\ d.bytes.long /\ d.bytes.protocol
  /\ d.bytes.sender = ServerId /\ d.bytes.code = SetPeerCode

\* (fault) the id is taken from the header
DiscoToSender(d) == Disco(d.to, d.from, d.bytes.sender)

\* The peer id is what the answer's last two bytes say.
Goodbye(d) == Disco(d.to, d.from, d.bytes.id)

Read(c) ==
  /\ pc[c] = "read" /\ inbox[c] # None
  /\ IF IsAnswer(inbox[c])
     THEN Send(Goodbye(inbox[c])) /\ Return(c, "up")
     ELSE Return(c, "down") /\ UNCHANGED network
  /\ UNCHANGED <<target, servers>>

\* (fault) the read has no deadline
NoDeadline(c) ==
  /\ pc[c] = "read" /\ inbox[c] # None
  /\ Return(c, "down")
  /\ UNCHANGED <<target, network, servers>>

\* The deadline passes, whether something came or not, or the host refuses.
Timeout(c) ==
  /\ pc[c] = "read"
  /\ Return(c, "down")
  /\ UNCHANGED <<target, network, servers>>

ServerUp(c) ==
  \/ Dial(c) \/ DialFails(c) \/ Write(c) \/ WriteFails(c) \/ Read(c) \/ Timeout(c)

-----------------------------------------------------------------------------
\* The network and the hosts.
\* A connected socket takes datagrams from its remote end only.
Deliver(c) ==
  /\ pc[c] \in {"write", "read"} /\ inbox[c] = None
  /\ \E d \in network :
       /\ d.to = socket[c] /\ d.from = target[c]
       /\ inbox' = [inbox EXCEPT ![c] = d]
  /\ UNCHANGED <<pc, socket, target, network, servers>>

\* What else listens where the call says hello sends what it sends.  It may send
\* it again, so that the network need not keep it.
Intrude(c) ==
  /\ pc[c] \in {"write", "read"} /\ inbox[c] = None
  /\ target[c] \in Host \ Game
  /\ \E bytes \in Sends[target[c]] :
       inbox' = [inbox EXCEPT ![c] = Datagram(target[c], socket[c], bytes)]
  /\ UNCHANGED <<pc, socket, target, network, servers>>

\* A game server knows its clients by address and port; it gives each new one
\* an id and repeats itself to one it knows.
GiveId(h) ==
  /\ h \in Game
  /\ \E d \in network :
       /\ d.to = h /\ d.bytes = HelloBytes
       /\ \/ \E peer \in peers[h] :
               /\ peer.port = d.from
               /\ Send(SetPeer(h, d.from, peer.id))
               /\ UNCHANGED servers
          \/ /\ \A peer \in peers[h] : peer.port # d.from
             /\ lastId[h] < MaxId
             /\ lastId' = [lastId EXCEPT ![h] = @ + 1]
             /\ peers' = [peers EXCEPT ![h] =
                            @ \cup {[port |-> d.from, id |-> lastId[h] + 1]}]
             /\ Send(SetPeer(h, d.from, lastId[h] + 1))
  /\ UNCHANGED locals

\* It keeps the connection to a client alive until it forgets it.
KeepAlive(h) ==
  /\ h \in Game
  /\ \E peer \in peers[h] : Send(KeptAlive(h, peer.port))
  /\ UNCHANGED <<locals, servers>>

\* A client goes when it says so, or when it has been silent for too long.
Forget(h) ==
  /\ h \in Game
  /\ \E peer \in peers[h] : peers' = [peers EXCEPT ![h] = @ \ {peer}]
  /\ UNCHANGED <<locals, network, lastId>>

Next ==
  \/ \E c \in Call : ServerUp(c) \/ Deliver(c) \/ Intrude(c)
  \/ \E h \in Host : GiveId(h) \/ KeepAlive(h) \/ Forget(h)

\* Goroutines are scheduled and deadlines pass; the network owes nothing.
Spec ==
  /\ Init /\ [][Next]_vars
  /\ \A c \in Call : WF_vars(Dial(c) \/ DialFails(c)) /\ WF_vars(Write(c) \/ WriteFails(c))
                     /\ WF_vars(Timeout(c))

-----------------------------------------------------------------------------
\* What a game server says when it gives an id, whoever says it.
LooksLikeSetPeer(bytes) ==
  /\ bytes.long /\ bytes.protocol
  /\ bytes.sender = ServerId /\ bytes.code = SetPeerCode

\* Only a game server is up, or what sends a datagram that cannot be told from
\* its answer: neither an echo nor a client, another protocol, or an answer cut
\* short or of another code, although keep-alives and what was meant for
\* earlier calls on the port arrive as well.
OnlyGamesAreUp ==
  \A c \in Call :
    pc[c] = "up" =>
      \/ target[c] \in Game
      \/ target[c] \in Host \ Game /\ \E bytes \in Sends[target[c]] : LooksLikeSetPeer(bytes)

\* The id that a call gives back to a game server is that of no other port: it
\* never throws out the server itself or a client that connected from elsewhere,
\* before or after it.  (A later call on the same port, to which the server
\* repeated the id, is the same client for the server, and goes with it.)
NobodyElseIsDismissed ==
  \A d \in network :
    d.bytes.type = "disco" /\ d.to \in Game =>
      /\ d.bytes.sender # ServerId
      /\ \A peer \in peers[d.to] : peer.id = d.bytes.sender => peer.port = d.from

\* Verifications do not pile up: every ping ends, if all is lost as well.
EveryPingEnds == \A c \in Call : <>(pc[c] \in {"up", "down"})
=============================================================================
