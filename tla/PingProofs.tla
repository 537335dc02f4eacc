----------------------------- MODULE PingProofs -----------------------------
(***************************************************************************)
(* What ServerUp promises, for any number of calls, hosts and ports.       *)
(***************************************************************************)
EXTENDS Ping, TLAPS

\* Where each kind of datagram comes from and goes to.  The network has only
\* what the calls and the game servers sent.
HelloOK(d) ==
  d = Hello(d.from, d.to) /\ d.from \in LocalPort /\ d.to \in Host

\* An id that a game server gave to this port and, since, to no other.
GivenOut(h, port, id) ==
  /\ h \in Game /\ port \in LocalPort
  /\ id \in Int /\ ServerId < id /\ id <= lastId[h]
  /\ \A peer \in peers[h] : peer.id = id => peer.port = port

SetPeerOK(d) ==
  d = SetPeer(d.from, d.to, d.bytes.id) /\ GivenOut(d.from, d.to, d.bytes.id)

KeepAliveOK(d) ==
  d = KeptAlive(d.from, d.to) /\ d.from \in Game /\ d.to \in LocalPort

\* Another host may have any id given back.
DiscoOK(d) ==
  /\ d = Disco(d.from, d.to, d.bytes.sender) /\ d.to \in Host
  /\ d.to \in Game => GivenOut(d.to, d.from, d.bytes.sender)

DatagramOK(d) == HelloOK(d) \/ SetPeerOK(d) \/ KeepAliveOK(d) \/ DiscoOK(d)

NetworkOK == \A d \in network : DatagramOK(d)

\* A server counts its ids up and has a client for each at most.
PeersOK ==
  /\ lastId \in [Game -> Int] /\ DOMAIN peers = Game
  /\ \A h \in Game :
       /\ ServerId <= lastId[h]
       /\ \A peer \in peers[h] :
            /\ peer.port \in LocalPort /\ peer.id \in Int
            /\ ServerId < peer.id /\ peer.id <= lastId[h]
       /\ \A p, q \in peers[h] : p.id = q.id => p.port = q.port

\* What a call received came from its host to its port: over the network from a
\* game server, or from another host that sends such things.
Received(c) ==
  \/ inbox[c] \in network
  \/ /\ target[c] \in Host \ Game
     /\ \E bytes \in Sends[target[c]] : inbox[c] = Datagram(target[c], socket[c], bytes)

Answered(h) ==
  \/ h \in Game
  \/ h \in Host \ Game /\ \E bytes \in Sends[h] : LooksLikeSetPeer(bytes)

CallOK(c) ==
  /\ pc[c] \in {"write", "read"} => socket[c] \in LocalPort /\ target[c] \in Host
  /\ inbox[c] # None =>
       inbox[c].from = target[c] /\ inbox[c].to = socket[c] /\ Received(c)
  /\ pc[c] = "dial" => inbox[c] = None
  /\ pc[c] = "up" => Answered(target[c])

CallsOK ==
  /\ DOMAIN pc = Call /\ DOMAIN socket = Call
  /\ DOMAIN target = Call /\ DOMAIN inbox = Call
  /\ \A c \in Call : CallOK(c)

PingInv == NetworkOK /\ PeersOK /\ CallsOK

-----------------------------------------------------------------------------
LEMMA InitPing == Init => PingInv
BY DEF Init, PingInv, NetworkOK, PeersOK, CallsOK, CallOK, Answered, ServerId

\* The kinds can be told apart.
LEMMA TypeTells ==
  ASSUME NEW d, DatagramOK(d)
  PROVE  /\ d.bytes = HelloBytes => HelloOK(d)
         /\ IsAnswer(d) => SetPeerOK(d)
         /\ d.bytes.type = "disco" => DiscoOK(d)
<1>1. HelloOK(d) => d.bytes.type = "hello" /\ ~d.bytes.long
  BY DEF HelloOK, Hello, Datagram, HelloBytes, Bytes
<1>2. SetPeerOK(d) => d.bytes.type = "set peer id"
  <2>1. SetPeerOK(d) => \E from, to, id : d = SetPeer(from, to, id)
    BY DEF SetPeerOK
  <2>2. \A from, to, id : SetPeer(from, to, id).bytes.type = "set peer id"
    BY DEF SetPeer, Datagram, Bytes
  <2> QED BY <2>1, <2>2, Zenon
<1>3. KeepAliveOK(d) => d.bytes.type = "ping" /\ ~d.bytes.long
  BY DEF KeepAliveOK, KeptAlive, Datagram, PingBytes, Bytes
<1>4. DiscoOK(d) => d.bytes.type = "disco" /\ ~d.bytes.long
  <2>1. DiscoOK(d) => \E from, to, id : d = Disco(from, to, id)
    BY DEF DiscoOK
  <2>2. \A from, to, id : Disco(from, to, id).bytes.type = "disco"
                          /\ ~Disco(from, to, id).bytes.long
    BY DEF Disco, Datagram, Bytes
  <2> QED BY <2>1, <2>2, Zenon
<1>5. d.bytes = HelloBytes => d.bytes.type = "hello"
  BY DEF HelloBytes, Bytes
<1>6. IsAnswer(d) => d.bytes.long
  BY DEF IsAnswer
<1> QED BY <1>1, <1>2, <1>3, <1>4, <1>5, <1>6 DEF DatagramOK

\* One more good datagram does no harm to the others.
LEMMA Sent ==
  ASSUME NEW d, DatagramOK(d), NetworkOK, Send(d), UNCHANGED servers
  PROVE  NetworkOK'
<1>1. network' = network \cup {d}
  BY DEF Send
<1>2. \A x : DatagramOK(x) => DatagramOK(x)'
  BY DEF servers, DatagramOK, HelloOK, SetPeerOK, KeepAliveOK, DiscoOK, GivenOut
<1> QED BY <1>1, <1>2 DEF NetworkOK

LEMMA SameServers ==
  ASSUME UNCHANGED servers
  PROVE  /\ PeersOK => PeersOK'
         /\ NetworkOK /\ UNCHANGED network => NetworkOK'
BY DEF servers, PeersOK, NetworkOK, DatagramOK, HelloOK, SetPeerOK, KeepAliveOK,
       DiscoOK, GivenOut

\* A call's own steps, and what it is delivered.
LEMMA CallStep ==
  ASSUME PingInv, NEW c \in Call, ServerUp(c) \/ Deliver(c) \/ Intrude(c)
  PROVE  PingInv'
<1> USE DEF PingInv
<1>1. CASE Dial(c)
  <2>1. NetworkOK' /\ PeersOK'
    BY <1>1, SameServers DEF Dial, servers
  <2>2. CallsOK'
    <3>1. PICK h \in Host, port \in LocalPort :
            /\ socket' = [socket EXCEPT ![c] = port]
            /\ target' = [target EXCEPT ![c] = h]
      BY <1>1 DEF Dial
    <3>2. pc[c] = "dial" /\ pc' = [pc EXCEPT ![c] = "write"]
          /\ UNCHANGED <<inbox, network>>
      BY <1>1 DEF Dial
    <3> QED BY <3>1, <3>2 DEF CallsOK, CallOK, Received
  <2> QED BY <2>1, <2>2
<1>2. CASE DialFails(c) \/ WriteFails(c) \/ Timeout(c)
  <2>1. NetworkOK' /\ PeersOK'
    BY <1>2, SameServers DEF DialFails, WriteFails, Timeout, servers
  <2>2. CallsOK'
    BY <1>2 DEF DialFails, WriteFails, Timeout, Return, CallsOK, CallOK, Received
  <2> QED BY <2>1, <2>2
<1>3. CASE Write(c)
  <2>1. socket[c] \in LocalPort /\ target[c] \in Host
    BY <1>3 DEF Write, CallsOK, CallOK
  <2>2. DatagramOK(Hello(socket[c], target[c]))
    BY <2>1 DEF DatagramOK, HelloOK, Hello, Datagram
  <2>3. NetworkOK' /\ PeersOK'
    BY <1>3, <2>2, Sent, SameServers DEF Write, servers
  <2>4. CallsOK'
    BY <1>3 DEF Write, Send, CallsOK, CallOK, Received
  <2> QED BY <2>3, <2>4
<1>4. CASE Read(c)
  <2> DEFINE d == inbox[c]
  <2>1. CASE IsAnswer(d)
    <3>1. /\ d.from = target[c] /\ d.to = socket[c] /\ Received(c)
          /\ socket[c] \in LocalPort /\ target[c] \in Host
      BY <1>4 DEF Read, CallsOK, CallOK
    <3>2. Send(Goodbye(d)) /\ Return(c, "up") /\ UNCHANGED servers /\ UNCHANGED target
      BY <1>4, <2>1 DEF Read
    <3>3. d \in network => SetPeerOK(d)
      BY <2>1, TypeTells DEF NetworkOK
    <3>4. target[c] \in Game => GivenOut(target[c], socket[c], d.bytes.id)
      BY <3>1, <3>3 DEF Received, SetPeerOK
    <3>5. Answered(target[c])
      <4>1. CASE d \in network
        BY <3>1, <3>3, <4>1 DEF SetPeerOK, GivenOut, Answered
      <4>2. CASE d \notin network
        <5>1. PICK bytes \in Sends[target[c]] : d = Datagram(target[c], socket[c], bytes)
          BY <3>1, <4>2 DEF Received
        <5>2. LooksLikeSetPeer(bytes) /\ target[c] \in Host \ Game
          BY <2>1, <3>1, <4>2, <5>1 DEF IsAnswer, LooksLikeSetPeer, Datagram, Received
        <5> QED BY <5>2 DEF Answered
      <4> QED BY <4>1, <4>2
    <3>6. DatagramOK(Goodbye(d))
      <4>1. Goodbye(d) = Disco(socket[c], target[c], d.bytes.id)
        BY <3>1 DEF Goodbye
      <4> DEFINE g == Disco(socket[c], target[c], d.bytes.id)
      <4>2. g.from = socket[c] /\ g.to = target[c] /\ g.bytes.sender = d.bytes.id
        BY DEF Disco, Datagram, Bytes
      <4> QED BY <3>1, <3>4, <4>1, <4>2 DEF DatagramOK, DiscoOK
    <3>7. NetworkOK' /\ PeersOK'
      BY <3>2, <3>6, Sent, SameServers
    <3>8. CallsOK'
      BY <3>2, <3>5 DEF Return, Send, CallsOK, CallOK, Received, Answered
    <3> QED BY <3>7, <3>8
  <2>2. CASE ~IsAnswer(d)
    <3>1. Return(c, "down") /\ UNCHANGED <<network, servers, target>>
      BY <1>4, <2>2 DEF Read
    <3>2. NetworkOK' /\ PeersOK'
      BY <3>1, SameServers DEF servers
    <3>3. CallsOK'
      BY <3>1 DEF Return, CallsOK, CallOK, Received, Answered
    <3> QED BY <3>2, <3>3
  <2> QED BY <2>1, <2>2
<1>5. CASE Deliver(c)
  <2>1. NetworkOK' /\ PeersOK'
    BY <1>5, SameServers DEF Deliver, servers
  <2>2. CallsOK'
    BY <1>5 DEF Deliver, CallsOK, CallOK, Received, Answered
  <2> QED BY <2>1, <2>2
<1>6. CASE Intrude(c)
  <2>1. NetworkOK' /\ PeersOK'
    BY <1>6, SameServers DEF Intrude, servers
  <2>2. PICK bytes \in Sends[target[c]] :
          inbox' = [inbox EXCEPT ![c] = Datagram(target[c], socket[c], bytes)]
    BY <1>6 DEF Intrude
  <2>3. /\ pc[c] \in {"write", "read"} /\ target[c] \in Host \ Game
        /\ UNCHANGED <<pc, socket, target, network>>
    BY <1>6 DEF Intrude
  <2> PICK d : d = Datagram(target[c], socket[c], bytes)
    OBVIOUS
  <2>4. d.from = target[c] /\ d.to = socket[c]
    BY DEF Datagram
  <2>5. CallsOK'
    <3>1. ASSUME NEW x \in Call PROVE CallOK(x)'
      <4>1. CASE x = c
        <5>1. inbox'[c] = d
          BY <2>2 DEF CallsOK
        <5>2. Received(c)'
          BY <2>2, <2>3, <5>1 DEF Received
        <5> QED BY <2>3, <2>4, <4>1, <5>1, <5>2 DEF CallsOK, CallOK
      <4>2. CASE x # c
        <5>1. inbox'[x] = inbox[x]
          BY <2>2, <4>2 DEF CallsOK
        <5> QED BY <2>3, <5>1 DEF CallsOK, CallOK, Received
      <4> QED BY <4>1, <4>2
    <3> QED BY <2>2, <2>3, <3>1 DEF CallsOK
  <2> QED BY <2>1, <2>5
<1> QED BY <1>1, <1>2, <1>3, <1>4, <1>5, <1>6 DEF ServerUp

\* No step of a host touches a call.
LEMMA SameCalls ==
  ASSUME CallsOK, UNCHANGED locals, network \subseteq network'
  PROVE  CallsOK'
BY DEF locals, CallsOK, CallOK, Received, Answered

LEMMA KeepAliveStep ==
  ASSUME PingInv, NEW h \in Host, KeepAlive(h)
  PROVE  PingInv'
<1>1. PICK peer \in peers[h] : Send(KeptAlive(h, peer.port))
  BY DEF KeepAlive
<1>2. h \in Game /\ peer.port \in LocalPort
  BY DEF KeepAlive, PingInv, PeersOK
<1>3. DatagramOK(KeptAlive(h, peer.port))
  BY <1>2 DEF DatagramOK, KeepAliveOK, KeptAlive, Datagram
<1>4. NetworkOK' /\ PeersOK'
  BY <1>1, <1>3, Sent, SameServers DEF PingInv, KeepAlive
<1>5. CallsOK'
  BY <1>1, SameCalls DEF PingInv, KeepAlive, Send
<1> QED BY <1>4, <1>5 DEF PingInv

LEMMA ForgetStep ==
  ASSUME PingInv, NEW h \in Host, Forget(h)
  PROVE  PingInv'
<1>1. PICK peer \in peers[h] : peers' = [peers EXCEPT ![h] = @ \ {peer}]
  BY DEF Forget
<1>2. UNCHANGED <<locals, network, lastId>> /\ h \in Game
  BY DEF Forget
<1>3. \A x : DatagramOK(x) => DatagramOK(x)'
  BY <1>1, <1>2 DEF DatagramOK, HelloOK, SetPeerOK, KeepAliveOK, DiscoOK, GivenOut,
                    PingInv, PeersOK
<1>4. NetworkOK'
  BY <1>2, <1>3 DEF PingInv, NetworkOK
<1>5. PeersOK'
  BY <1>1, <1>2 DEF PingInv, PeersOK
<1>6. CallsOK'
  BY <1>2, SameCalls DEF PingInv
<1> QED BY <1>4, <1>5, <1>6 DEF PingInv

LEMMA GiveStep ==
  ASSUME PingInv, NEW h \in Host, GiveId(h)
  PROVE  PingInv'
<1>1. PICK d \in network :
        /\ d.to = h /\ d.bytes = HelloBytes
        /\ \/ \E peer \in peers[h] :
                /\ peer.port = d.from
                /\ Send(SetPeer(h, d.from, peer.id))
                /\ UNCHANGED servers
           \/ /\ lastId' = [lastId EXCEPT ![h] = @ + 1]
              /\ peers' = [peers EXCEPT ![h] =
                             @ \cup {[port |-> d.from, id |-> lastId[h] + 1]}]
              /\ Send(SetPeer(h, d.from, lastId[h] + 1))
  BY DEF GiveId
<1>2. h \in Game /\ UNCHANGED locals
  BY DEF GiveId
<1>3. d.from \in LocalPort
  <2>1. HelloOK(d)
    BY <1>1, TypeTells DEF PingInv, NetworkOK
  <2> QED BY <2>1 DEF HelloOK
<1>4. CallsOK'
  BY <1>1, <1>2, SameCalls DEF PingInv, Send
<1>5. CASE \E peer \in peers[h] : /\ peer.port = d.from
                                  /\ Send(SetPeer(h, d.from, peer.id))
                                  /\ UNCHANGED servers
  <2>1. PICK peer \in peers[h] : /\ peer.port = d.from
                                 /\ Send(SetPeer(h, d.from, peer.id))
                                 /\ UNCHANGED servers
    BY <1>5
  <2>2. GivenOut(h, d.from, peer.id)
    BY <1>2, <1>3, <2>1 DEF GivenOut, PingInv, PeersOK
  <2>3. DatagramOK(SetPeer(h, d.from, peer.id))
    BY <2>2 DEF DatagramOK, SetPeerOK, SetPeer, Datagram, Bytes
  <2> QED BY <1>4, <2>1, <2>3, Sent, SameServers DEF PingInv
<1>6. CASE /\ lastId' = [lastId EXCEPT ![h] = @ + 1]
           /\ peers' = [peers EXCEPT ![h] =
                          @ \cup {[port |-> d.from, id |-> lastId[h] + 1]}]
           /\ Send(SetPeer(h, d.from, lastId[h] + 1))
  <2>1. \A x \in Game : lastId[x] \in Int /\ ServerId <= lastId[x]
    BY DEF PingInv, PeersOK
  <2>2. PeersOK'
    BY <1>2, <1>3, <1>6, <2>1 DEF PingInv, PeersOK, ServerId
  <2>3. ASSUME NEW x, NEW port, NEW id, GivenOut(x, port, id)
        PROVE  GivenOut(x, port, id)'
    BY <1>2, <1>6, <2>1, <2>3 DEF GivenOut, PingInv, PeersOK
  <2>4. \A x : DatagramOK(x) => DatagramOK(x)'
    BY <2>3 DEF DatagramOK, HelloOK, SetPeerOK, KeepAliveOK, DiscoOK
  <2> PICK id : id = lastId[h] + 1
    OBVIOUS
  <2> PICK new : new = SetPeer(h, d.from, id)
    OBVIOUS
  <2>5. /\ h \in Game /\ d.from \in LocalPort
        /\ id \in Int /\ ServerId < id /\ id <= lastId'[h]
        /\ \A peer \in peers'[h] : peer.id = id => peer.port = d.from
    <3>1. lastId'[h] = id /\ ServerId < id /\ id \in Int
      BY <1>2, <1>6, <2>1 DEF PingInv, PeersOK, ServerId
    <3>2. peers'[h] = peers[h] \cup {[port |-> d.from, id |-> id]}
      BY <1>2, <1>6 DEF PingInv, PeersOK
    <3>3. \A peer \in peers[h] : peer.id # id
      BY <1>2, <2>1 DEF PingInv, PeersOK
    <3> QED BY <1>2, <1>3, <3>1, <3>2, <3>3
  <2>6. DatagramOK(new)'
    <3>1. new.from = h /\ new.to = d.from /\ new.bytes.id = id
      BY DEF SetPeer, Datagram, Bytes
    <3>2. SetPeerOK(new)'
      BY <2>5, <3>1 DEF SetPeerOK, GivenOut
    <3> QED BY <3>2 DEF DatagramOK
  <2>7. network' = network \cup {new}
    BY <1>6 DEF Send
  <2>8. NetworkOK'
    BY <2>4, <2>6, <2>7 DEF PingInv, NetworkOK
  <2> QED
    BY <1>4, <2>2, <2>8 DEF PingInv
<1> QED BY <1>1, <1>5, <1>6

LEMMA NextPing == PingInv /\ [Next]_vars => PingInv'
<1> SUFFICES ASSUME PingInv, [Next]_vars PROVE PingInv'
  OBVIOUS
<1>1. CASE \E c \in Call : ServerUp(c) \/ Deliver(c) \/ Intrude(c)
  BY <1>1, CallStep
<1>2. CASE \E h \in Host : GiveId(h) \/ KeepAlive(h) \/ Forget(h)
  BY <1>2, GiveStep, KeepAliveStep, ForgetStep
<1>3. CASE UNCHANGED vars
  <2>1. UNCHANGED servers /\ UNCHANGED network /\ UNCHANGED locals
    BY <1>3 DEF vars
  <2> QED BY <2>1, SameServers, SameCalls DEF PingInv
<1> QED BY <1>1, <1>2, <1>3 DEF Next

LEMMA AlwaysPing == Spec => []PingInv
BY InitPing, NextPing, PTL DEF Spec

-----------------------------------------------------------------------------
\* ServerUp says yes of game servers and of what sends a datagram that passes
\* for the answer of one, and of nothing else that may listen there.
THEOREM UpMeansGame == Spec => []OnlyGamesAreUp
<1>1. PingInv => OnlyGamesAreUp
  BY DEF PingInv, CallsOK, CallOK, Answered, OnlyGamesAreUp
<1> QED BY <1>1, AlwaysPing, PTL

\* The datagram that ServerUp ends with dismisses neither a game server itself
\* nor a client that it knows by another port, however many calls there are,
\* however often ports are used again and datagrams come late.
THEOREM GoodbyeIsItsOwn == Spec => []NobodyElseIsDismissed
<1>1. PingInv => NobodyElseIsDismissed
  <2> SUFFICES ASSUME PingInv PROVE NobodyElseIsDismissed
    OBVIOUS
  <2>1. \A d \in network : d.bytes.type = "disco" => DiscoOK(d)
    BY TypeTells DEF PingInv, NetworkOK
  <2> QED BY <2>1 DEF DiscoOK, GivenOut, NobodyElseIsDismissed, ServerId
<1> QED BY <1>1, AlwaysPing, PTL
=============================================================================
