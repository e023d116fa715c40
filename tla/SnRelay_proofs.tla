--------------------------- MODULE SnRelay_proofs ---------------------------
(***************************************************************************)
(* What SnRelay guarantees for every set of edges, communities and sockets *)
(* and every value of the two purge periods: its types, that no edge reads *)
(* its own frame back, and that the table, the purge and the relay         *)
(* implement Registry.                                                     *)
(***************************************************************************)
EXTENDS SnRelay, TLAPS

\* Each step that sends or takes a datagram of the network.
LEMMA TransmitNet ==
    ASSUME NEW taken, NEW sent, Transmit(taken, sent)
    PROVE  net' \subseteq net \cup sent
BY DEF Transmit

\* A purge keeps entries, and the purge clock shows a time.
LEMMA PurgeKeeps ==
    ASSUME NEW list, EndLoop(list), now \in Nat, lastPurge \in Nat
    PROVE  edges' \subseteq list /\ lastPurge' \in Nat /\ looped' = TRUE
BY DEF EndLoop, Purge

\* What a supernode sends on is a datagram, to sockets of its table.
LEMMA TargetsAreSocks ==
    ASSUME edges \subseteq PeerInfo, NEW dst, NEW comm, NEW src
    PROVE  TryForward(dst) \subseteq Socks /\ TryBroadcast(comm, src) \subseteq Socks
<1>1. ASSUME Known(dst) PROVE Find(dst) \in edges
  BY <1>1 DEF Known, Find
<1>2. QED
  BY <1>1 DEF TryForward, TryBroadcast, PeerInfo

---------------------------------------------------------------------------
(* Type correctness.                                                       *)

LEMMA TypeInit == Init => TypeOK
<1> SUFFICES ASSUME Init PROVE TypeOK
  OBVIOUS
<1>1. now \in Nat /\ lastPurge \in Nat /\ moves \in Nat
  BY RelayAssumption DEF Init
<1>2. host \in [Macs -> [comm: Comms, sock: Socks]]
  BY RelayAssumption DEF Init
<1>3. owners \in [Socks -> SUBSET Macs]
  BY DEF Init
<1>4. edges = {} /\ looped \in BOOLEAN /\ timely \in BOOLEAN /\ net = {} /\ routed = {} /\ tap = {}
  BY DEF Init
<1>5. QED
  BY <1>1, <1>2, <1>3, <1>4 DEF TypeOK

\* What an edge sends is a datagram, with another TTL and flags too.
LEMMA DatagramType ==
    ASSUME TypeOK
    PROVE  \A m \in Macs : \A dst \in Macs \cup Group \cup {"supernode"} :
           \A pc \in {"PACKET", "REGISTER", "REGISTER_ACK", "REGISTER_SUPER"} :
                Datagram(pc, m, dst) \in Datagrams
<1> SUFFICES ASSUME NEW m \in Macs, NEW dst \in Macs \cup Group \cup {"supernode"},
                    NEW pc \in {"PACKET", "REGISTER", "REGISTER_ACK", "REGISTER_SUPER"}
             PROVE  Datagram(pc, m, dst) \in Datagrams
  OBVIOUS
<1>1. host[m].comm \in Comms /\ host[m].sock \in Socks
  BY DEF TypeOK
<1>2. QED
  BY <1>1 DEF Datagram, Datagrams, Group

LEMMA DatagramExcept ==
    ASSUME NEW d \in Datagrams, NEW ttl \in 0..2, NEW fromSn \in BOOLEAN
    PROVE  [d EXCEPT !.ttl = ttl, !.fromSn = fromSn] \in Datagrams
BY DEF Datagrams

\* A step that only sends keeps the types.
LEMMA SendType ==
    ASSUME TypeOK, NEW d \in Datagrams, Send(d), moves' \in Nat
    PROVE  TypeOK'
BY TransmitNet DEF Send, TypeOK

LEMMA TypeStep == TypeOK /\ [Next]_vars => TypeOK'
<1> SUFFICES ASSUME TypeOK, [Next]_vars PROVE TypeOK'
  OBVIOUS
<1>1. ASSUME NEW d \in net, RelayPacket(d) PROVE TypeOK'
  <2> DEFINE to == IF IsMultiBroadcast(d.dst) THEN TryBroadcast(d.comm, d.src)
                                              ELSE TryForward(d.dst)
  <2>1. d \in Datagrams /\ to \subseteq Socks /\ d.ttl > 0
    BY <1>1, TargetsAreSocks DEF TypeOK, RelayPacket
  <2>2. {Relayed(d, s) : s \in to} \subseteq Datagrams
    <3>1. ASSUME NEW s \in to PROVE Relayed(d, s) \in Datagrams
      <4>1. CASE d.fromSn
        BY <2>1, <4>1 DEF Relayed, Datagrams
      <4>2. CASE ~d.fromSn
        <5>1. d.ttl - 1 \in 0..2 /\ d.from \in Socks /\ s \in Socks
          BY <2>1 DEF Datagrams
        <5>2. QED
          BY <2>1, <4>2, <5>1 DEF Relayed, Datagrams
      <4>3. QED
        BY <4>1, <4>2
    <3>2. QED
      BY <3>1
  <2>3. routed' \subseteq Frames \X Socks
    <3>1. Frame(d) \in Frames
      BY <2>1 DEF Frame, Frames, Datagrams
    <3>2. routed' = {<<Frame(d), s>> : s \in to}
      BY <1>1 DEF RelayPacket
    <3>3. QED
      BY <2>1, <3>1, <3>2
  <2>4. net' \subseteq Datagrams
    BY <1>1, <2>2, TransmitNet DEF RelayPacket, TypeOK
  <2>5. QED
    BY <1>1, <2>3, <2>4, PurgeKeeps DEF RelayPacket, TypeOK
<1>2. ASSUME NEW d \in net, RelayRegister(d) PROVE TypeOK'
  <2> DEFINE to == IF IsMultiBroadcast(d.dst) THEN {} ELSE TryForward(d.dst)
             out(s) == IF d.fromSn THEN [d EXCEPT !.ttl = @ - 1, !.sock = d.from, !.to = s]
                                   ELSE [d EXCEPT !.to = s]
  <2>1. d \in Datagrams /\ to \subseteq Socks /\ d.ttl > 0
    BY <1>2, TargetsAreSocks DEF TypeOK, RelayRegister
  <2>2. {out(s) : s \in to} \subseteq Datagrams
    <3>1. ASSUME NEW s \in to PROVE out(s) \in Datagrams
      <4>1. d.ttl - 1 \in 0..2 /\ d.from \in Socks /\ s \in Socks
        BY <2>1 DEF Datagrams
      <4>2. QED
        BY <2>1, <4>1 DEF Datagrams
    <3>2. QED
      BY <3>1
  <2>3. routed' \subseteq Frames \X Socks
    <3>1. Frame(d) \in Frames
      BY <2>1 DEF Frame, Frames, Datagrams
    <3>2. routed' = {<<Frame(d), s>> : s \in to}
      BY <1>2 DEF RelayRegister
    <3>3. QED
      BY <2>1, <3>1, <3>2
  <2>4. net' \subseteq Datagrams
    BY <1>2, <2>2, TransmitNet DEF RelayRegister, TypeOK
  <2>5. QED
    BY <1>2, <2>3, <2>4, PurgeKeeps DEF RelayRegister, TypeOK
<1>3. ASSUME NEW d \in net, RecvRegisterSuper(d) PROVE TypeOK'
  <2>1. d \in Datagrams
    BY DEF TypeOK
  <2>2. UpdateEdge(d.src, d.comm, d.from) \subseteq PeerInfo
    BY <2>1 DEF UpdateEdge, PeerInfo, Datagrams, TypeOK
  <2>3. <<Frame(d), d.from>> \in Frames \X Socks
    BY <2>1 DEF Frame, Frames, Datagrams
  <2>4. net' \subseteq Datagrams
    BY <1>3, TransmitNet DEF RecvRegisterSuper, TypeOK
  <2>5. QED
    BY <1>3, <2>2, <2>3, <2>4, PurgeKeeps DEF RecvRegisterSuper, TypeOK
<1>4. ASSUME NEW d \in net, DropAtSupernode(d) PROVE TypeOK'
  <2>1. net' \subseteq Datagrams
    BY <1>4, TransmitNet DEF DropAtSupernode, TypeOK
  <2>2. QED
    BY <1>4, <2>1, PurgeKeeps DEF DropAtSupernode, TypeOK
<1>5. CASE Idle
  BY <1>5, PurgeKeeps DEF Idle, TypeOK
<1>6. CASE Restart
  BY <1>6 DEF Restart, TypeOK
<1>7. ASSUME NEW m \in Macs, Register(m) PROVE TypeOK'
  <2>1. Datagram("REGISTER_SUPER", m, "supernode") \in Datagrams
    BY DatagramType
  <2>2. QED
    BY <1>7, <2>1, SendType DEF Register, TypeOK
<1>8. ASSUME NEW m \in Macs, NEW dst \in Macs \cup Group, NEW alien, ReadFromTAP(m, dst, alien)
      PROVE  TypeOK'
  <2>1. Datagram("PACKET", m, dst) \in Datagrams
    BY DatagramType
  <2>2. QED
    BY <1>8, <2>1, SendType DEF ReadFromTAP, TypeOK
<1>9. ASSUME NEW m \in Macs, NEW d \in net, RecvPacket(m, d) PROVE TypeOK'
  <2>1. d \in Datagrams /\ host[m].comm \in Comms
    BY DEF TypeOK
  <2>2. [at |-> m, frame |-> Frame(d)] \in [at: Macs, frame: Frames]
    BY <2>1 DEF Frame, Frames, Datagrams
  <2>3. net' \subseteq Datagrams
    BY <1>9, TransmitNet DEF RecvPacket, TypeOK
  <2>4. QED
    BY <1>9, <2>2, <2>3 DEF RecvPacket, TypeOK
<1>10. ASSUME NEW pc \in {"PACKET", "REGISTER", "REGISTER_ACK"}, NEW ttl \in 0..1,
              NEW fromSn \in BOOLEAN, NEW m \in Macs, NEW dst \in Macs \cup Group,
              Foreign(pc, ttl, fromSn, m, dst)
       PROVE  TypeOK'
  <2>1. [Datagram(pc, m, dst) EXCEPT !.ttl = ttl, !.fromSn = fromSn] \in Datagrams
    <3>1. Datagram(pc, m, dst) \in Datagrams
      BY DatagramType
    <3>2. ttl \in 0..2
      OBVIOUS
    <3>3. QED
      BY <3>1, <3>2, DatagramExcept
  <2>2. moves' \in Nat
    BY <1>10 DEF Foreign, TypeOK
  <2>3. QED
    BY <1>10, <2>1, <2>2, SendType DEF Foreign
<1>11. ASSUME NEW d \in net, Unheard(d) PROVE TypeOK'
  BY <1>11 DEF Unheard, TypeOK
<1>12. ASSUME NEW m \in Macs, NEW s \in Socks, Rebind(m, s) PROVE TypeOK'
  <2>1. host' \in [Macs -> [comm: Comms, sock: Socks]]
    <3>1. host' = [host EXCEPT ![m].sock = s] /\ host[m] \in [comm: Comms, sock: Socks]
      BY <1>12 DEF Rebind, TypeOK
    <3>2. [host[m] EXCEPT !.sock = s] \in [comm: Comms, sock: Socks]
      BY <3>1
    <3>3. QED
      BY <3>1, <3>2 DEF TypeOK
  <2>2. owners' \in [Socks -> SUBSET Macs] /\ moves' \in Nat
    BY <1>12 DEF Rebind, TypeOK
  <2>3. QED
    BY <1>12, <2>1, <2>2 DEF Rebind, TypeOK
<1>13. ASSUME NEW m \in Macs, NEW c \in Comms, Rejoin(m, c) PROVE TypeOK'
  <2>1. host' = [host EXCEPT ![m].comm = c] /\ host[m] \in [comm: Comms, sock: Socks]
    BY <1>13 DEF Rejoin, TypeOK
  <2>2. [host[m] EXCEPT !.comm = c] \in [comm: Comms, sock: Socks]
    BY <2>1
  <2>3. host' \in [Macs -> [comm: Comms, sock: Socks]]
    BY <2>1, <2>2 DEF TypeOK
  <2>4. QED
    BY <1>13, <2>3 DEF Rejoin, TypeOK
<1>14. CASE Tick
  <2>1. now' \in Nat
    <3>1. now \in Nat /\ now' = now + 1
      BY <1>14 DEF Tick, TypeOK
    <3>2. QED
      BY <3>1
  <2>2. looped' = FALSE /\ routed' = {} /\ tap' = {}
    BY <1>14 DEF Tick
  <2>3. UNCHANGED <<edges, lastPurge, host, net, timely, moves, owners>>
    BY <1>14 DEF Tick
  <2>4. QED
    BY <2>1, <2>2, <2>3 DEF TypeOK
<1>15. CASE UNCHANGED vars
  BY <1>15 DEF vars, TypeOK
<1>16. QED
  BY <1>1, <1>2, <1>3, <1>4, <1>5, <1>6, <1>7, <1>8, <1>9, <1>10, <1>11, <1>12, <1>13,
     <1>14, <1>15 DEF Next, Supernode, Edge, Environment

\* Every variable of SnRelay keeps its type.
THEOREM TypeCorrect == Spec => []TypeOK
<1>1. QED
  BY TypeInit, TypeStep, PTL DEF Spec

---------------------------------------------------------------------------
(* No edge reads its own frame back.                                       *)

\* A socket with two owners, now or before.
Shared(s) == \E m, k \in owners[s] : m # k

\* Who had a socket is remembered; so is the socket of every entry and of every
\* registration under way.  A frame sent on goes to a socket some edge other
\* than its sender had, and no frame is addressed to its sender.
OwnersInv ==
    /\ \A m \in Macs : m \in owners[host[m].sock]
    /\ \A p \in edges : p.mac \in owners[p.sock]
    /\ \A d \in net :
        /\ d.dst # d.src
        /\ d.to = SN => d.src \in owners[d.from]
        /\ d.to \in Socks => \E k \in owners[d.to] : k # d.src

\* The sockets a frame goes to are those of edges other than its sender.
LEMMA TargetsAreOthers ==
    ASSUME TypeOK, OwnersInv, NEW d \in net
    PROVE  /\ \A s \in TryForward(d.dst) : s \in Socks /\ \E k \in owners[s] : k # d.src
           /\ \A s \in TryBroadcast(d.comm, d.src) : s \in Socks /\ \E k \in owners[s] : k # d.src
<1>1. ASSUME NEW s \in TryForward(d.dst) PROVE s \in Socks /\ \E k \in owners[s] : k # d.src
  <2>1. Known(d.dst) /\ s = Find(d.dst).sock
    BY <1>1 DEF TryForward
  <2>2. Find(d.dst) \in edges /\ Find(d.dst).mac = d.dst
    BY <2>1 DEF Known, Find
  <2>3. d.dst \in owners[s] /\ d.dst # d.src
    BY <2>1, <2>2 DEF OwnersInv
  <2>4. QED
    BY <2>1, <2>2, <2>3 DEF TypeOK, PeerInfo
<1>2. ASSUME NEW s \in TryBroadcast(d.comm, d.src) PROVE s \in Socks /\ \E k \in owners[s] : k # d.src
  <2>1. PICK p \in edges : p.mac # d.src /\ s = p.sock
    BY <1>2 DEF TryBroadcast
  <2>2. p.mac \in owners[s]
    BY <2>1 DEF OwnersInv
  <2>3. QED
    BY <2>1, <2>2 DEF TypeOK, PeerInfo
<1>3. QED
  BY <1>1, <1>2

\* A step in which sockets and their owners stay keeps the invariant if what
\* it adds to the table and to the network satisfies it.
LEMMA OwnersKept ==
    ASSUME OwnersInv, UNCHANGED owners,
           \A m \in Macs : host'[m].sock = host[m].sock,
           \A p \in edges' \ edges : p.mac \in owners[p.sock],
           \A d \in net' \ net :
               /\ d.dst # d.src
               /\ d.to = SN => d.src \in owners[d.from]
               /\ d.to \in Socks => \E k \in owners[d.to] : k # d.src
    PROVE  OwnersInv'
BY DEF OwnersInv

\* What an edge sends to the supernode.
LEMMA OwnersSend ==
    ASSUME TypeOK, OwnersInv, NEW m \in Macs, NEW d,
           d.src = m, d.dst # m, d.to = SN, d.from = host[m].sock, Send(d)
    PROVE  OwnersInv'
<1>1. net' \subseteq net \cup {d} /\ UNCHANGED <<edges, host, owners>>
  BY TransmitNet DEF Send
<1>2. d.src \in owners[d.from] /\ d.to \notin Socks
  BY RelayAssumption DEF OwnersInv
<1>3. QED
  BY <1>1, <1>2, OwnersKept

LEMMA OwnersStep == TypeOK /\ OwnersInv /\ [Next]_vars => OwnersInv'
<1> SUFFICES ASSUME TypeOK, OwnersInv, [Next]_vars PROVE OwnersInv'
  OBVIOUS
<1>0. now \in Nat /\ lastPurge \in Nat
  BY DEF TypeOK
<1>1. ASSUME NEW d \in net, RelayPacket(d) PROVE OwnersInv'
  <2> DEFINE to == IF IsMultiBroadcast(d.dst) THEN TryBroadcast(d.comm, d.src)
                                              ELSE TryForward(d.dst)
  <2>1. net' \subseteq net \cup {Relayed(d, s) : s \in to}
    BY <1>1, TransmitNet DEF RelayPacket
  <2>2. edges' \subseteq edges /\ UNCHANGED <<host, owners>>
    BY <1>0, <1>1, PurgeKeeps DEF RelayPacket
  <2>3. \A s \in to : s \in Socks /\ \E k \in owners[s] : k # d.src
    BY TargetsAreOthers
  <2>4. ASSUME NEW s \in to
        PROVE  LET r == Relayed(d, s) IN r.dst = d.dst /\ r.src = d.src /\ r.to = s
    BY DEF Relayed, TypeOK, Datagrams
  <2>5. d.dst # d.src
    BY DEF OwnersInv
  <2>6. QED
    BY <2>1, <2>2, <2>3, <2>4, <2>5, OwnersKept, RelayAssumption
<1>2. ASSUME NEW d \in net, RelayRegister(d) PROVE OwnersInv'
  <2> DEFINE to == IF IsMultiBroadcast(d.dst) THEN {} ELSE TryForward(d.dst)
             out(s) == IF d.fromSn THEN [d EXCEPT !.ttl = @ - 1, !.sock = d.from, !.to = s]
                                   ELSE [d EXCEPT !.to = s]
  <2>1. net' \subseteq net \cup {out(s) : s \in to}
    BY <1>2, TransmitNet DEF RelayRegister
  <2>2. edges' \subseteq edges /\ UNCHANGED <<host, owners>>
    BY <1>0, <1>2, PurgeKeeps DEF RelayRegister
  <2>3. \A s \in to : s \in Socks /\ \E k \in owners[s] : k # d.src
    BY TargetsAreOthers
  <2>4. ASSUME NEW s \in to
        PROVE  out(s).dst = d.dst /\ out(s).src = d.src /\ out(s).to = s
    BY DEF TypeOK, Datagrams
  <2>5. d.dst # d.src
    BY DEF OwnersInv
  <2> HIDE DEF out, to
  <2>6. QED
    BY <2>1, <2>2, <2>3, <2>4, <2>5, OwnersKept, RelayAssumption
<1>3. ASSUME NEW d \in net, RecvRegisterSuper(d) PROVE OwnersInv'
  <2>1. net' \subseteq net /\ UNCHANGED <<host, owners>>
    BY <1>3, TransmitNet DEF RecvRegisterSuper
  <2>2. edges' \subseteq UpdateEdge(d.src, d.comm, d.from)
    BY <1>0, <1>3, PurgeKeeps DEF RecvRegisterSuper
  <2>3. d.src \in owners[d.from]
    BY <1>3 DEF RecvRegisterSuper, AtSupernode, OwnersInv
  <2>4. QED
    BY <2>1, <2>2, <2>3, OwnersKept DEF UpdateEdge
<1>4. ASSUME NEW d \in net, DropAtSupernode(d) PROVE OwnersInv'
  <2>1. net' \subseteq net /\ UNCHANGED <<host, owners>>
    BY <1>4, TransmitNet DEF DropAtSupernode
  <2>2. edges' \subseteq edges
    BY <1>0, <1>4, PurgeKeeps DEF DropAtSupernode
  <2>3. QED
    BY <2>1, <2>2, OwnersKept
<1>5. CASE Idle
  BY <1>0, <1>5, PurgeKeeps, OwnersKept DEF Idle
<1>6. CASE Restart
  BY <1>6, OwnersKept DEF Restart
<1>7. ASSUME NEW m \in Macs, Register(m) PROVE OwnersInv'
  <2> DEFINE d == Datagram("REGISTER_SUPER", m, "supernode")
  <2>1. d.src = m /\ d.dst # m /\ d.to = SN /\ d.from = host[m].sock
    BY RelayAssumption DEF Datagram
  <2>2. QED
    BY <1>7, <2>1, OwnersSend DEF Register
<1>8. ASSUME NEW m \in Macs, NEW dst, NEW alien, ReadFromTAP(m, dst, alien) PROVE OwnersInv'
  <2> DEFINE d == Datagram("PACKET", m, dst)
  <2>1. d.src = m /\ d.dst # m /\ d.to = SN /\ d.from = host[m].sock
    BY <1>8 DEF Datagram, ReadFromTAP
  <2>2. QED
    BY <1>8, <2>1, OwnersSend DEF ReadFromTAP
<1>9. ASSUME NEW m \in Macs, NEW d \in net, RecvPacket(m, d) PROVE OwnersInv'
  BY <1>9, TransmitNet, OwnersKept DEF RecvPacket
<1>10. ASSUME NEW pc, NEW ttl, NEW fromSn, NEW m \in Macs, NEW dst, Foreign(pc, ttl, fromSn, m, dst)
       PROVE  OwnersInv'
  <2> DEFINE d == [Datagram(pc, m, dst) EXCEPT !.ttl = ttl, !.fromSn = fromSn]
  <2>1. d.src = m /\ d.dst # m /\ d.to = SN /\ d.from = host[m].sock
    BY <1>10 DEF Datagram, Foreign
  <2>2. QED
    BY <1>10, <2>1, OwnersSend DEF Foreign
<1>11. ASSUME NEW d \in net, Unheard(d) PROVE OwnersInv'
  BY <1>11, OwnersKept DEF Unheard
<1>12. ASSUME NEW m \in Macs, NEW s \in Socks, Rebind(m, s) PROVE OwnersInv'
  <2>1. /\ \A k \in Macs : host'[k].sock = IF k = m THEN s ELSE host[k].sock
        /\ \A t \in Socks : owners[t] \subseteq owners'[t]
        /\ m \in owners'[s]
        /\ UNCHANGED <<edges, net>>
    BY <1>12 DEF Rebind, TypeOK
  <2>2. /\ \A k \in Macs : host[k].sock \in Socks
        /\ \A p \in edges : p.sock \in Socks
        /\ \A d \in net : d.from \in Socks
    BY DEF TypeOK, PeerInfo, Datagrams
  <2>3. QED
    BY <2>1, <2>2 DEF OwnersInv
<1>13. ASSUME NEW m \in Macs, NEW c \in Comms, Rejoin(m, c) PROVE OwnersInv'
  <2>1. \A k \in Macs : host'[k].sock = host[k].sock
    BY <1>13 DEF Rejoin, TypeOK
  <2>2. QED
    BY <1>13, <2>1, OwnersKept DEF Rejoin
<1>14. CASE Tick
  BY <1>14, OwnersKept DEF Tick
<1>15. CASE UNCHANGED vars
  BY <1>15, OwnersKept DEF vars
<1>16. QED
  BY <1>1, <1>2, <1>3, <1>4, <1>5, <1>6, <1>7, <1>8, <1>9, <1>10, <1>11, <1>12, <1>13,
     <1>14, <1>15 DEF Next, Supernode, Edge, Environment

\* An edge that gets its own frame has a socket the relay knows of another edge.
LEMMA ReflectedStep == TypeOK /\ OwnersInv /\ NotReflected /\ [Next]_vars => NotReflected'
<1> SUFFICES ASSUME TypeOK, OwnersInv, NotReflected, [Next]_vars PROVE NotReflected'
  OBVIOUS
<1>1. ASSUME NEW m \in Macs, NEW d \in net, RecvPacket(m, d) PROVE NotReflected'
  <2>1. ASSUME NEW t \in tap', t.frame.src = t.at PROVE Shared(d.to) /\ d.to \in Socks
    <3>1. t.at = m /\ t.frame = Frame(d)
      BY <1>1 DEF RecvPacket
    <3>2. d.src = m
      BY <2>1, <3>1 DEF Frame
    <3>3. d.to = host[m].sock /\ d.to \in Socks
      BY <1>1 DEF RecvPacket, TypeOK
    <3>4. m \in owners[d.to] /\ \E k \in owners[d.to] : k # m
      BY <3>2, <3>3 DEF OwnersInv
    <3>5. QED
      BY <3>3, <3>4 DEF Shared
  <2>2. UNCHANGED owners
    BY <1>1 DEF RecvPacket
  <2>3. QED
    BY <2>1, <2>2 DEF NotReflected, Shared
<1>2. CASE tap' = {}
  BY <1>2 DEF NotReflected
<1>3. CASE UNCHANGED vars
  BY <1>3 DEF vars, NotReflected
<1>4. QED
  BY <1>1, <1>2, <1>3 DEF Next, Supernode, Edge, Environment, RelayPacket, RelayRegister,
     RecvRegisterSuper, DropAtSupernode, Idle, Restart, Register, ReadFromTAP, Foreign, Send,
     Unheard, Rebind, Rejoin, Tick

\* For any number of edges and sockets, an edge whose socket no other edge ever
\* had does not read its own frames back.
THEOREM NeverReflected == Spec => []NotReflected
<1>1. Init => OwnersInv /\ NotReflected
  <2> SUFFICES ASSUME Init PROVE OwnersInv /\ NotReflected
    OBVIOUS
  <2>1. \A m \in Macs : m \in owners[host[m].sock]
    BY RelayAssumption DEF Init
  <2>2. QED
    BY <2>1 DEF Init, OwnersInv, NotReflected
<1>2. QED
  BY <1>1, TypeInit, TypeStep, OwnersStep, ReflectedStep, PTL DEF Spec

---------------------------------------------------------------------------
(* The table, its purge and the relay implement Registry.                  *)

\* The list l instead of edges: who is in it, at which place, silent how long.
KnownIn(l, m) == \E p \in l : p.mac = m
EntryIn(l, m) == CHOOSE p \in l : p.mac = m
Unique(l) == \A p, q \in l : p.mac = q.mac => p = q

PlaceIn(l, m) ==
    IF KnownIn(l, m) THEN [comm |-> EntryIn(l, m).comm, sock |-> EntryIn(l, m).sock]
                     ELSE [comm |-> "none", sock |-> "none"]
SilenceIn(l, t, m) == IF KnownIn(l, m) THEN t - EntryIn(l, m).seen ELSE 0

PlacesOf(l) == [m \in Macs |-> PlaceIn(l, m)]
SilencesOf(l, t) == [m \in Macs |-> SilenceIn(l, t, m)]

\* One entry per MAC, none older than the last purge allows; the purge clock is
\* read in every iteration; and only a REGISTER_SUPER is for the supernode.
RelayInv ==
    /\ Unique(edges)
    /\ \A p \in edges : p.seen <= now /\ p.seen >= lastPurge - Timeout
    /\ lastPurge <= now
    /\ looped => edges = {} \/ now - lastPurge < Period
    /\ \A d \in net : IF d.pc = "REGISTER_SUPER" THEN d.dst = "supernode"
                                                  ELSE d.dst \in Macs \cup Group

\* In a list with one entry per MAC, that entry is the one found.
LEMMA EntryFound ==
    ASSUME NEW l, Unique(l), NEW p \in l
    PROVE  KnownIn(l, p.mac) /\ EntryIn(l, p.mac) = p
<1>1. KnownIn(l, p.mac)
  BY DEF KnownIn
<1>2. EntryIn(l, p.mac) \in l /\ EntryIn(l, p.mac).mac = p.mac
  BY DEF EntryIn
<1>3. QED
  BY <1>1, <1>2 DEF Unique

LEMMA EntryKnown ==
    ASSUME NEW l, NEW m, KnownIn(l, m)
    PROVE  EntryIn(l, m) \in l /\ EntryIn(l, m).mac = m
BY DEF KnownIn, EntryIn

\* What EndLoop does to the table and the purge clock.
LEMMA EndLoopCases ==
    ASSUME TypeOK, NEW l, EndLoop(l)
    PROVE  \/ now - lastPurge < Period /\ edges' = l /\ lastPurge' = lastPurge
           \/ edges' = {p \in l : p.seen >= now - Timeout} /\ lastPurge' = now
BY DEF EndLoop, Purge

\* A purge is what Registry calls forgetting: only edges that were silent for
\* longer than Timeout lose their place.
LEMMA PurgeForgets ==
    ASSUME TypeOK, NEW l \in SUBSET PeerInfo, Unique(l), EndLoop(l), now' = now
    PROVE  Promise!Forget(PlacesOf(l), SilencesOf(l, now))
<1> DEFINE gone == {m \in Macs : KnownIn(l, m) /\ ~KnownIn(edges', m)}
<1>0. edges' \subseteq l /\ Unique(edges') /\ now \in Nat /\ Timeout \in Nat
  BY EndLoopCases, RelayAssumption DEF Unique, TypeOK
<1>1. ASSUME NEW m \in gone
      PROVE  PlacesOf(l)[m] # Promise!Nowhere /\ SilencesOf(l, now)[m] > Timeout
  <2> DEFINE p == EntryIn(l, m)
  <2>1. p \in l /\ p.mac = m /\ p \notin edges'
    BY EntryKnown DEF KnownIn
  <2>2. p.comm \in Comms /\ p.seen \in Nat
    BY <2>1 DEF PeerInfo
  <2>3. ~(p.seen >= now - Timeout)
    BY <2>1, EndLoopCases
  <2>4. PlacesOf(l)[m].comm = p.comm /\ SilencesOf(l, now)[m] = now - p.seen
    BY DEF PlacesOf, PlaceIn, SilencesOf, SilenceIn
  <2>5. PlacesOf(l)[m] # Promise!Nowhere
    BY <2>2, <2>4, RelayAssumption DEF Promise!Nowhere
  <2>6. now - p.seen > Timeout
    BY <1>0, <2>2, <2>3
  <2>7. QED
    BY <2>4, <2>5, <2>6
<1>2. ASSUME NEW m \in gone
      PROVE  PlaceIn(edges', m) = Promise!Nowhere /\ SilenceIn(edges', now, m) = 0
  BY DEF PlaceIn, SilenceIn, Promise!Nowhere
<1>3. ASSUME NEW m \in Macs \ gone
      PROVE  PlaceIn(edges', m) = PlaceIn(l, m) /\ SilenceIn(edges', now, m) = SilenceIn(l, now, m)
  <2>1. CASE KnownIn(l, m)
    <3>1. KnownIn(edges', m)
      BY <2>1
    <3>2. EntryIn(edges', m) \in l /\ EntryIn(edges', m).mac = m
      BY <1>0, <3>1, EntryKnown
    <3>3. EntryIn(edges', m) = EntryIn(l, m)
      BY <3>2, EntryFound
    <3>4. QED
      BY <2>1, <3>1, <3>3 DEF PlaceIn, SilenceIn
  <2>2. CASE ~KnownIn(l, m)
    <3>1. ~KnownIn(edges', m)
      BY <1>0, <2>2 DEF KnownIn
    <3>2. QED
      BY <2>2, <3>1 DEF PlaceIn, SilenceIn
  <2>3. QED
    BY <2>1, <2>2
<1> HIDE DEF gone
<1>4. gone \subseteq Macs
  BY DEF gone
<1>5. PlacesOf(edges') = [m \in Macs |-> IF m \in gone THEN Promise!Nowhere ELSE PlacesOf(l)[m]]
  BY <1>2, <1>3, <1>4 DEF PlacesOf
<1>6. SilencesOf(edges', now) = [m \in Macs |-> IF m \in gone THEN 0 ELSE SilencesOf(l, now)[m]]
  BY <1>2, <1>3, <1>4 DEF SilencesOf
<1>7. [m \in Macs |-> Place(m)]' = PlacesOf(edges')
  BY DEF PlacesOf, PlaceIn, KnownIn, EntryIn, Place, Known, Find
<1>8. [m \in Macs |-> IF Known(m) THEN now - Find(m).seen ELSE 0]' = SilencesOf(edges', now)
  BY DEF SilencesOf, SilenceIn, KnownIn, EntryIn, Known, Find
<1>9. gone \in SUBSET {m \in Macs : PlacesOf(l)[m] # Promise!Nowhere /\ SilencesOf(l, now)[m] > Timeout}
  BY <1>1, <1>4
<1>10. QED
  BY <1>5, <1>6, <1>7, <1>8, <1>9 DEF Promise!Forget

\* The places and silences of Registry are those of the table.
LEMMA Refined ==
    /\ [m \in Macs |-> Place(m)] = PlacesOf(edges)
    /\ [m \in Macs |-> IF Known(m) THEN now - Find(m).seen ELSE 0] = SilencesOf(edges, now)
BY DEF PlacesOf, PlaceIn, SilencesOf, SilenceIn, KnownIn, EntryIn, Place, Known, Find

\* A step of the supernode that leaves the table to the purge.
LEMMA TableForgets ==
    ASSUME TypeOK, RelayInv, EndLoop(edges), now' = now
    PROVE  Promise!Forget(PlacesOf(edges), SilencesOf(edges, now))
<1>1. edges \in SUBSET PeerInfo /\ Unique(edges)
  BY DEF TypeOK, RelayInv
<1>2. QED
  BY <1>1, PurgeForgets

\* One that does not look at the table at all: nobody is forgotten.
LEMMA NothingForgotten ==
    ASSUME UNCHANGED <<edges, now>>
    PROVE  Promise!Forget(PlacesOf(edges), SilencesOf(edges, now))
<1>1. [m \in Macs |-> Place(m)]' = [m \in Macs |-> IF m \in {} THEN Promise!Nowhere ELSE PlacesOf(edges)[m]]
  BY DEF PlacesOf, PlaceIn, KnownIn, EntryIn, Place, Known, Find
<1>2. [m \in Macs |-> IF Known(m) THEN now - Find(m).seen ELSE 0]'
          = [m \in Macs |-> IF m \in {} THEN 0 ELSE SilencesOf(edges, now)[m]]
  BY DEF SilencesOf, SilenceIn, KnownIn, EntryIn, Known, Find
<1>3. {} \in SUBSET {m \in Macs : PlacesOf(edges)[m] # Promise!Nowhere /\ SilencesOf(edges, now)[m] > Timeout}
  OBVIOUS
<1>4. QED
  BY <1>1, <1>2, <1>3 DEF Promise!Forget

LEMMA ForgetIsIdle ==
    ASSUME Promise!Forget(PlacesOf(edges), SilencesOf(edges, now)), routed' = {}
    PROVE  Promise!Idle
BY Refined DEF Promise!Idle

\* The relay sends a frame to the places Registry gives it.
LEMMA RecipientsAre ==
    ASSUME TypeOK, RelayInv, NEW d \in net, d.pc # "REGISTER_SUPER"
    PROVE  Promise!Recipients(Frame(d)) = IF IsMultiBroadcast(d.dst) THEN TryBroadcast(d.comm, d.src)
                                                                     ELSE TryForward(d.dst)
<1> DEFINE place == PlacesOf(edges)
<1>1. d \in Datagrams /\ d.dst \in Macs \cup Group
  BY DEF TypeOK, RelayInv
<1>2. Frame(d).comm = d.comm /\ Frame(d).src = d.src /\ Frame(d).dst = d.dst
  BY DEF Frame
<1>3. Unique(edges) /\ edges \subseteq PeerInfo
  BY DEF RelayInv, TypeOK
<1>4. ASSUME NEW p \in edges
      PROVE  p.mac \in Macs /\ place[p.mac] = [comm |-> p.comm, sock |-> p.sock]
  BY <1>3, EntryFound DEF PlacesOf, PlaceIn, PeerInfo
<1>5. ASSUME NEW m \in Macs, ~KnownIn(edges, m)
      PROVE  place[m] = Promise!Nowhere
  BY <1>5 DEF PlacesOf, PlaceIn, Promise!Nowhere
<1>6. ASSUME NEW m \in Macs, KnownIn(edges, m)
      PROVE  \E p \in edges : p.mac = m /\ place[m] = [comm |-> p.comm, sock |-> p.sock]
                              /\ place[m] # Promise!Nowhere
  <2>1. PICK p \in edges : p.mac = m
    BY <1>6 DEF KnownIn
  <2>2. p.comm # "none"
    BY <1>3, <2>1, RelayAssumption DEF PeerInfo
  <2>3. QED
    BY <1>4, <2>1, <2>2 DEF Promise!Nowhere
<1>7. CASE d.dst \in Macs
  <2>1. ~IsMultiBroadcast(d.dst)
    BY <1>7, RelayAssumption DEF IsMultiBroadcast, Group
  <2>2. Promise!Recipients(Frame(d)) = {place[m].sock : m \in {k \in Macs : k = d.dst /\ place[k] # Promise!Nowhere}}
    BY <1>2, <1>7, Refined DEF Promise!Recipients, Promise!Registered
  <2>3. TryForward(d.dst) = {EntryIn(edges, m).sock : m \in {k \in {d.dst} : KnownIn(edges, k)}}
    BY DEF TryForward, Known, KnownIn, Find, EntryIn
  <2>4. CASE KnownIn(edges, d.dst)
    <3>1. EntryIn(edges, d.dst).sock = place[d.dst].sock /\ place[d.dst] # Promise!Nowhere
      BY <1>6, <1>7, <2>4 DEF PlacesOf, PlaceIn
    <3>2. Promise!Recipients(Frame(d)) = {place[d.dst].sock}
      BY <1>7, <2>2, <3>1
    <3>3. TryForward(d.dst) = {EntryIn(edges, d.dst).sock}
      BY <2>3, <2>4
    <3>4. QED
      BY <2>1, <3>1, <3>2, <3>3
  <2>5. CASE ~KnownIn(edges, d.dst)
    <3>1. Promise!Recipients(Frame(d)) = {}
      BY <1>5, <2>2, <2>5
    <3>2. TryForward(d.dst) = {}
      BY <2>3, <2>5
    <3>3. QED
      BY <2>1, <3>1, <3>2
  <2>6. QED
    BY <2>4, <2>5
<1>8. CASE d.dst \notin Macs
  <2>1. IsMultiBroadcast(d.dst)
    BY <1>1, <1>8 DEF IsMultiBroadcast
  <2>2. Promise!Recipients(Frame(d)) = {place[m].sock : m \in {k \in Macs \ {d.src} : place[k].comm = d.comm}}
    BY <1>2, <1>8, Refined DEF Promise!Recipients
  <2>3. d.comm # "none"
    BY <1>1, RelayAssumption DEF Datagrams
  <2>4. ASSUME NEW p \in edges, p.comm = d.comm, p.mac # d.src
        PROVE  \E m \in Macs \ {d.src} : place[m].comm = d.comm /\ place[m].sock = p.sock
    <3> HIDE DEF place
    <3>1. p.mac \in Macs \ {d.src} /\ place[p.mac] = [comm |-> p.comm, sock |-> p.sock]
      BY <1>4, <2>4
    <3>2. place[p.mac].comm = d.comm /\ place[p.mac].sock = p.sock
      BY <2>4, <3>1
    <3>3. QED
      BY <3>1, <3>2
  <2>5. ASSUME NEW m \in Macs \ {d.src}, place[m].comm = d.comm
        PROVE  \E p \in edges : p.comm = d.comm /\ p.mac # d.src /\ p.sock = place[m].sock
    <3>1. KnownIn(edges, m)
      BY <1>5, <2>3, <2>5 DEF Promise!Nowhere
    <3> HIDE DEF place
    <3>2. PICK p \in edges : p.mac = m /\ place[m] = [comm |-> p.comm, sock |-> p.sock]
      BY <1>6, <3>1
    <3>3. place[m].comm = p.comm /\ place[m].sock = p.sock
      BY <3>2
    <3>4. QED
      BY <2>5, <3>2, <3>3
  <2>6. TryBroadcast(d.comm, d.src) = {p.sock : p \in {q \in edges : q.comm = d.comm /\ q.mac # d.src}}
    BY DEF TryBroadcast
  <2> HIDE DEF place
  <2>7. Promise!Recipients(Frame(d)) = TryBroadcast(d.comm, d.src)
    BY <2>2, <2>4, <2>5, <2>6
  <2>8. QED
    BY <2>1, <2>7
<1>9. QED
  BY <1>7, <1>8

\* A registration moves one edge to one place, and ends its silence.
LEMMA UpdateIsRegister ==
    ASSUME TypeOK, RelayInv, NEW m \in Macs, NEW c \in Comms, NEW s \in Socks
    PROVE  LET l == UpdateEdge(m, c, s)
           IN  /\ l \subseteq PeerInfo /\ Unique(l)
               /\ PlacesOf(l) = [PlacesOf(edges) EXCEPT ![m] = [comm |-> c, sock |-> s]]
               /\ SilencesOf(l, now) = [SilencesOf(edges, now) EXCEPT ![m] = 0]
<1> DEFINE l == UpdateEdge(m, c, s)
           new == [mac |-> m, comm |-> c, sock |-> s, seen |-> now]
<1>1. l = {p \in edges : p.mac # m} \cup {new}
  <2>1. CASE Known(m)
    <3>1. Find(m) \in edges /\ Find(m).mac = m
      BY <2>1 DEF Known, Find
    <3>2. edges \ {Find(m)} = {p \in edges : p.mac # m}
      BY <3>1 DEF RelayInv, Unique
    <3>3. QED
      BY <2>1, <3>2 DEF UpdateEdge
  <2>2. CASE ~Known(m)
    BY <2>2 DEF UpdateEdge, Known
  <2>3. QED
    BY <2>1, <2>2
<1>2. new \in PeerInfo /\ new.mac = m /\ new.comm = c /\ new.sock = s /\ new.seen = now /\ now \in Nat
  BY DEF PeerInfo, TypeOK
<1> HIDE DEF new, l
<1>3. l \subseteq PeerInfo
  BY <1>1, <1>2 DEF TypeOK
<1>4. Unique(l)
  BY <1>1, <1>2 DEF RelayInv, Unique
<1>5. PlaceIn(l, m) = [comm |-> c, sock |-> s] /\ SilenceIn(l, now, m) = 0
  <2>1. KnownIn(l, m) /\ EntryIn(l, m) = new
    BY <1>1, <1>2, <1>4, EntryFound
  <2>2. QED
    BY <1>2, <2>1 DEF PlaceIn, SilenceIn
<1>6. ASSUME NEW k \in Macs \ {m}
      PROVE  PlaceIn(l, k) = PlaceIn(edges, k) /\ SilenceIn(l, now, k) = SilenceIn(edges, now, k)
  <2>1. CASE KnownIn(edges, k)
    <3>1. EntryIn(edges, k) \in edges /\ EntryIn(edges, k).mac = k
      BY <2>1, EntryKnown
    <3>2. EntryIn(edges, k) \in l
      BY <1>1, <3>1
    <3>3. KnownIn(l, k) /\ EntryIn(l, k) = EntryIn(edges, k)
      BY <1>4, <3>1, <3>2, EntryFound
    <3>4. QED
      BY <2>1, <3>3 DEF PlaceIn, SilenceIn
  <2>2. CASE ~KnownIn(edges, k)
    <3>1. ~KnownIn(l, k)
      BY <1>1, <1>2, <2>2 DEF KnownIn
    <3>2. QED
      BY <2>2, <3>1 DEF PlaceIn, SilenceIn
  <2>3. QED
    BY <2>1, <2>2
<1>7. PlacesOf(l) = [PlacesOf(edges) EXCEPT ![m] = [comm |-> c, sock |-> s]]
  BY <1>5, <1>6 DEF PlacesOf
<1>8. SilencesOf(l, now) = [SilencesOf(edges, now) EXCEPT ![m] = 0]
  BY <1>5, <1>6 DEF SilencesOf
<1>9. QED
  BY <1>3, <1>4, <1>7, <1>8 DEF l

\* How the end of an iteration leaves the invariant.
LEMMA EndLoopInv ==
    ASSUME TypeOK, RelayInv, NEW l, l \subseteq edges \/ \A p \in l \ edges : p.seen = now,
           l \subseteq PeerInfo, Unique(l), EndLoop(l), now' = now,
           \A d \in net' : IF d.pc = "REGISTER_SUPER" THEN d.dst = "supernode"
                                                       ELSE d.dst \in Macs \cup Group
    PROVE  RelayInv'
<1>1. now \in Nat /\ lastPurge \in Nat /\ Timeout \in Nat /\ Period \in Nat \ {0}
  BY RelayAssumption DEF TypeOK
<1>2. ASSUME NEW p \in l PROVE p.seen \in Nat /\ p.seen <= now /\ p.seen >= lastPurge - Timeout
  <2>1. p.seen \in Nat
    BY DEF PeerInfo
  <2>2. CASE p \in edges
    BY <2>1, <2>2 DEF RelayInv
  <2>3. CASE p \notin edges
    <3>1. p.seen = now /\ lastPurge <= now
      BY <2>3 DEF RelayInv
    <3>2. QED
      BY <1>1, <3>1
  <2>4. QED
    BY <2>2, <2>3
<1>3. looped' = TRUE
  BY DEF EndLoop
<1>4. CASE now - lastPurge < Period /\ edges' = l /\ lastPurge' = lastPurge
  BY <1>2, <1>3, <1>4 DEF RelayInv
<1>5. CASE edges' = {p \in l : p.seen >= now - Timeout} /\ lastPurge' = now
  <2>1. Unique(edges') /\ \A p \in edges' : p.seen <= now /\ p.seen >= now - Timeout
    BY <1>2, <1>5 DEF Unique
  <2>2. now <= now /\ now - now < Period
    BY <1>1
  <2>3. QED
    BY <1>3, <1>5, <2>1, <2>2 DEF RelayInv
<1>6. QED
  BY <1>4, <1>5, EndLoopCases

\* One that leaves the table alone.
LEMMA SameTableInv ==
    ASSUME RelayInv, UNCHANGED <<edges, lastPurge, looped, now>>,
           \A d \in net' : IF d.pc = "REGISTER_SUPER" THEN d.dst = "supernode"
                                                       ELSE d.dst \in Macs \cup Group
    PROVE  RelayInv'
BY DEF RelayInv, Unique

\* Every step of SnRelay keeps the invariant and is a step of Registry, or
\* changes nothing Registry speaks of.
LEMMA RelayStep ==
    TypeOK /\ RelayInv /\ [Next]_vars => RelayInv' /\ [Promise!Next]_(Promise!vars)
<1> USE DEF Promise!Next
<1> SUFFICES ASSUME TypeOK, RelayInv, [Next]_vars
             PROVE  RelayInv' /\ [Promise!Next]_(Promise!vars)
  OBVIOUS
<1>0. Unique(edges) /\ edges \subseteq PeerInfo
  BY DEF RelayInv, TypeOK
<1>1. ASSUME NEW d \in net, RelayPacket(d) PROVE RelayInv' /\ Promise!Next
  <2> DEFINE to == IF IsMultiBroadcast(d.dst) THEN TryBroadcast(d.comm, d.src)
                                              ELSE TryForward(d.dst)
  <2>1. d \in Datagrams /\ d.pc = "PACKET" /\ EndLoop(edges) /\ now' = now
        /\ routed' = {<<Frame(d), s>> : s \in to}
        /\ net' \subseteq net \cup {Relayed(d, s) : s \in to}
    BY <1>1, TransmitNet DEF RelayPacket, TypeOK
  <2>2. \A s \in to : Relayed(d, s).pc = d.pc /\ Relayed(d, s).dst = d.dst
    BY <2>1 DEF Relayed, Datagrams
  <2>3. d.dst \in Macs \cup Group
    BY <2>1 DEF RelayInv
  <2>4. \A x \in net' : IF x.pc = "REGISTER_SUPER" THEN x.dst = "supernode"
                                                    ELSE x.dst \in Macs \cup Group
    BY <2>1, <2>2, <2>3 DEF RelayInv
  <2>5. RelayInv'
    BY <1>0, <2>1, <2>4, EndLoopInv
  <2>6. Promise!Route(Frame(d))
    <3>1. to = Promise!Recipients(Frame(d))
      BY <2>1, RecipientsAre
    <3>2. Promise!Forget(PlacesOf(edges), SilencesOf(edges, now))
      BY <2>1, TableForgets
    <3> HIDE DEF to
    <3>3. QED
      BY <2>1, <3>1, <3>2, Refined DEF Promise!Route
  <2>7. d.comm \in Comms /\ d.src \in Macs /\ d.dst \in Macs \cup {"broadcast", "multicast"}
    BY <2>1, <2>3 DEF Datagrams, Group
  <2>8. QED
    BY <2>5, <2>6, <2>7 DEF Frame
<1>2. ASSUME NEW d \in net, RelayRegister(d) PROVE RelayInv' /\ Promise!Next
  <2> DEFINE to == IF IsMultiBroadcast(d.dst) THEN {} ELSE TryForward(d.dst)
             out(s) == IF d.fromSn THEN [d EXCEPT !.ttl = @ - 1, !.sock = d.from, !.to = s]
                                   ELSE [d EXCEPT !.to = s]
  <2>1. d \in Datagrams /\ d.pc = "REGISTER" /\ EndLoop(edges) /\ now' = now
        /\ routed' = {<<Frame(d), s>> : s \in to}
        /\ net' \subseteq net \cup {out(s) : s \in to}
    BY <1>2, TransmitNet DEF RelayRegister, TypeOK
  <2>2. \A s \in to : out(s).pc = d.pc /\ out(s).dst = d.dst
    BY <2>1 DEF Datagrams
  <2>3. d.dst \in Macs \cup Group
    BY <2>1 DEF RelayInv
  <2> HIDE DEF out
  <2>4. \A x \in net' : IF x.pc = "REGISTER_SUPER" THEN x.dst = "supernode"
                                                    ELSE x.dst \in Macs \cup Group
    BY <2>1, <2>2, <2>3 DEF RelayInv
  <2>5. RelayInv'
    BY <1>0, <2>1, <2>4, EndLoopInv
  <2>6. Promise!Forget(PlacesOf(edges), SilencesOf(edges, now))
    BY <2>1, TableForgets
  <2>7. CASE IsMultiBroadcast(d.dst)
    <3>1. routed' = {}
      BY <2>1, <2>7
    <3>2. QED
      BY <2>5, <2>6, <3>1, ForgetIsIdle
  <2>8. CASE ~IsMultiBroadcast(d.dst)
    <3>1. to = Promise!Recipients(Frame(d))
      BY <2>1, <2>8, RecipientsAre
    <3> HIDE DEF to
    <3>2. Promise!Route(Frame(d))
      BY <2>1, <2>6, <3>1, Refined DEF Promise!Route
    <3>3. d.comm \in Comms /\ d.src \in Macs /\ d.dst \in Macs \cup {"broadcast", "multicast"}
      BY <2>1, <2>3 DEF Datagrams, Group
    <3>4. QED
      BY <2>5, <3>2, <3>3 DEF Frame
  <2>9. QED
    BY <2>7, <2>8
<1>3. ASSUME NEW d \in net, RecvRegisterSuper(d) PROVE RelayInv' /\ Promise!Next
  <2> DEFINE l == UpdateEdge(d.src, d.comm, d.from)
             place == [comm |-> d.comm, sock |-> d.from]
  <2>1. d \in Datagrams /\ d.pc = "REGISTER_SUPER" /\ EndLoop(l) /\ now' = now
        /\ routed' = {<<Frame(d), d.from>>} /\ net' \subseteq net
    BY <1>3, TransmitNet DEF RecvRegisterSuper, TypeOK
  <2>2. d.src \in Macs /\ d.comm \in Comms /\ d.from \in Socks /\ d.dst = "supernode"
    BY <2>1 DEF Datagrams, RelayInv
  <2>3. /\ l \subseteq PeerInfo /\ Unique(l)
        /\ PlacesOf(l) = [PlacesOf(edges) EXCEPT ![d.src] = place]
        /\ SilencesOf(l, now) = [SilencesOf(edges, now) EXCEPT ![d.src] = 0]
    BY <2>2, UpdateIsRegister
  <2>4. \A p \in l \ edges : p.seen = now
    BY DEF UpdateEdge
  <2>5. \A x \in net' : IF x.pc = "REGISTER_SUPER" THEN x.dst = "supernode"
                                                    ELSE x.dst \in Macs \cup Group
    BY <2>1 DEF RelayInv
  <2> HIDE DEF l
  <2>6. RelayInv'
    BY <2>1, <2>3, <2>4, <2>5, EndLoopInv
  <2>7. Promise!Forget(PlacesOf(l), SilencesOf(l, now))
    BY <2>1, <2>3, PurgeForgets
  <2>8. routed' = {<<[comm |-> place.comm, src |-> d.src, dst |-> "supernode"], place.sock>>}
    BY <2>1, <2>2 DEF Frame
  <2>9. Promise!Register(d.src, place)
    BY <2>3, <2>7, <2>8, Refined DEF Promise!Register
  <2>10. place \in Promise!Places
    BY <2>2 DEF Promise!Places
  <2>11. QED
    BY <2>2, <2>6, <2>9, <2>10
<1>4. ASSUME NEW d \in net, DropAtSupernode(d) PROVE RelayInv' /\ Promise!Next
  <2>1. EndLoop(edges) /\ now' = now /\ routed' = {} /\ net' \subseteq net
    BY <1>4, TransmitNet DEF DropAtSupernode
  <2>2. RelayInv'
    BY <1>0, <2>1, EndLoopInv DEF RelayInv
  <2>3. QED
    BY <2>1, <2>2, TableForgets, ForgetIsIdle
<1>5. ASSUME Idle PROVE RelayInv' /\ Promise!Next
  <2>1. EndLoop(edges) /\ now' = now /\ routed' = {} /\ net' = net
    BY <1>5 DEF Idle
  <2>2. RelayInv'
    BY <1>0, <2>1, EndLoopInv DEF RelayInv
  <2>3. QED
    BY <2>1, <2>2, TableForgets, ForgetIsIdle
<1>6. ASSUME Restart PROVE RelayInv' /\ Promise!Next
  <2>1. edges' = {} /\ lastPurge' = 0 /\ looped' = TRUE /\ routed' = {} /\ UNCHANGED <<net, now>>
    BY <1>6 DEF Restart
  <2>2. RelayInv'
    BY <2>1 DEF RelayInv, Unique, TypeOK
  <2>3. [m \in Macs |-> Place(m)]' = [m \in Macs |-> Promise!Nowhere]
    BY <2>1 DEF Place, Known, Promise!Nowhere
  <2>4. [m \in Macs |-> IF Known(m) THEN now - Find(m).seen ELSE 0]' = [m \in Macs |-> 0]
    BY <2>1 DEF Known
  <2>5. Promise!Restart
    BY <2>1, <2>3, <2>4 DEF Promise!Restart
  <2>6. QED
    BY <2>2, <2>5
<1>7. ASSUME NEW d, Send(d), UNCHANGED now,
             IF d.pc = "REGISTER_SUPER" THEN d.dst = "supernode" ELSE d.dst \in Macs \cup Group
      PROVE  RelayInv' /\ Promise!Next
  <2>1. UNCHANGED <<edges, lastPurge, looped, now>> /\ routed' = {} /\ net' \subseteq net \cup {d}
    BY <1>7, TransmitNet DEF Send
  <2>2. RelayInv'
    BY <1>7, <2>1, SameTableInv DEF RelayInv
  <2>3. QED
    BY <2>1, <2>2, NothingForgotten, ForgetIsIdle
<1>8. ASSUME NEW m \in Macs, Edge(m), ~\E d \in net : RecvPacket(m, d) PROVE RelayInv' /\ Promise!Next
  <2>1. CASE Register(m)
    BY <1>7, <2>1 DEF Register, Datagram, Send
  <2>2. ASSUME NEW dst \in Macs \cup Group, NEW alien, ReadFromTAP(m, dst, alien)
        PROVE  RelayInv' /\ Promise!Next
    BY <1>7, <2>2 DEF ReadFromTAP, Datagram, Send
  <2>3. QED
    BY <1>8, <2>1, <2>2 DEF Edge
<1>9. ASSUME NEW pc \in {"PACKET", "REGISTER", "REGISTER_ACK"}, NEW ttl, NEW fromSn, NEW m \in Macs,
             NEW dst \in Macs \cup Group, Foreign(pc, ttl, fromSn, m, dst)
      PROVE  RelayInv' /\ Promise!Next
  <2> DEFINE d == [Datagram(pc, m, dst) EXCEPT !.ttl = ttl, !.fromSn = fromSn]
  <2>1. d.pc = pc /\ d.dst = dst
    BY DEF Datagram
  <2>2. Send(d) /\ UNCHANGED now
    BY <1>9 DEF Foreign, Send
  <2> HIDE DEF d
  <2>3. QED
    BY <1>7, <2>1, <2>2
<1>10. ASSUME UNCHANGED <<edges, lastPurge, looped, now>>, routed' = {}, net' \subseteq net
       PROVE  RelayInv' /\ Promise!Next
  <2>1. RelayInv'
    BY <1>10, SameTableInv DEF RelayInv
  <2>2. QED
    BY <1>10, <2>1, NothingForgotten, ForgetIsIdle
<1>11. ASSUME NEW m \in Macs, NEW d \in net, RecvPacket(m, d) PROVE RelayInv' /\ Promise!Next
  <2>1. Transmit({d}, {}) /\ UNCHANGED <<edges, lastPurge, looped, now>> /\ routed' = {}
    BY <1>11 DEF RecvPacket
  <2>2. net' \subseteq net
    BY <2>1, TransmitNet
  <2>3. QED
    BY <1>10, <2>1, <2>2
<1>12. ASSUME Environment, ~\E pc \in {"PACKET", "REGISTER", "REGISTER_ACK"}, ttl \in 0..1, fromSn \in BOOLEAN,
                 m \in Macs, dst \in Macs \cup Group : Foreign(pc, ttl, fromSn, m, dst)
       PROVE  RelayInv' /\ Promise!Next
  BY <1>10, <1>12 DEF Environment, Unheard, Rebind, Rejoin
<1>13. ASSUME Tick PROVE RelayInv' /\ Promise!Next
  <2>1. UNCHANGED <<edges, lastPurge, net>> /\ now' = now + 1 /\ looped' = FALSE /\ looped /\ routed' = {}
    BY <1>13 DEF Tick
  <2>2. now \in Nat /\ lastPurge \in Nat /\ Timeout \in Nat /\ Period \in Nat \ {0}
    BY RelayAssumption DEF TypeOK
  <2>3. ASSUME NEW p \in edges PROVE p.seen \in Nat /\ p.seen <= now /\ now - p.seen < Timeout + Period
    <3>1. p.seen \in Nat
      BY DEF TypeOK, PeerInfo
    <3>2. now - lastPurge < Period /\ p.seen >= lastPurge - Timeout /\ p.seen <= now
      BY <2>1 DEF RelayInv
    <3>3. QED
      BY <2>2, <3>1, <3>2
  <2>4. RelayInv'
    <3>1. Unique(edges')
      BY <2>1 DEF RelayInv
    <3>2. \A p \in edges' : p.seen <= now' /\ p.seen >= lastPurge' - Timeout
      BY <2>1, <2>2, <2>3 DEF RelayInv
    <3>3. lastPurge' <= now'
      BY <2>1, <2>2 DEF RelayInv
    <3>4. QED
      BY <2>1, <3>1, <3>2, <3>3 DEF RelayInv
  <2>5. ASSUME NEW m \in Macs, KnownIn(edges, m)
        PROVE  SilencesOf(edges, now)[m] < Timeout + Period
               /\ SilenceIn(edges, now + 1, m) = SilencesOf(edges, now)[m] + 1
               /\ PlacesOf(edges)[m] # Promise!Nowhere
    <3>1. EntryIn(edges, m) \in edges
      BY <2>5, EntryKnown
    <3>2. SilencesOf(edges, now)[m] = now - EntryIn(edges, m).seen
          /\ SilenceIn(edges, now + 1, m) = (now + 1) - EntryIn(edges, m).seen
          /\ PlacesOf(edges)[m].comm = EntryIn(edges, m).comm
      BY <2>5 DEF SilencesOf, SilenceIn, PlacesOf, PlaceIn
    <3>3. EntryIn(edges, m).comm # "none"
      BY <1>0, <3>1, RelayAssumption DEF PeerInfo
    <3>4. QED
      BY <2>2, <2>3, <3>1, <3>2, <3>3 DEF Promise!Nowhere
  <2>6. ASSUME NEW m \in Macs, ~KnownIn(edges, m)
        PROVE  PlacesOf(edges)[m] = Promise!Nowhere /\ SilenceIn(edges, now + 1, m) = 0
    BY <2>6 DEF PlacesOf, PlaceIn, SilenceIn, Promise!Nowhere
  <2>7. \A m \in Macs : PlacesOf(edges)[m] # Promise!Nowhere => SilencesOf(edges, now)[m] < Timeout + Period
    BY <2>5, <2>6
  <2>8. [m \in Macs |-> IF Known(m) THEN now - Find(m).seen ELSE 0]' = SilencesOf(edges, now + 1)
    BY <2>1 DEF SilencesOf, SilenceIn, KnownIn, EntryIn, Known, Find
  <2>9. SilencesOf(edges, now + 1)
            = [m \in Macs |-> IF PlacesOf(edges)[m] # Promise!Nowhere THEN SilencesOf(edges, now)[m] + 1 ELSE 0]
    <3>1. \A m \in Macs : SilenceIn(edges, now + 1, m)
              = IF PlacesOf(edges)[m] # Promise!Nowhere THEN SilencesOf(edges, now)[m] + 1 ELSE 0
      BY <2>5, <2>6
    <3>2. SilencesOf(edges, now + 1) = [m \in Macs |-> SilenceIn(edges, now + 1, m)]
      BY DEF SilencesOf
    <3>3. QED
      BY <3>1, <3>2
  <2>10. [m \in Macs |-> Place(m)]' = [m \in Macs |-> Place(m)]
    BY <2>1 DEF Place, Known, Find
  <2>11. Promise!Tick
    BY <2>1, <2>7, <2>8, <2>9, <2>10, Refined DEF Promise!Tick, Promise!Registered
  <2>12. QED
    BY <2>4, <2>11
<1>14. ASSUME UNCHANGED vars PROVE RelayInv' /\ UNCHANGED Promise!vars
  <2>1. RelayInv'
    BY <1>14, SameTableInv DEF vars, RelayInv
  <2>2. UNCHANGED Promise!vars
    BY <1>14 DEF vars, Promise!vars, Place, Known, Find
  <2>3. QED
    BY <2>1, <2>2
<1> HIDE DEF Promise!Next
<1>15. CASE Supernode
  BY <1>1, <1>2, <1>3, <1>4, <1>15 DEF Supernode
<1>16. CASE \E m \in Macs : Edge(m)
  BY <1>8, <1>11, <1>16
<1>17. CASE Environment
  BY <1>9, <1>12, <1>17
<1>18. QED
  BY <1>5, <1>6, <1>13, <1>14, <1>15, <1>16, <1>17 DEF Next

\* For any number of edges, communities and sockets and any two purge periods,
\* the supernode keeps what Registry promises.
THEOREM KeepsPromise == Spec => ImplementsRegistry
<1>1. Init => RelayInv /\ Promise!Init
  <2> SUFFICES ASSUME Init PROVE RelayInv /\ Promise!Init
    OBVIOUS
  <2>1. RelayInv
    BY RelayAssumption DEF Init, RelayInv, Unique
  <2>2. [m \in Macs |-> Place(m)] = [m \in Macs |-> Promise!Nowhere]
    BY DEF Init, Place, Known, Promise!Nowhere
  <2>3. [m \in Macs |-> IF Known(m) THEN now - Find(m).seen ELSE 0] = [m \in Macs |-> 0]
    BY DEF Init, Known
  <2>4. QED
    BY <2>1, <2>2, <2>3 DEF Init, Promise!Init
<1>2. QED
  BY <1>1, TypeInit, TypeStep, RelayStep, PTL DEF Spec, ImplementsRegistry, Promise!Spec

=============================================================================
