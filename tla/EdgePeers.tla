----------------------------- MODULE EdgePeers -----------------------------
(***************************************************************************)
(* Peer-to-peer registration between the edges of one community.           *)
(*                                                                         *)
(* Every edge keeps two tables of peers: pending_peers, to whom a REGISTER *)
(* was sent, and known_peers, whose REGISTER_ACK came back and to whom     *)
(* frames go directly.  Everybody else is reached through the supernode,   *)
(* which stamps the public socket it saw on what it relays.  One action is *)
(* one iteration of the edge's run_loop: the handler of the input select() *)
(* reported, then the two purge calls at the end of the loop.              *)
(*                                                                         *)
(* The network is UDP: a datagram may be lost when it is sent, delivered   *)
(* late, out of order or twice.  A NAT may give an edge a new public       *)
(* socket at any time, and not every pair of sockets can talk directly.    *)
(***************************************************************************)
EXTENDS Integers, FiniteSets

CONSTANTS
    Edges,       \* the edges, each named by the MAC of its TAP device
    Socks,       \* public UDP sockets a NAT can give to an edge
    CanReach,    \* pairs <<s, t>> such that a datagram from s gets to t
    SN,          \* the supernode's socket
    Bcast,       \* a broadcast or multicast MAC
    NoMac,       \* the all-zero MAC of a field nobody filled
    NoSock,      \* a sock field with family 0: not present on the wire
    PurgeFreq,   \* PURGE_REGISTRATION_FREQUENCY, in select() timeouts
    RegTimeout,  \* REGISTRATION_TIMEOUT, in select() timeouts
    MaxTime,     \* bound: the clock stops here
    MaxMsgs,     \* bound: datagrams in flight; a further one is lost
    MaxMoves,    \* bound: new public sockets and restarts
    Lossy        \* whether a datagram may be lost or duplicated

ASSUME TimesAssumption ==
    /\ PurgeFreq \in Nat \ {0}
    /\ RegTimeout \in Nat

ASSUME AddressAssumption ==
    /\ CanReach \subseteq Socks \X Socks
    /\ SN \notin Socks
    /\ NoSock \notin Socks
    /\ Bcast \notin Edges
    /\ NoMac \notin Edges

VARIABLES
    sock,        \* sock[e]: the public socket e's NAT uses now
    pending,     \* pending[e]: eee->pending_peers
    known,       \* known[e]: eee->known_peers
    lastPurge,   \* lastPurge[e]: the static last_purge of e's process
    looped,      \* looped[e]: run_loop went round since the last Tick
    registry,    \* registry[e]: socket the supernode has for e
    net,         \* datagrams in flight
    now,         \* time(NULL)
    moves,       \* Rebind and Restart steps so far
    acked        \* history: <<mac, from, to>> of every REGISTER_ACK sent

tables == <<pending, known, lastPurge, looped>>
vars == <<sock, pending, known, lastPurge, looped, registry, net, now, moves, acked>>

Peer == [mac: Edges, sock: Socks, seen: Nat]

\* A datagram sent by an edge, and a frame the supernode relayed.
Direct ==
    [type: {"PACKET", "REGISTER", "REGISTER_ACK"},
     src: Edges, dst: Edges \cup {Bcast, NoMac},
     from: Socks, to: Socks \cup {SN}, sup: {FALSE}, sock: {NoSock}]

Relayed ==
    [type: {"PACKET"}, src: Edges, dst: Edges \cup {Bcast, NoMac},
     from: {SN}, to: Socks, sup: {TRUE}, sock: Socks]

TypeOK ==
    /\ sock \in [Edges -> Socks]
    /\ pending \in [Edges -> SUBSET Peer]
    /\ known \in [Edges -> SUBSET Peer]
    /\ lastPurge \in [Edges -> Nat]
    /\ looped \in [Edges -> BOOLEAN]
    /\ registry \in [Edges -> Socks \cup {NoSock}]
    /\ net \subseteq Direct \cup Relayed
    /\ now \in Nat
    /\ moves \in Nat
    /\ acked \subseteq Edges \X Socks \X Socks

---------------------------------------------------------------------------
(* Lists of peers, kept as sets: the order of a list is never observable.  *)

\* find_peer_by_mac
Has(tab, mac) == \E p \in tab : p.mac = mac

Without(tab, mac) == {p \in tab : p.mac # mac}

PeerInfo(mac, s) == [mac |-> mac, sock |-> s, seen |-> now]

\* purge_expired_registrations on one list; last_purge is a static variable
\* of the function, hence an argument and a result.
PurgeExpired(tab, last) ==
    IF now - last < PurgeFreq
    THEN [tab |-> tab, last |-> last]
    ELSE [tab |-> {p \in tab : p.seen >= now - RegTimeout}, last |-> now]

---------------------------------------------------------------------------
(* The network.                                                            *)

Datagram(type, src, dst, from, to) ==
    [type |-> type, src |-> src, dst |-> dst, from |-> from, to |-> to,
     sup |-> FALSE, sock |-> NoSock]

\* What is left of the network after the datagram in `taken` was read and
\* those in `sent` were handed to sendto().
Transmit(taken, sent) ==
    \E kept \in (IF Lossy THEN {net, net \ taken} ELSE {net \ taken}),
       out \in (IF Lossy THEN SUBSET sent ELSE {sent}) :
        /\ Cardinality(kept \cup out) <= MaxMsgs
        /\ net' = kept \cup out

Arrives(e, m) ==
    /\ m \in net
    /\ m.to = sock[e]
    /\ m.from = SN \/ <<m.from, m.to>> \in CanReach

---------------------------------------------------------------------------
(* One iteration of run_loop on edge e.                                    *)

\* Variants: definitions named ...Variant are not part of the specification;
\* each is a plausible mistake in the definition that follows it.
EndLoopVariant(e, k, p) ==
    LET first  == PurgeExpired(p, lastPurge[e])
        second == PurgeExpired(k, first.last)
    IN  /\ known' = [known EXCEPT ![e] = second.tab]
        /\ pending' = [pending EXCEPT ![e] = first.tab]
        /\ lastPurge' = [lastPurge EXCEPT ![e] = second.last]
        /\ looped' = [looped EXCEPT ![e] = TRUE]

\* The end of every iteration: purge known_peers, then pending_peers, when
\* the handler left them as k and p.
EndLoop(e, k, p) ==
    LET first  == PurgeExpired(k, lastPurge[e])
        second == PurgeExpired(p, first.last)
    IN  /\ known' = [known EXCEPT ![e] = first.tab]
        /\ pending' = [pending EXCEPT ![e] = second.tab]
        /\ lastPurge' = [lastPurge EXCEPT ![e] = second.last]
        /\ looped' = [looped EXCEPT ![e] = TRUE]

\* What a handler makes of the two tables, and the datagrams it sends.
Outcome(k, p, out) == [known |-> k, pending |-> p, out |-> out]

\* try_send_register: a peer that is pending already gets nothing; a new one
\* is recorded and sent a REGISTER, whose dstMac send_register leaves zero.
TrySendRegister(e, k, mac, s) ==
    IF Has(pending[e], mac)
    THEN Outcome(k, pending[e], {})
    ELSE Outcome(k, pending[e] \cup {PeerInfo(mac, s)},
                 {Datagram("REGISTER", e, NoMac, sock[e], s)})

\* from_supernode is not looked at
UpdatePeerAddressVariant1(e, sup, mac, s) ==
    IF \E p \in known[e] : p.mac = mac /\ p.sock = s
    THEN Outcome(Without(known[e], mac) \cup {PeerInfo(mac, s)}, pending[e], {})
    ELSE TrySendRegister(e, Without(known[e], mac), mac, s)

\* the new socket is taken over at once
UpdatePeerAddressVariant2(e, sup, mac, s) ==
    IF sup THEN Outcome(known[e], pending[e], {})
    ELSE Outcome(Without(known[e], mac) \cup {PeerInfo(mac, s)}, pending[e], {})

\* update_peer_address for a peer in known_peers
UpdatePeerAddress(e, sup, mac, s) ==
    IF \E p \in known[e] : p.mac = mac /\ p.sock = s
    THEN Outcome(Without(known[e], mac) \cup {PeerInfo(mac, s)}, pending[e], {})
    ELSE IF sup THEN Outcome(known[e], pending[e], {})
                ELSE TrySendRegister(e, Without(known[e], mac), mac, s)

CheckPeer(e, sup, mac, s) ==
    IF Has(known[e], mac) THEN UpdatePeerAddress(e, sup, mac, s)
                          ELSE TrySendRegister(e, known[e], mac, s)

\* the field is used though it is absent
OrigSenderVariant(m) == m.sock

\* The sock field a supernode added, or else the socket of the last hop.
OrigSender(m) == IF m.sock # NoSock THEN m.sock ELSE m.from

\* readFromIPSocket, handle_PACKET: a frame, unicast or broadcast, is a sign
\* of life of its sender.
RecvPacket(e, m) ==
    /\ Arrives(e, m)
    /\ m.type = "PACKET"
    /\ LET c == CheckPeer(e, m.sup, m.src, OrigSender(m))
       IN  EndLoop(e, c.known, c.pending) /\ Transmit({m}, c.out)
    /\ UNCHANGED <<sock, registry, now, moves, acked>>

\* only a REGISTER that names this edge is acknowledged
RecvRegisterVariant(e, m) ==
    /\ Arrives(e, m)
    /\ m.type = "REGISTER"
    /\ EndLoop(e, known[e], pending[e])
    /\ LET ack == Datagram("REGISTER_ACK", e, m.src, sock[e], OrigSender(m))
       IN  IF m.dst = e THEN /\ Transmit({m}, {ack})
                             /\ acked' = acked \cup {<<e, ack.from, ack.to>>}
                        ELSE Transmit({m}, {}) /\ UNCHANGED acked
    /\ UNCHANGED <<sock, registry, now, moves>>

\* readFromIPSocket, REGISTER: the sender is looked at only when the REGISTER
\* names this edge, and is acknowledged in any case.
RecvRegister(e, m) ==
    /\ Arrives(e, m)
    /\ m.type = "REGISTER"
    /\ LET orig == OrigSender(m)
           c == IF m.dst = e THEN CheckPeer(e, m.sup, m.src, orig)
                             ELSE Outcome(known[e], pending[e], {})
           ack == Datagram("REGISTER_ACK", e, m.src, sock[e], orig)
       IN  /\ EndLoop(e, c.known, c.pending)
           /\ Transmit({m}, c.out \cup {ack})
           /\ acked' = acked \cup {<<e, ack.from, ack.to>>}
    /\ UNCHANGED <<sock, registry, now, moves>>

\* the entry stays in pending_peers
SetPeerOperationalVariant1(e, m) ==
    IF Has(pending[e], m.src)
    THEN Outcome(known[e] \cup {PeerInfo(m.src, m.from)}, pending[e], {})
    ELSE Outcome(known[e], pending[e], {})

\* the entry keeps the socket the REGISTER was sent to
SetPeerOperationalVariant2(e, m) ==
    Outcome(known[e] \cup {PeerInfo(p.mac, p.sock) : p \in {q \in pending[e] : q.mac = m.src}},
            Without(pending[e], m.src), {})

\* set_peer_operational: a pending peer becomes known at the socket its
\* REGISTER_ACK came from; the acknowledgement of anybody else is ignored.
SetPeerOperational(e, m) ==
    IF Has(pending[e], m.src)
    THEN Outcome(known[e] \cup {PeerInfo(m.src, m.from)},
                 Without(pending[e], m.src), {})
    ELSE Outcome(known[e], pending[e], {})

\* readFromIPSocket, REGISTER_ACK
RecvRegisterAck(e, m) ==
    /\ Arrives(e, m)
    /\ m.type = "REGISTER_ACK"
    /\ LET c == SetPeerOperational(e, m)
       IN  EndLoop(e, c.known, c.pending) /\ Transmit({m}, c.out)
    /\ UNCHANGED <<sock, registry, now, moves, acked>>

\* find_peer_destination: the socket of a known peer, else the supernode.
Destination(e, mac) ==
    IF Has(known[e], mac) THEN {p.sock : p \in {q \in known[e] : q.mac = mac}}
                          ELSE {SN}

\* readFromTAPSocket, send_packet2net, send_PACKET
ReadFromTAP(e, mac) ==
    /\ mac # e
    /\ \E to \in Destination(e, mac) :
        Transmit({}, {Datagram("PACKET", e, mac, sock[e], to)})
    /\ EndLoop(e, known[e], pending[e])
    /\ UNCHANGED <<sock, registry, now, moves, acked>>

\* select() timed out: nothing but the end of the loop.
Idle(e) ==
    /\ ~looped[e]
    /\ EndLoop(e, known[e], pending[e])
    /\ UNCHANGED <<sock, registry, net, now, moves, acked>>

---------------------------------------------------------------------------
(* The supernode, the NATs and the clock.                                  *)

\* sn.c update_edge, on a REGISTER_SUPER of e
RegisterSuper(e) ==
    /\ registry[e] # sock[e]
    /\ registry' = [registry EXCEPT ![e] = sock[e]]
    /\ UNCHANGED <<sock, tables, net, now, moves, acked>>

\* sn.c process_udp on a PACKET: stamped with the socket it came from and
\* sent to the destination's socket, or to everybody else's.
Relay(m) ==
    LET targets == {f \in Edges \ {m.src} : /\ m.dst \in {f, Bcast}
                                            /\ registry[f] # NoSock}
        stamped(f) == [m EXCEPT !.from = SN, !.to = registry[f],
                                !.sup = TRUE, !.sock = m.from]
    IN  /\ m \in net
        /\ m.type = "PACKET"
        /\ m.to = SN
        /\ Transmit({m}, {stamped(f) : f \in targets})
        /\ UNCHANGED <<sock, tables, registry, now, moves, acked>>

\* The NAT in front of e maps it to another public socket.
Rebind(e, s) ==
    /\ moves < MaxMoves
    /\ s \notin {sock[f] : f \in Edges}
    /\ sock' = [sock EXCEPT ![e] = s]
    /\ moves' = moves + 1
    /\ UNCHANGED <<tables, registry, net, now, acked>>

\* The process of e ends and is started again; edge_init clears its tables.
Restart(e) ==
    /\ moves < MaxMoves
    /\ pending' = [pending EXCEPT ![e] = {}]
    /\ known' = [known EXCEPT ![e] = {}]
    /\ lastPurge' = [lastPurge EXCEPT ![e] = 0]
    /\ looped' = [looped EXCEPT ![e] = FALSE]
    /\ moves' = moves + 1
    /\ UNCHANGED <<sock, registry, net, now, acked>>

\* One select() timeout passes; no edge sleeps longer than that.
Tick ==
    /\ now < MaxTime
    /\ \A e \in Edges : looped[e]
    /\ now' = now + 1
    /\ looped' = [e \in Edges |-> FALSE]
    /\ UNCHANGED <<sock, pending, known, lastPurge, registry, net, moves, acked>>

---------------------------------------------------------------------------
Init ==
    /\ sock \in {f \in [Edges -> Socks] : \A e, d \in Edges : e # d => f[e] # f[d]}
    /\ pending = [e \in Edges |-> {}]
    /\ known = [e \in Edges |-> {}]
    /\ lastPurge = [e \in Edges |-> 0]
    /\ looped = [e \in Edges |-> FALSE]
    /\ registry = [e \in Edges |-> NoSock]
    /\ net = {}
    /\ now = PurgeFreq
    /\ moves = 0
    /\ acked = {}

RunLoop(e) ==
    \/ \E m \in net : RecvPacket(e, m) \/ RecvRegister(e, m) \/ RecvRegisterAck(e, m)
    \/ \E mac \in Edges \cup {Bcast} : ReadFromTAP(e, mac)
    \/ Idle(e)

Next ==
    \/ \E e \in Edges : RunLoop(e)
    \/ \E e \in Edges : RegisterSuper(e)
    \/ \E m \in net : Relay(m)
    \/ \E e \in Edges, s \in Socks : Rebind(e, s)
    \/ \E e \in Edges : Restart(e)
    \/ Tick

Spec == Init /\ [][Next]_vars

---------------------------------------------------------------------------
(* Properties.                                                             *)

\* An edge never has two entries for a MAC, neither in one table nor one in
\* each: find_peer_by_mac, update_peer_address and set_peer_operational all
\* stop at the first entry they meet, and a second one would keep a stale
\* socket alive.
OneEntryIn(k, p) ==
    \A x, y \in k \cup p : x.mac = y.mac => x = y /\ ~(x \in k /\ y \in p)

\* No MAC has two entries at an edge.
OneEntry == \A e \in Edges : OneEntryIn(known[e], pending[e])

\* Frames go directly only to a socket from which that very peer answered a
\* REGISTER over a path that lets its datagrams through: what a supernode
\* reports never makes a peer operational (set_peer_operational).
AckProvenance ==
    \A e \in Edges : \A p \in known[e] :
        \E t \in Socks : /\ <<p.mac, p.sock, t>> \in acked
                         /\ <<p.sock, t>> \in CanReach

\* A known peer that went silent is gone after the timeout and one purge
\* period, however the inputs and the purges interleave.
KnownFresh ==
    \A e \in Edges : \A p \in known[e] : now - p.seen <= RegTimeout + PurgeFreq

\* What may take a peer out of known_peers: the timeout, a restart, or a frame
\* that came directly from another socket of that peer.  A frame relayed by
\* the supernode never does.
MovedDirectly(e, p) ==
    \E m \in net : /\ m.type = "PACKET" /\ ~m.sup
                   /\ m.src = p.mac /\ m.to = sock[e] /\ m.from # p.sock

EvictionJustified ==
    [][\A e \in Edges : \A p \in known[e] :
          \/ Has(known'[e], p.mac)
          \/ p.seen < now - RegTimeout
          \/ known'[e] = {} /\ pending'[e] = {} /\ moves' = moves + 1
          \/ MovedDirectly(e, p) /\ Has(pending'[e], p.mac)]_vars

\* A known peer does not change its socket in place: the new socket has to be
\* acknowledged first.
NoMoveInPlace ==
    [][\A e \in Edges : \A p \in known[e], q \in known'[e] :
          p.mac = q.mac => p.sock = q.sock]_vars

\* The main loop reads every datagram that reaches it.
Fairness ==
    \A e \in Edges : /\ WF_vars(\E m \in net : RecvRegister(e, m))
                     /\ WF_vars(\E m \in net : RecvRegisterAck(e, m))

FairSpec == Spec /\ Fairness

\* Without loss, moves and blocked paths, a handshake that was started ends:
\* a pending peer becomes known.
HandshakeCompletes ==
    \A e, d \in Edges : Has(pending[e], d) ~> Has(known[e], d)

=============================================================================
