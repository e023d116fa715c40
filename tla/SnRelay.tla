------------------------------ MODULE SnRelay ------------------------------
(***************************************************************************)
(* One supernode that serves several communities: its table of edges, the  *)
(* relay of frames, and what the edges at both ends do with a frame.       *)
(*                                                                         *)
(* The edges know no peers yet, so that every frame goes through the       *)
(* supernode (EdgePeers models direct paths).  Which registrations an edge *)
(* sends when, and what it does with the answers, is in EdgeSuper; here it *)
(* may register at any time.  One action of the supernode is one iteration *)
(* of its run_loop: a datagram of the main socket or none, then the purge. *)
(* Statistics are left out.                                                *)
(*                                                                         *)
(* Datagrams may be lost, late and duplicated; a NAT may give an edge a    *)
(* new socket, also one another edge had; an edge may be restarted for     *)
(* another community, and the supernode be restarted.  In a behaviour that *)
(* is `timely` nothing of this happens.                                    *)
(***************************************************************************)
EXTENDS Integers, FiniteSets

CONSTANTS
    Macs,         \* edges, by MAC
    Comms,        \* communities
    Socks,        \* public sockets of edges
    SN,           \* the supernode's main socket
    NoSock,       \* no socket field
    Home,         \* Home[m]: community and socket m starts with
    DropMulti,    \* edges that drop multicast (all but those started with -E)
    Routers,      \* edges started with -r
    Timeout,      \* REGISTRATION_TIMEOUT
    Period,       \* PURGE_REGISTRATION_FREQUENCY
    MaxTime,      \* bound: the clock stops here
    MaxMsgs,      \* bound: datagrams in flight
    MaxMoves      \* bound: rebinds, new communities, restarts, foreign datagrams

ASSUME RelayAssumption ==
    /\ Home \in [Macs -> [comm: Comms, sock: Socks]]
    /\ \A m, k \in Macs : m # k => Home[m].sock # Home[k].sock
    /\ SN \notin Socks /\ NoSock \notin Socks \cup {SN}
    /\ Macs \cap {"broadcast", "multicast", "supernode"} = {} /\ "none" \notin Comms
    /\ Timeout \in Nat /\ Period \in Nat \ {0}

VARIABLES
    edges,      \* sss->edges
    lastPurge,  \* last_purge of purge_expired_registrations
    looped,     \* whether run_loop went round since the clock advanced
    host,       \* host[m]: community and present socket of the edge m
    net,        \* datagrams in flight
    timely,     \* whether nothing is lost and nobody moves
    now,        \* the time
    moves,      \* moves, see MaxMoves, so far
    routed,     \* history: frames the last step relayed, with the sockets; or the
                \* registration it took in, with the socket it came from
    tap,        \* history: what the last step wrote to a TAP device
    owners      \* history: owners[s], the edges that ever had socket s

vars == <<edges, lastPurge, looped, host, net, timely, now, moves, routed, tap, owners>>

\* Destinations that are not one edge: ff:ff:ff:ff:ff:ff, and 01:00:5e.., 33:33..
Group == {"broadcast", "multicast"}

IsMultiBroadcast(dst) == dst \in Group

PeerInfo == [mac: Macs, comm: Comms, sock: Socks, seen: Nat]
Frames == [comm: Comms, src: Macs, dst: Macs \cup Group \cup {"supernode"}]

\* from: the socket it was sent from.  sock: the field a supernode adds.
Datagrams ==
    [pc: {"PACKET", "REGISTER", "REGISTER_ACK", "REGISTER_SUPER"}, ttl: 0..2, fromSn: BOOLEAN,
     comm: Comms, src: Macs, dst: Macs \cup Group \cup {"supernode"}, from: Socks,
     sock: Socks \cup {NoSock}, to: Socks \cup {SN}]

TypeOK ==
    /\ edges \subseteq PeerInfo
    /\ lastPurge \in Nat /\ now \in Nat /\ moves \in Nat
    /\ looped \in BOOLEAN /\ timely \in BOOLEAN
    /\ host \in [Macs -> [comm: Comms, sock: Socks]]
    /\ net \subseteq Datagrams
    /\ routed \subseteq Frames \X Socks
    /\ tap \subseteq [at: Macs, frame: Frames]
    /\ owners \in [Socks -> SUBSET Macs]

---------------------------------------------------------------------------
(* The network.                                                            *)

Transmit(taken, sent) ==
    \E kept \in (IF timely THEN {net \ taken} ELSE {net, net \ taken}),
       out \in (IF timely THEN {sent} ELSE SUBSET sent) :
        /\ Cardinality(kept \cup out) <= MaxMsgs
        /\ net' = kept \cup out

Frame(d) == [comm |-> d.comm, src |-> d.src, dst |-> d.dst]

---------------------------------------------------------------------------
(* The table of edges, a list with at most one entry per MAC.              *)

\* find_peer_by_mac: no community is asked for.
Known(mac) == \E p \in edges : p.mac = mac
Find(mac) == CHOOSE p \in edges : p.mac = mac

\* Variants: definitions named ...Variant are not part of the specification;
\* each is a plausible mistake in the definition that follows it.
UpdateEdgeVariant(mac, comm, sock) ==
    IF Known(mac) THEN (edges \ {Find(mac)}) \cup {[Find(mac) EXCEPT !.sock = sock, !.seen = now]}
                  ELSE edges \cup {[mac |-> mac, comm |-> comm, sock |-> sock, seen |-> now]}

\* update_edge: the entry of a MAC that is known is overwritten, community
\* included.
UpdateEdge(mac, comm, sock) ==
    (IF Known(mac) THEN edges \ {Find(mac)} ELSE edges)
        \cup {[mac |-> mac, comm |-> comm, sock |-> sock, seen |-> now]}

\* the purge takes entries the moment they reach the timeout
PurgeVariant(list) ==
    IF now - lastPurge < Period
    THEN edges' = list /\ UNCHANGED lastPurge
    ELSE edges' = {p \in list : p.seen > now - Timeout} /\ lastPurge' = now

\* purge_expired_registrations, purge_peer_list
Purge(list) ==
    IF now - lastPurge < Period
    THEN edges' = list /\ UNCHANGED lastPurge
    ELSE edges' = {p \in list : p.seen >= now - Timeout} /\ lastPurge' = now

EndLoop(list) == Purge(list) /\ looped' = TRUE

---------------------------------------------------------------------------
(* The relay.                                                              *)

\* try_forward: an unknown destination gets nothing.
TryForward(dst) == {Find(mac).sock : mac \in {m \in {dst} : Known(m)}}

\* the sender is not left out
TryBroadcastVariant(comm, src) == {p.sock : p \in {q \in edges : q.comm = comm}}

TryBroadcast(comm, src) == {p.sock : p \in {q \in edges : q.comm = comm /\ q.mac # src}}

\* A datagram already from a supernode is passed on as it is, TTL included;
\* any other one gets the flags, the sender's socket and the decremented TTL.
Relayed(d, to) ==
    IF d.fromSn THEN [d EXCEPT !.to = to]
    ELSE [d EXCEPT !.ttl = @ - 1, !.fromSn = TRUE, !.sock = d.from, !.to = to]

AtSupernode(d) == d \in net /\ d.to = SN

\* a used up TTL is not looked at
RelayPacketVariant(d) ==
    /\ AtSupernode(d) /\ d.pc = "PACKET"
    /\ LET to == IF IsMultiBroadcast(d.dst) THEN TryBroadcast(d.comm, d.src)
                                            ELSE TryForward(d.dst)
       IN  /\ Transmit({d}, {Relayed(d, s) : s \in to})
           /\ routed' = {<<Frame(d), s>> : s \in to}
    /\ EndLoop(edges) /\ tap' = {}
    /\ UNCHANGED <<host, timely, now, moves, owners>>

\* process_udp on a PACKET
RelayPacket(d) ==
    /\ AtSupernode(d) /\ d.pc = "PACKET" /\ d.ttl > 0
    /\ LET to == IF IsMultiBroadcast(d.dst) THEN TryBroadcast(d.comm, d.src)
                                            ELSE TryForward(d.dst)
       IN  /\ Transmit({d}, {Relayed(d, s) : s \in to})
           /\ routed' = {<<Frame(d), s>> : s \in to}
    /\ EndLoop(edges) /\ tap' = {}
    /\ UNCHANGED <<host, timely, now, moves, owners>>

\* process_udp on a REGISTER: forwarded to one edge, never to a group.  The
\* socket field is added (or replaced) if the datagram already came from a
\* supernode, and left alone if it came from an edge.
RelayRegister(d) ==
    /\ AtSupernode(d) /\ d.pc = "REGISTER" /\ d.ttl > 0
    /\ LET to == IF IsMultiBroadcast(d.dst) THEN {} ELSE TryForward(d.dst)
           out(s) == IF d.fromSn THEN [d EXCEPT !.ttl = @ - 1, !.sock = d.from, !.to = s]
                                 ELSE [d EXCEPT !.to = s]
       IN  /\ Transmit({d}, {out(s) : s \in to})
           /\ routed' = {<<Frame(d), s>> : s \in to}
    /\ EndLoop(edges) /\ tap' = {}
    /\ UNCHANGED <<host, timely, now, moves, owners>>

\* process_udp on a REGISTER_SUPER; the acknowledgement it sends is followed in
\* EdgeSuper and EdgeDiscovery.
RecvRegisterSuper(d) ==
    /\ AtSupernode(d) /\ d.pc = "REGISTER_SUPER" /\ d.ttl > 0
    /\ Transmit({d}, {})
    /\ EndLoop(UpdateEdge(d.src, d.comm, d.from))
    /\ routed' = {<<Frame(d), d.from>>} /\ tap' = {}
    /\ UNCHANGED <<host, timely, now, moves, owners>>

\* process_udp on a datagram whose TTL is used up, and on a REGISTER_ACK
DropAtSupernode(d) ==
    /\ AtSupernode(d) /\ (d.ttl < 1 \/ d.pc = "REGISTER_ACK")
    /\ Transmit({d}, {})
    /\ EndLoop(edges)
    /\ routed' = {} /\ tap' = {}
    /\ UNCHANGED <<host, timely, now, moves, owners>>

\* run_loop after a timeout or with input on its other sockets
Idle ==
    /\ ~looped
    /\ EndLoop(edges)
    /\ routed' = {} /\ tap' = {}
    /\ UNCHANGED <<host, net, timely, now, moves, owners>>

\* run_loop ends when a socket fails; deinit_sn drops the table, and init_sn
\* starts with an empty one.
Restart ==
    /\ ~timely /\ moves < MaxMoves
    /\ edges' = {} /\ lastPurge' = 0 /\ looped' = TRUE
    /\ moves' = moves + 1
    /\ routed' = {} /\ tap' = {}
    /\ UNCHANGED <<host, net, timely, now, owners>>

---------------------------------------------------------------------------
(* The edges.                                                              *)

Datagram(pc, m, dst) ==
    [pc |-> pc, ttl |-> 2, fromSn |-> FALSE, comm |-> host[m].comm, src |-> m, dst |-> dst,
     from |-> host[m].sock, sock |-> NoSock, to |-> SN]

Send(d) ==
    /\ Transmit({}, {d})
    /\ routed' = {} /\ tap' = {}
    /\ UNCHANGED <<edges, lastPurge, looped, host, timely, now, owners>>

\* send_register_super
Register(m) == Send(Datagram("REGISTER_SUPER", m, "supernode")) /\ UNCHANGED moves

\* readFromTAPSocket, send_packet2net: `alien` says whether it is an IP packet
\* that this host only routes.
ReadFromTAP(m, dst, alien) ==
    /\ dst # m
    /\ ~(dst = "multicast" /\ m \in DropMulti)
    /\ alien => m \in Routers
    /\ Send(Datagram("PACKET", m, dst))
    /\ UNCHANGED moves

\* An edge of another implementation, or a supernode that passes on what it
\* received, sends what no edge of this program sends to a supernode.
Foreign(pc, ttl, fromSn, m, dst) ==
    /\ ~timely /\ moves < MaxMoves /\ dst # m
    /\ Send([Datagram(pc, m, dst) EXCEPT !.ttl = ttl, !.fromSn = fromSn])
    /\ moves' = moves + 1

\* readFromIPSocket, handle_PACKET: the edge that has the socket now gets the
\* datagram; it looks at the community, not at the destination.
RecvPacket(m, d) ==
    /\ d \in net /\ d.to = host[m].sock
    /\ Transmit({d}, {})
    /\ tap' = {[at |-> m, frame |-> Frame(d)] :
                           x \in {y \in {d} : y.pc = "PACKET" /\ y.comm = host[m].comm}}
    /\ routed' = {}
    /\ UNCHANGED <<edges, lastPurge, looped, host, timely, now, moves, owners>>

\* Nobody has the socket any more.
Unheard(d) ==
    /\ d \in net /\ d.to # SN /\ \A m \in Macs : host[m].sock # d.to
    /\ net' = net \ {d}
    /\ routed' = {} /\ tap' = {}
    /\ UNCHANGED <<edges, lastPurge, looped, host, timely, now, moves, owners>>

\* A NAT gives m another socket, which no edge has at the moment.
Rebind(m, s) ==
    /\ ~timely /\ moves < MaxMoves
    /\ \A k \in Macs : host[k].sock # s
    /\ host' = [host EXCEPT ![m].sock = s]
    /\ owners' = [owners EXCEPT ![s] = @ \cup {m}]
    /\ moves' = moves + 1
    /\ routed' = {} /\ tap' = {}
    /\ UNCHANGED <<edges, lastPurge, looped, net, timely, now>>

\* The host starts its edge for another community.
Rejoin(m, c) ==
    /\ ~timely /\ moves < MaxMoves
    /\ c # host[m].comm
    /\ host' = [host EXCEPT ![m].comm = c]
    /\ moves' = moves + 1
    /\ routed' = {} /\ tap' = {}
    /\ UNCHANGED <<edges, lastPurge, looped, net, timely, now, owners>>

\* A time unit is longer than the select() timeout.  Timely datagrams arrive
\* before it ends.
Tick ==
    /\ now < MaxTime /\ looped
    /\ timely => net = {}
    /\ now' = now + 1 /\ looped' = FALSE
    /\ routed' = {} /\ tap' = {}
    /\ UNCHANGED <<edges, lastPurge, host, net, timely, moves, owners>>

Init ==
    /\ edges = {} /\ lastPurge = 0 /\ looped = FALSE
    /\ host = Home
    /\ net = {}
    /\ timely \in BOOLEAN
    /\ now = Period    \* time(NULL) is far from 1970: a purge is due at once
    /\ moves = 0
    /\ routed = {} /\ tap = {}
    /\ owners = [s \in Socks |-> {m \in Macs : Home[m].sock = s}]

Supernode ==
    \E d \in net : RelayPacket(d) \/ RelayRegister(d) \/ RecvRegisterSuper(d) \/ DropAtSupernode(d)

Edge(m) ==
    \/ Register(m)
    \/ \E dst \in Macs \cup Group, alien \in BOOLEAN : ReadFromTAP(m, dst, alien)
    \/ \E d \in net : RecvPacket(m, d)

Environment ==
    \/ \E pc \in {"PACKET", "REGISTER", "REGISTER_ACK"}, ttl \in 0..1, fromSn \in BOOLEAN,
          m \in Macs, dst \in Macs \cup Group : Foreign(pc, ttl, fromSn, m, dst)
    \/ \E d \in net : Unheard(d)
    \/ \E m \in Macs, s \in Socks : Rebind(m, s)
    \/ \E m \in Macs, c \in Comms : Rejoin(m, c)

Next ==
    \/ Supernode
    \/ Idle
    \/ Restart
    \/ \E m \in Macs : Edge(m)
    \/ Environment
    \/ Tick

Spec == Init /\ [][Next]_vars

\* What waits in a socket is read in turn, so that no frame is passed over for
\* good by the supernode or by the edge it is for.
Fairness ==
    \A m, k \in Macs :
        /\ WF_vars(\E d \in net : d.src = m /\ d.dst = k /\ RelayPacket(d))
        /\ WF_vars(\E d \in net : d.src = m /\ d.dst = k /\ RecvPacket(k, d))

FairSpec == Spec /\ Fairness

---------------------------------------------------------------------------
(* Properties.                                                             *)

Place(m) ==
    IF Known(m) THEN [comm |-> Find(m).comm, sock |-> Find(m).sock]
                ELSE [comm |-> "none", sock |-> "none"]

\* The table with its purge and its relay does what Registry promises: one place
\* per edge, the last one it registered from, frames to present places, and
\* nobody forgotten too early or too late (sn.c update_edge, try_forward,
\* try_broadcast; n2n.c purge_expired_registrations).
Promise == INSTANCE Registry WITH
    place <- [m \in Macs |-> Place(m)],
    silent <- [m \in Macs |-> IF Known(m) THEN now - Find(m).seen ELSE 0],
    handled <- routed,
    MaxSilence <- Timeout + Period

ImplementsRegistry == Promise!Spec

\* No edge reads its own frame back from its TAP device, unless a NAT gave a
\* socket to a second edge (the case the REVISIT in try_broadcast is about).
NotReflected ==
    (\E t \in tap : t.frame.src = t.at) => \E s \in Socks : \E m, k \in owners[s] : m # k

\* A frame on its way to the supernode for an edge of the same community whose
\* registration has not lapsed arrives, if datagrams are timely.
Delivered ==
    \A m, k \in Macs :
        timely /\ Known(k) /\ now - Find(k).seen <= Timeout /\ Find(k).comm = host[m].comm
               /\ (\E d \in net : d.to = SN /\ d.pc = "PACKET" /\ d.src = m /\ d.dst = k)
            ~> \E t \in tap : t.at = k /\ t.frame.src = m /\ t.frame.dst = k

=============================================================================
