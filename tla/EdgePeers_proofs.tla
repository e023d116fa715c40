-------------------------- MODULE EdgePeers_proofs --------------------------
(***************************************************************************)
(* What EdgePeers guarantees for every set of edges and sockets, every     *)
(* reachability relation and every value of the two purge periods.         *)
(***************************************************************************)
EXTENDS EdgePeers, TLAPS

Tables == SUBSET Peer

---------------------------------------------------------------------------
(* The operators the actions are built from.                               *)

\* What the end of run_loop makes of the tables a handler left.
LEMMA EndLoopTables ==
    ASSUME TypeOK, NEW e \in Edges, NEW k \in Tables, NEW p \in Tables, EndLoop(e, k, p)
    PROVE  /\ known' \in [Edges -> Tables]
           /\ pending' \in [Edges -> Tables]
           /\ lastPurge' \in [Edges -> Nat]
           /\ looped' \in [Edges -> BOOLEAN]
           /\ known'[e] \subseteq k
           /\ pending'[e] \subseteq p
           /\ \A d \in Edges \ {e} : /\ known'[d] = known[d]
                                     /\ pending'[d] = pending[d]
                                     /\ lastPurge'[d] = lastPurge[d]
                                     /\ looped'[d] = looped[d]
<1> DEFINE first  == PurgeExpired(k, lastPurge[e])
           second == PurgeExpired(p, first.last)
<1>1. first.tab \in Tables /\ first.tab \subseteq k /\ first.last \in Nat
  BY DEF PurgeExpired, TypeOK, Tables
<1>2. second.tab \in Tables /\ second.tab \subseteq p /\ second.last \in Nat
  BY <1>1 DEF PurgeExpired, TypeOK, Tables
<1>3. /\ known' = [known EXCEPT ![e] = first.tab]
      /\ pending' = [pending EXCEPT ![e] = second.tab]
      /\ lastPurge' = [lastPurge EXCEPT ![e] = second.last]
      /\ looped' = [looped EXCEPT ![e] = TRUE]
  BY DEF EndLoop
<1> HIDE DEF first, second
<1>4. QED
  BY <1>1, <1>2, <1>3 DEF TypeOK, Tables

\* How the end of run_loop moves the purge clock.  Whether known_peers was due
\* or not, pending_peers is not: the two purges share their clock.
LEMMA EndLoopClock ==
    ASSUME TypeOK, NEW e \in Edges, NEW k \in Tables, NEW p \in Tables, EndLoop(e, k, p)
    PROVE  /\ looped'[e] = TRUE
           /\ pending'[e] = p
           /\ \/ /\ now - lastPurge[e] < PurgeFreq
                 /\ lastPurge'[e] = lastPurge[e]
                 /\ known'[e] = k
              \/ /\ lastPurge'[e] = now
                 /\ known'[e] = {q \in k : q.seen >= now - RegTimeout}
<1>1. PurgeFreq \in Nat \ {0}
  BY TimesAssumption
<1>2. CASE now - lastPurge[e] < PurgeFreq
  BY <1>1, <1>2 DEF EndLoop, PurgeExpired, TypeOK
<1>3. CASE ~(now - lastPurge[e] < PurgeFreq)
  BY <1>1, <1>3 DEF EndLoop, PurgeExpired, TypeOK
<1>4. QED
  BY <1>2, <1>3

\* Only datagrams that were in flight or were sent are in flight afterwards.
LEMMA TransmitNet ==
    ASSUME NEW taken, NEW sent, Transmit(taken, sent)
    PROVE  net' \subseteq net \cup sent
BY DEF Transmit

\* The socket a datagram is attributed to is a real one, and the sender of a
\* REGISTER_ACK reached us directly.
LEMMA Sender ==
    ASSUME TypeOK, NEW e \in Edges, NEW m \in net, Arrives(e, m)
    PROVE  /\ m.src \in Edges
           /\ OrigSender(m) \in Socks
           /\ m.type \in {"REGISTER", "REGISTER_ACK"} =>
                 /\ m.from \in Socks
                 /\ m.to \in Socks
                 /\ OrigSender(m) = m.from
                 /\ <<m.from, m.to>> \in CanReach
<1>1. m \in Direct \/ m \in Relayed
  BY DEF TypeOK
<1>2. m.to \in Socks
  BY DEF Arrives, TypeOK
<1>3. CASE m \in Direct
  <2>1. m.from \in Socks /\ m.src \in Edges /\ m.sock = NoSock
    BY <1>3 DEF Direct
  <2>2. QED
    BY <1>2, <2>1, AddressAssumption DEF OrigSender, Arrives
<1>4. CASE m \in Relayed
  <2>1. m.sock \in Socks /\ m.src \in Edges /\ m.type = "PACKET"
    BY <1>4 DEF Relayed
  <2>2. QED
    BY <2>1, AddressAssumption DEF OrigSender
<1>5. QED
  BY <1>1, <1>3, <1>4

\* check_peer: the tables stay tables, and at most a REGISTER goes out.
LEMMA CheckPeerTables ==
    ASSUME TypeOK, NEW e \in Edges, NEW sup, NEW mac \in Edges, NEW s \in Socks
    PROVE  LET c == CheckPeer(e, sup, mac, s)
           IN  /\ c.known \in Tables
               /\ c.pending \in Tables
               /\ c.out \subseteq Direct
               /\ \A m \in c.out : m.type = "REGISTER" /\ m.dst = NoMac
<1>1. /\ known[e] \in Tables /\ pending[e] \in Tables
      /\ sock[e] \in Socks
      /\ PeerInfo(mac, s) \in Peer
  BY DEF TypeOK, Tables, PeerInfo, Peer
<1>2. Without(known[e], mac) \in Tables
  BY <1>1 DEF Without, Tables
<1>3. Datagram("REGISTER", e, NoMac, sock[e], s) \in Direct
  BY <1>1 DEF Datagram, Direct
<1>4. LET r == Datagram("REGISTER", e, NoMac, sock[e], s)
      IN  r.type = "REGISTER" /\ r.dst = NoMac
  BY DEF Datagram
<1>5. ASSUME NEW k \in Tables
      PROVE  LET c == TrySendRegister(e, k, mac, s)
             IN  /\ c.known \in Tables
                 /\ c.pending \in Tables
                 /\ c.out \subseteq Direct
                 /\ \A m \in c.out : m.type = "REGISTER" /\ m.dst = NoMac
  BY <1>1, <1>3, <1>4 DEF TrySendRegister, Outcome, Tables
<1>6. QED
  BY <1>1, <1>2, <1>5 DEF CheckPeer, UpdatePeerAddress, Outcome, Tables

---------------------------------------------------------------------------
(* Type correctness.                                                       *)

LEMMA TypeInit == Init => TypeOK
BY TimesAssumption DEF Init, TypeOK

LEMMA TypeStep == TypeOK /\ [Next]_vars => TypeOK'
<1> SUFFICES ASSUME TypeOK, [Next]_vars PROVE TypeOK'
  OBVIOUS
<1>1. ASSUME NEW e \in Edges, NEW m \in net, RecvPacket(e, m) PROVE TypeOK'
  <2> DEFINE c == CheckPeer(e, m.sup, m.src, OrigSender(m))
  <2>1. m.src \in Edges /\ OrigSender(m) \in Socks
    BY <1>1, Sender DEF RecvPacket
  <2>2. c.known \in Tables /\ c.pending \in Tables /\ c.out \subseteq Direct
    BY <2>1, CheckPeerTables
  <2>3. EndLoop(e, c.known, c.pending) /\ Transmit({m}, c.out)
    BY <1>1 DEF RecvPacket
  <2> HIDE DEF c
  <2>4. net' \subseteq Direct \cup Relayed
    BY <2>2, <2>3, TransmitNet DEF TypeOK
  <2>5. UNCHANGED <<sock, registry, now, moves, acked>>
    BY <1>1 DEF RecvPacket
  <2>6. /\ known' \in [Edges -> Tables] /\ pending' \in [Edges -> Tables]
        /\ lastPurge' \in [Edges -> Nat] /\ looped' \in [Edges -> BOOLEAN]
    BY <2>2, <2>3, EndLoopTables
  <2>7. QED
    BY <2>4, <2>5, <2>6 DEF TypeOK, Tables
<1>2. ASSUME NEW e \in Edges, NEW m \in net, RecvRegister(e, m) PROVE TypeOK'
  <2> DEFINE orig == OrigSender(m)
             c == IF m.dst = e THEN CheckPeer(e, m.sup, m.src, orig)
                               ELSE Outcome(known[e], pending[e], {})
             ack == Datagram("REGISTER_ACK", e, m.src, sock[e], orig)
  <2>1. m.src \in Edges /\ orig \in Socks
    BY <1>2, Sender DEF RecvRegister
  <2>2. c.known \in Tables /\ c.pending \in Tables /\ c.out \subseteq Direct
    BY <2>1, CheckPeerTables DEF Outcome, TypeOK, Tables
  <2>3. ack \in Direct /\ <<e, ack.from, ack.to>> \in Edges \X Socks \X Socks
    BY <2>1 DEF Datagram, Direct, TypeOK
  <2>4. /\ EndLoop(e, c.known, c.pending)
        /\ Transmit({m}, c.out \cup {ack})
        /\ acked' = acked \cup {<<e, ack.from, ack.to>>}
        /\ UNCHANGED <<sock, registry, now, moves>>
    BY <1>2 DEF RecvRegister
  <2> HIDE DEF c, ack
  <2>5. net' \subseteq Direct \cup Relayed
    BY <2>2, <2>3, <2>4, TransmitNet DEF TypeOK
  <2>6. /\ known' \in [Edges -> Tables] /\ pending' \in [Edges -> Tables]
        /\ lastPurge' \in [Edges -> Nat] /\ looped' \in [Edges -> BOOLEAN]
    BY <2>2, <2>4, EndLoopTables
  <2>7. QED
    BY <2>3, <2>4, <2>5, <2>6 DEF TypeOK, Tables
<1>3. ASSUME NEW e \in Edges, NEW m \in net, RecvRegisterAck(e, m) PROVE TypeOK'
  <2> DEFINE c == SetPeerOperational(e, m)
  <2>1. m.type = "REGISTER_ACK" /\ Arrives(e, m)
    BY <1>3 DEF RecvRegisterAck
  <2>2. m.src \in Edges /\ m.from \in Socks
    BY <2>1, Sender
  <2>3. PeerInfo(m.src, m.from) \in Peer
    BY <2>2 DEF PeerInfo, Peer, TypeOK
  <2>4. c.known \in Tables /\ c.pending \in Tables /\ c.out = {}
    BY <2>3 DEF SetPeerOperational, Outcome, Without, TypeOK, Tables
  <2>5. /\ EndLoop(e, c.known, c.pending)
        /\ Transmit({m}, c.out)
        /\ UNCHANGED <<sock, registry, now, moves, acked>>
    BY <1>3 DEF RecvRegisterAck
  <2> HIDE DEF c
  <2>6. net' \subseteq Direct \cup Relayed
    BY <2>4, <2>5, TransmitNet DEF TypeOK
  <2>7. /\ known' \in [Edges -> Tables] /\ pending' \in [Edges -> Tables]
        /\ lastPurge' \in [Edges -> Nat] /\ looped' \in [Edges -> BOOLEAN]
    BY <2>4, <2>5, EndLoopTables
  <2>8. QED
    BY <2>5, <2>6, <2>7 DEF TypeOK, Tables
<1>4. ASSUME NEW e \in Edges, NEW mac \in Edges \cup {Bcast}, ReadFromTAP(e, mac)
      PROVE  TypeOK'
  <2>1. PICK to \in Destination(e, mac) :
            Transmit({}, {Datagram("PACKET", e, mac, sock[e], to)})
    BY <1>4 DEF ReadFromTAP
  <2>2. to \in Socks \cup {SN}
    BY DEF Destination, TypeOK, Peer
  <2>3. Datagram("PACKET", e, mac, sock[e], to) \in Direct
    BY <2>2 DEF Datagram, Direct, TypeOK
  <2>4. net' \subseteq Direct \cup Relayed
    BY <2>1, <2>3, TransmitNet DEF TypeOK
  <2>5. EndLoop(e, known[e], pending[e]) /\ UNCHANGED <<sock, registry, now, moves, acked>>
    BY <1>4 DEF ReadFromTAP
  <2>6. known[e] \in Tables /\ pending[e] \in Tables
    BY DEF TypeOK, Tables
  <2>7. /\ known' \in [Edges -> Tables] /\ pending' \in [Edges -> Tables]
        /\ lastPurge' \in [Edges -> Nat] /\ looped' \in [Edges -> BOOLEAN]
    BY <2>5, <2>6, EndLoopTables
  <2>8. QED
    BY <2>4, <2>5, <2>7 DEF TypeOK, Tables
<1>5. ASSUME NEW e \in Edges, Idle(e) PROVE TypeOK'
  <2>1. known[e] \in Tables /\ pending[e] \in Tables
    BY DEF TypeOK, Tables
  <2>2. /\ known' \in [Edges -> Tables] /\ pending' \in [Edges -> Tables]
        /\ lastPurge' \in [Edges -> Nat] /\ looped' \in [Edges -> BOOLEAN]
    BY <1>5, <2>1, EndLoopTables DEF Idle
  <2>3. QED
    BY <1>5, <2>2 DEF TypeOK, Tables, Idle
<1>6. ASSUME NEW e \in Edges, RegisterSuper(e) PROVE TypeOK'
  BY <1>6 DEF RegisterSuper, tables, TypeOK
<1>7. ASSUME NEW m \in net, Relay(m) PROVE TypeOK'
  <2> DEFINE targets == {f \in Edges \ {m.src} : /\ m.dst \in {f, Bcast}
                                                 /\ registry[f] # NoSock}
             stamped(f) == [m EXCEPT !.from = SN, !.to = registry[f],
                                     !.sup = TRUE, !.sock = m.from]
  <2>1. m \in Direct /\ m.type = "PACKET"
    BY <1>7, AddressAssumption DEF Relay, TypeOK, Relayed
  <2>2. ASSUME NEW f \in targets PROVE stamped(f) \in Direct \cup Relayed
    BY <2>1 DEF TypeOK, Direct, Relayed
  <2>3. Transmit({m}, {stamped(f) : f \in targets})
    BY <1>7 DEF Relay
  <2> HIDE DEF stamped, targets
  <2>4. net' \subseteq net \cup {stamped(f) : f \in targets}
    BY <2>3, TransmitNet
  <2>5. {stamped(f) : f \in targets} \subseteq Direct \cup Relayed
    BY <2>2
  <2>6. net' \subseteq Direct \cup Relayed
    BY <2>4, <2>5 DEF TypeOK
  <2>7. QED
    BY <1>7, <2>6 DEF Relay, tables, TypeOK
<1>8. ASSUME NEW e \in Edges, NEW s \in Socks, Rebind(e, s) PROVE TypeOK'
  BY <1>8 DEF Rebind, tables, TypeOK
<1>9. ASSUME NEW e \in Edges, Restart(e) PROVE TypeOK'
  BY <1>9 DEF Restart, TypeOK
<1>10. CASE Tick
  BY <1>10 DEF Tick, TypeOK
<1>11. CASE UNCHANGED vars
  BY <1>11 DEF vars, TypeOK
<1>12. QED
  BY <1>1, <1>2, <1>3, <1>4, <1>5, <1>6, <1>7, <1>8, <1>9, <1>10, <1>11
     DEF Next, RunLoop

\* Every table entry, datagram and clock stays what the code declares it to be.
THEOREM TypeCorrect == Spec => []TypeOK
BY TypeInit, TypeStep, PTL DEF Spec

---------------------------------------------------------------------------
(* The inductive invariant.                                                *)

\* A REGISTER_ACK in flight was sent by the edge it names.
SentAcks ==
    \A m \in net : m.type = "REGISTER_ACK" => <<m.src, m.from, m.to>> \in acked

\* x was confirmed from its socket over an open path.
Confirmed(x) ==
    \E t \in Socks : <<x.mac, x.sock, t>> \in acked /\ <<x.sock, t>> \in CanReach

\* The purge clock of e is never more than one period behind while there is
\* something to purge, and no known peer is older than the last purge allowed.
PurgeClock(e) ==
    /\ lastPurge[e] <= now
    /\ looped[e] => now - lastPurge[e] < PurgeFreq
    /\ known[e] # {} => now - lastPurge[e] <= PurgeFreq
    /\ \A x \in known[e] : x.seen >= lastPurge[e] - RegTimeout

IInv ==
    /\ TypeOK
    /\ OneEntry
    /\ SentAcks
    /\ AckProvenance
    /\ \A e \in Edges : PurgeClock(e)

\* check_peer keeps one entry for a MAC and makes nobody known: it can only
\* refresh a known peer at the socket it has, or drop it.
LEMMA CheckPeerEntries ==
    ASSUME TypeOK, OneEntry, NEW e \in Edges, NEW sup, NEW mac \in Edges, NEW s \in Socks
    PROVE  LET c == CheckPeer(e, sup, mac, s)
           IN  /\ OneEntryIn(c.known, c.pending)
               /\ \A x \in c.known : x \in known[e] \/ x.seen = now
               /\ \A x \in c.known :
                    \E y \in known[e] : y.mac = x.mac /\ y.sock = x.sock
<1> DEFINE new == PeerInfo(mac, s)
           rest == Without(known[e], mac)
<1>1. /\ new.mac = mac /\ new.sock = s /\ new.seen = now
  BY DEF PeerInfo
<1>2. OneEntryIn(known[e], pending[e])
  BY DEF OneEntry
<1>3. rest \subseteq known[e] /\ ~Has(rest, mac)
  BY DEF Without, Has
<1>4. ASSUME NEW k, k \subseteq known[e], ~Has(k, mac)
      PROVE  LET c == TrySendRegister(e, k, mac, s)
             IN  c.known = k /\ OneEntryIn(k, c.pending)
  <2>1. CASE Has(pending[e], mac)
    BY <1>2, <1>4, <2>1 DEF TrySendRegister, Outcome, OneEntryIn
  <2>2. CASE ~Has(pending[e], mac)
    <3>1. OneEntryIn(k, pending[e] \cup {new})
      BY <1>1, <1>2, <1>4, <2>2 DEF OneEntryIn, Has
    <3>2. QED
      BY <2>2, <3>1 DEF TrySendRegister, Outcome
  <2>3. QED
    BY <2>1, <2>2
<1>5. CASE \E y \in known[e] : y.mac = mac /\ y.sock = s
  <2>1. Has(known[e], mac)
    BY <1>5 DEF Has
  <2>2. CheckPeer(e, sup, mac, s) = Outcome(rest \cup {new}, pending[e], {})
    BY <1>5, <2>1 DEF CheckPeer, UpdatePeerAddress
  <2>3. ~Has(pending[e], mac)
    BY <1>2, <2>1 DEF OneEntryIn, Has
  <2> HIDE DEF new, rest
  <2>4. OneEntryIn(rest \cup {new}, pending[e])
    BY <1>1, <1>2, <1>3, <2>3 DEF OneEntryIn, Has
  <2>5. QED
    BY <1>1, <1>3, <1>5, <2>2, <2>4 DEF Outcome
<1>6. CASE ~(\E y \in known[e] : y.mac = mac /\ y.sock = s) /\ Has(known[e], mac)
  <2>1. CASE sup
    BY <1>2, <1>6, <2>1 DEF CheckPeer, UpdatePeerAddress, Outcome
  <2>2. CASE ~sup
    <3>1. CheckPeer(e, sup, mac, s) = TrySendRegister(e, rest, mac, s)
      BY <1>6, <2>2 DEF CheckPeer, UpdatePeerAddress
    <3>2. QED
      BY <1>3, <1>4, <3>1
  <2>3. QED
    BY <2>1, <2>2
<1>7. CASE ~Has(known[e], mac)
  <2>1. CheckPeer(e, sup, mac, s) = TrySendRegister(e, known[e], mac, s)
    BY <1>7 DEF CheckPeer
  <2>2. QED
    BY <1>4, <1>7, <2>1
<1>8. QED
  BY <1>5, <1>6, <1>7

\* x is where e knew its MAC already, if it did.
Stays(e, x) ==
    Has(known[e], x.mac) => \E y \in known[e] : y.mac = x.mac /\ y.sock = x.sock

\* What every iteration of the loop hands to its two purge calls.
LEMMA RunLoopTables ==
    ASSUME IInv, NEW e \in Edges, RunLoop(e)
    PROVE  \E k \in Tables, p \in Tables :
               /\ EndLoop(e, k, p)
               /\ OneEntryIn(k, p)
               /\ \A x \in k : x \in known[e] \/ x.seen = now
               /\ \A x \in k : Confirmed(x)
               /\ \A x \in k : Stays(e, x)
<1> DEFINE Good(k, p) == /\ k \in Tables
                         /\ p \in Tables
                         /\ EndLoop(e, k, p)
                         /\ OneEntryIn(k, p)
                         /\ \A x \in k : x \in known[e] \/ x.seen = now
                         /\ \A x \in k : Confirmed(x)
                         /\ \A x \in k : Stays(e, x)
<1> SUFFICES \E k, p : Good(k, p)
  OBVIOUS
<1>1. TypeOK /\ OneEntry
  BY DEF IInv
<1>2. \A x \in known[e] : Confirmed(x)
  BY DEF IInv, AckProvenance, Confirmed
<1>3. known[e] \in Tables /\ pending[e] \in Tables /\ OneEntryIn(known[e], pending[e])
  BY <1>1 DEF TypeOK, Tables, OneEntry
<1>4. ASSUME EndLoop(e, known[e], pending[e]) PROVE Good(known[e], pending[e])
  BY <1>2, <1>3, <1>4 DEF Stays
<1>5. ASSUME NEW sup, NEW mac \in Edges, NEW s \in Socks,
             EndLoop(e, CheckPeer(e, sup, mac, s).known, CheckPeer(e, sup, mac, s).pending)
      PROVE  Good(CheckPeer(e, sup, mac, s).known, CheckPeer(e, sup, mac, s).pending)
  <2> DEFINE c == CheckPeer(e, sup, mac, s)
  <2>1. c.known \in Tables /\ c.pending \in Tables
    BY <1>1, CheckPeerTables
  <2>2. /\ OneEntryIn(c.known, c.pending)
        /\ \A x \in c.known : x \in known[e] \/ x.seen = now
        /\ \A x \in c.known : \E y \in known[e] : y.mac = x.mac /\ y.sock = x.sock
    BY <1>1, CheckPeerEntries
  <2>3. EndLoop(e, c.known, c.pending)
    BY <1>5
  <2> HIDE DEF c
  <2>4. \A x \in c.known : Confirmed(x)
    BY <1>2, <2>2 DEF Confirmed
  <2>5. Good(c.known, c.pending)
    BY <2>1, <2>2, <2>3, <2>4 DEF Stays
  <2>6. QED
    BY <2>5 DEF c
<1>6. ASSUME NEW m \in net, RecvPacket(e, m) PROVE \E k, p : Good(k, p)
  <2>1. m.src \in Edges /\ OrigSender(m) \in Socks
    BY <1>1, <1>6, Sender DEF RecvPacket
  <2>2. EndLoop(e, CheckPeer(e, m.sup, m.src, OrigSender(m)).known,
                   CheckPeer(e, m.sup, m.src, OrigSender(m)).pending)
    BY <1>6 DEF RecvPacket
  <2> HIDE DEF Good
  <2>3. QED
    BY <1>5, <2>1, <2>2
<1>7. ASSUME NEW m \in net, RecvRegister(e, m) PROVE \E k, p : Good(k, p)
  <2>1. m.src \in Edges /\ OrigSender(m) \in Socks
    BY <1>1, <1>7, Sender DEF RecvRegister
  <2>2. CASE m.dst = e
    <3>1. EndLoop(e, CheckPeer(e, m.sup, m.src, OrigSender(m)).known,
                     CheckPeer(e, m.sup, m.src, OrigSender(m)).pending)
      BY <1>7, <2>2 DEF RecvRegister
    <3> HIDE DEF Good
    <3>2. QED
      BY <1>5, <2>1, <3>1
  <2>3. CASE m.dst # e
    <3>1. EndLoop(e, known[e], pending[e])
      BY <1>7, <2>3 DEF RecvRegister, Outcome
    <3> HIDE DEF Good
    <3>2. QED
      BY <1>4, <3>1
  <2>4. QED
    BY <2>2, <2>3
<1>8. ASSUME NEW m \in net, RecvRegisterAck(e, m) PROVE \E k, p : Good(k, p)
  <2>1. m.type = "REGISTER_ACK" /\ Arrives(e, m)
    BY <1>8 DEF RecvRegisterAck
  <2>2. /\ m.src \in Edges /\ m.from \in Socks /\ m.to \in Socks
        /\ <<m.from, m.to>> \in CanReach
    BY <1>1, <2>1, Sender
  <2>3. <<m.src, m.from, m.to>> \in acked
    BY <2>1 DEF IInv, SentAcks
  <2> DEFINE new == PeerInfo(m.src, m.from)
             c == SetPeerOperational(e, m)
  <2>4. new \in Peer /\ new.mac = m.src /\ new.sock = m.from /\ new.seen = now
    BY <1>1, <2>2 DEF PeerInfo, Peer, TypeOK
  <2>5. EndLoop(e, c.known, c.pending)
    BY <1>8 DEF RecvRegisterAck
  <2> HIDE DEF new
  <2>6. CASE Has(pending[e], m.src)
    <3>1. c.known = known[e] \cup {new} /\ c.pending = Without(pending[e], m.src)
      BY <2>6 DEF SetPeerOperational, Outcome, new
    <3>2. ~Has(known[e], m.src)
      BY <1>3, <2>6 DEF OneEntryIn, Has
    <3>3. OneEntryIn(known[e] \cup {new}, Without(pending[e], m.src))
      BY <1>3, <2>4, <3>2 DEF OneEntryIn, Has, Without
    <3>4. Confirmed(new)
      BY <2>2, <2>3, <2>4 DEF Confirmed
    <3>5. known[e] \cup {new} \in Tables /\ Without(pending[e], m.src) \in Tables
      BY <1>3, <2>4 DEF Tables, Without
    <3>6. Good(known[e] \cup {new}, Without(pending[e], m.src))
      BY <1>2, <2>4, <2>5, <3>1, <3>2, <3>3, <3>4, <3>5 DEF Stays
    <3> HIDE DEF Good
    <3>7. QED
      BY <3>6
  <2>7. CASE ~Has(pending[e], m.src)
    <3>1. EndLoop(e, known[e], pending[e])
      BY <2>5, <2>7 DEF SetPeerOperational, Outcome
    <3> HIDE DEF Good
    <3>2. QED
      BY <1>4, <3>1
  <2>8. QED
    BY <2>6, <2>7
<1>9. ASSUME NEW mac, ReadFromTAP(e, mac) PROVE \E k, p : Good(k, p)
  <2>1. EndLoop(e, known[e], pending[e])
    BY <1>9 DEF ReadFromTAP
  <2> HIDE DEF Good
  <2>2. QED
    BY <1>4, <2>1
<1>10. ASSUME Idle(e) PROVE \E k, p : Good(k, p)
  <2>1. EndLoop(e, known[e], pending[e])
    BY <1>10 DEF Idle
  <2> HIDE DEF Good
  <2>2. QED
    BY <1>4, <2>1
<1> HIDE DEF Good
<1>11. QED
  BY <1>6, <1>7, <1>8, <1>9, <1>10 DEF RunLoop

\* An iteration of the loop keeps the tables, the provenance and the clock.
LEMMA RunLoopStep ==
    ASSUME IInv, NEW e \in Edges, RunLoop(e), acked \subseteq acked', UNCHANGED now
    PROVE  OneEntry' /\ AckProvenance' /\ (\A d \in Edges : PurgeClock(d))'
<1>1. TypeOK
  BY DEF IInv
<1>2. PICK k \in Tables, p \in Tables :
          /\ EndLoop(e, k, p)
          /\ OneEntryIn(k, p)
          /\ \A x \in k : x \in known[e] \/ x.seen = now
          /\ \A x \in k : Confirmed(x)
          /\ \A x \in k : Stays(e, x)
  BY RunLoopTables
<1>3. /\ known'[e] \subseteq k /\ pending'[e] \subseteq p
      /\ \A d \in Edges \ {e} : /\ known'[d] = known[d]
                                /\ pending'[d] = pending[d]
                                /\ lastPurge'[d] = lastPurge[d]
                                /\ looped'[d] = looped[d]
  BY <1>1, <1>2, EndLoopTables
<1>4. OneEntry'
  <2>1. OneEntryIn(known'[e], pending'[e])
    BY <1>2, <1>3 DEF OneEntryIn
  <2>2. ASSUME NEW d \in Edges \ {e} PROVE OneEntryIn(known'[d], pending'[d])
    BY <1>3 DEF IInv, OneEntry
  <2>3. QED
    BY <2>1, <2>2 DEF OneEntry
<1>5. AckProvenance'
  <2>1. ASSUME NEW d \in Edges, NEW x \in known'[d] PROVE Confirmed(x)
    <3>1. CASE d = e
      BY <1>2, <1>3, <3>1
    <3>2. CASE d # e
      BY <1>3, <3>2 DEF IInv, AckProvenance, Confirmed
    <3>3. QED
      BY <3>1, <3>2
  <2>2. QED
    BY <2>1 DEF AckProvenance, Confirmed
<1>6. ASSUME NEW d \in Edges PROVE PurgeClock(d)'
  <2>1. CASE d # e
    BY <1>3, <2>1 DEF IInv, PurgeClock
  <2>2. CASE d = e
    <3>1. /\ looped'[e] = TRUE
          /\ \/ /\ now - lastPurge[e] < PurgeFreq
                /\ lastPurge'[e] = lastPurge[e]
                /\ known'[e] = k
             \/ /\ lastPurge'[e] = now
                /\ known'[e] = {q \in k : q.seen >= now - RegTimeout}
      BY <1>1, <1>2, EndLoopClock
    <3>2. PurgeClock(e)
      BY DEF IInv
    <3>3. now \in Nat /\ lastPurge[e] \in Nat /\ \A x \in k : x.seen \in Nat
      BY <1>1 DEF TypeOK, Tables, Peer
    <3>4. CASE /\ now - lastPurge[e] < PurgeFreq
               /\ lastPurge'[e] = lastPurge[e]
               /\ known'[e] = k
      BY <1>2, <2>2, <3>2, <3>3, <3>4, TimesAssumption DEF PurgeClock
    <3>5. CASE /\ lastPurge'[e] = now
               /\ known'[e] = {q \in k : q.seen >= now - RegTimeout}
      BY <2>2, <3>3, <3>5, TimesAssumption DEF PurgeClock
    <3>6. QED
      BY <3>1, <3>4, <3>5
  <2>3. QED
    BY <2>1, <2>2
<1>7. QED
  BY <1>4, <1>5, <1>6

LEMMA InvInit == Init => IInv
<1> SUFFICES ASSUME Init PROVE IInv
  OBVIOUS
<1>1. TypeOK
  BY TypeInit
<1>2. OneEntry /\ SentAcks /\ AckProvenance
  BY DEF Init, OneEntry, OneEntryIn, SentAcks, AckProvenance
<1>3. \A e \in Edges : PurgeClock(e)
  BY TimesAssumption DEF Init, PurgeClock
<1>4. QED
  BY <1>1, <1>2, <1>3 DEF IInv

\* The acknowledgements in flight, whatever the step.
LEMMA SentAcksStep == IInv /\ [Next]_vars => SentAcks' /\ acked \subseteq acked'
<1> SUFFICES ASSUME IInv, [Next]_vars PROVE SentAcks' /\ acked \subseteq acked'
  OBVIOUS
<1>1. TypeOK /\ SentAcks
  BY DEF IInv
<1>2. ASSUME acked \subseteq acked',
             NEW sent, net' \subseteq net \cup sent,
             \A m \in sent : m.type = "REGISTER_ACK" => <<m.src, m.from, m.to>> \in acked'
      PROVE  SentAcks' /\ acked \subseteq acked'
  BY <1>1, <1>2 DEF SentAcks
<1>3. ASSUME NEW e \in Edges, NEW m \in net, RecvPacket(e, m)
      PROVE  SentAcks' /\ acked \subseteq acked'
  <2> DEFINE c == CheckPeer(e, m.sup, m.src, OrigSender(m))
  <2>1. m.src \in Edges /\ OrigSender(m) \in Socks
    BY <1>1, <1>3, Sender DEF RecvPacket
  <2>2. \A r \in c.out : r.type = "REGISTER"
    BY <1>1, <2>1, CheckPeerTables
  <2>3. Transmit({m}, c.out) /\ acked' = acked
    BY <1>3 DEF RecvPacket
  <2> HIDE DEF c
  <2>4. net' \subseteq net \cup c.out
    BY <2>3, TransmitNet
  <2>5. QED
    BY <1>2, <2>2, <2>3, <2>4
<1>4. ASSUME NEW e \in Edges, NEW m \in net, RecvRegister(e, m)
      PROVE  SentAcks' /\ acked \subseteq acked'
  <2> DEFINE orig == OrigSender(m)
             c == IF m.dst = e THEN CheckPeer(e, m.sup, m.src, orig)
                               ELSE Outcome(known[e], pending[e], {})
             ack == Datagram("REGISTER_ACK", e, m.src, sock[e], orig)
  <2>1. m.src \in Edges /\ orig \in Socks
    BY <1>1, <1>4, Sender DEF RecvRegister
  <2>2. \A r \in c.out : r.type = "REGISTER"
    <3>1. CASE m.dst = e
      <4> HIDE DEF orig
      <4>1. \A r \in CheckPeer(e, m.sup, m.src, orig).out : r.type = "REGISTER"
        BY <1>1, <2>1, CheckPeerTables
      <4>2. QED
        BY <3>1, <4>1
    <3>2. CASE m.dst # e
      BY <3>2 DEF Outcome
    <3>3. QED
      BY <3>1, <3>2
  <2>3. Transmit({m}, c.out \cup {ack}) /\ acked' = acked \cup {<<e, ack.from, ack.to>>}
    BY <1>4 DEF RecvRegister
  <2>4. ack.src = e
    BY DEF Datagram
  <2> HIDE DEF c, ack
  <2>5. net' \subseteq net \cup (c.out \cup {ack})
    BY <2>3, TransmitNet
  <2>6. QED
    BY <1>2, <2>2, <2>3, <2>4, <2>5
<1>5. ASSUME NEW e \in Edges, NEW m \in net, RecvRegisterAck(e, m)
      PROVE  SentAcks' /\ acked \subseteq acked'
  <2>1. SetPeerOperational(e, m).out = {}
    BY DEF SetPeerOperational, Outcome
  <2>2. net' \subseteq net \cup {}
    BY <1>5, <2>1, TransmitNet DEF RecvRegisterAck
  <2>3. acked' = acked
    BY <1>5 DEF RecvRegisterAck
  <2>4. QED
    BY <1>1, <2>2, <2>3 DEF SentAcks
<1>6. ASSUME NEW e \in Edges, NEW mac, ReadFromTAP(e, mac)
      PROVE  SentAcks' /\ acked \subseteq acked'
  <2>1. PICK to : Transmit({}, {Datagram("PACKET", e, mac, sock[e], to)})
    BY <1>6 DEF ReadFromTAP
  <2> DEFINE sent == {Datagram("PACKET", e, mac, sock[e], to)}
  <2>2. net' \subseteq net \cup sent
    BY <2>1, TransmitNet
  <2>3. \A r \in sent : r.type # "REGISTER_ACK"
    BY DEF Datagram
  <2>4. acked' = acked
    BY <1>6 DEF ReadFromTAP
  <2> HIDE DEF sent
  <2>5. QED
    BY <1>2, <2>2, <2>3, <2>4
<1>7. ASSUME NEW m \in net, Relay(m) PROVE SentAcks' /\ acked \subseteq acked'
  <2> DEFINE targets == {f \in Edges \ {m.src} : /\ m.dst \in {f, Bcast}
                                                 /\ registry[f] # NoSock}
             stamped(f) == [m EXCEPT !.from = SN, !.to = registry[f],
                                     !.sup = TRUE, !.sock = m.from]
  <2>1. Transmit({m}, {stamped(f) : f \in targets}) /\ acked' = acked
    BY <1>7 DEF Relay
  <2>2. m.type = "PACKET" /\ (m \in Direct \/ m \in Relayed)
    BY <1>1, <1>7 DEF Relay, TypeOK
  <2>3. ASSUME NEW f PROVE stamped(f).type = "PACKET"
    BY <2>2 DEF Direct, Relayed
  <2> HIDE DEF stamped, targets
  <2>4. net' \subseteq net \cup {stamped(f) : f \in targets}
    BY <2>1, TransmitNet
  <2>5. \A r \in {stamped(f) : f \in targets} : r.type # "REGISTER_ACK"
    BY <2>3
  <2>6. QED
    BY <1>2, <2>1, <2>4, <2>5
<1>8. CASE UNCHANGED <<net, acked>>
  BY <1>1, <1>8 DEF SentAcks
<1>9. QED
  BY <1>3, <1>4, <1>5, <1>6, <1>7, <1>8
     DEF Next, RunLoop, Idle, RegisterSuper, Rebind, Restart, Tick, vars, tables

LEMMA InvStep == IInv /\ [Next]_vars => IInv'
<1> SUFFICES ASSUME IInv, [Next]_vars PROVE IInv'
  OBVIOUS
<1>1. TypeOK
  BY DEF IInv
<1>2. TypeOK'
  BY <1>1, TypeStep
<1>3. SentAcks' /\ acked \subseteq acked'
  BY SentAcksStep
<1> DEFINE Rest == OneEntry /\ AckProvenance /\ \A e \in Edges : PurgeClock(e)
<1>4. Rest
  BY DEF IInv
<1>5. ASSUME NEW e \in Edges, RunLoop(e) PROVE Rest'
  <2>1. now' = now
    BY <1>5 DEF RunLoop, RecvPacket, RecvRegister, RecvRegisterAck, ReadFromTAP, Idle
  <2>2. QED
    BY <1>3, <1>5, <2>1, RunLoopStep
<1>6. ASSUME UNCHANGED <<pending, known, lastPurge, looped, now>> PROVE Rest'
  <2>1. OneEntry'
    BY <1>4, <1>6 DEF OneEntry
  <2>2. AckProvenance'
    BY <1>3, <1>4, <1>6 DEF AckProvenance
  <2>3. (\A e \in Edges : PurgeClock(e))'
    BY <1>4, <1>6 DEF PurgeClock
  <2>4. QED
    BY <2>1, <2>2, <2>3
<1>7. ASSUME NEW e \in Edges, Restart(e) PROVE Rest'
  <2>1. OneEntry'
    BY <1>1, <1>4, <1>7 DEF Restart, OneEntry, OneEntryIn, TypeOK
  <2>2. AckProvenance'
    BY <1>1, <1>4, <1>7 DEF Restart, AckProvenance, TypeOK
  <2>3. ASSUME NEW d \in Edges PROVE PurgeClock(d)'
    <3>1. CASE d = e
      BY <1>1, <1>7, <3>1 DEF Restart, PurgeClock, TypeOK
    <3>2. CASE d # e
      BY <1>1, <1>4, <1>7, <3>2 DEF Restart, PurgeClock, TypeOK
    <3>3. QED
      BY <3>1, <3>2
  <2>4. QED
    BY <2>1, <2>2, <2>3
<1>8. ASSUME Tick PROVE Rest'
  <2>1. OneEntry' /\ AckProvenance'
    BY <1>4, <1>8 DEF Tick, OneEntry, AckProvenance
  <2>2. ASSUME NEW e \in Edges PROVE PurgeClock(e)'
    <3>1. PurgeClock(e) /\ looped[e] /\ lastPurge[e] \in Nat /\ now \in Nat
      BY <1>1, <1>4, <1>8 DEF Tick, TypeOK
    <3>2. /\ now' = now + 1 /\ looped'[e] = FALSE
          /\ known'[e] = known[e] /\ lastPurge'[e] = lastPurge[e]
      BY <1>8 DEF Tick
    <3>3. QED
      BY <3>1, <3>2, TimesAssumption DEF PurgeClock
  <2>3. QED
    BY <2>1, <2>2
<1>9. Rest'
  <2>1. CASE \/ \E e \in Edges : RegisterSuper(e)
             \/ \E m \in net : Relay(m)
             \/ \E e \in Edges, s \in Socks : Rebind(e, s)
             \/ UNCHANGED vars
    BY <1>6, <2>1 DEF RegisterSuper, Relay, Rebind, vars, tables
  <2> HIDE DEF Rest
  <2>2. QED
    BY <1>5, <1>7, <1>8, <2>1 DEF Next
<1>10. QED
  BY <1>2, <1>3, <1>9 DEF IInv

LEMMA Invariance == Spec => []IInv
BY InvInit, InvStep, PTL DEF Spec

---------------------------------------------------------------------------
(* The properties.                                                         *)

\* pending_peers and known_peers never hold two entries for one MAC.
THEOREM OneEntryPerMac == Spec => []OneEntry
<1>1. IInv => OneEntry
  BY DEF IInv
<1>2. QED
  BY <1>1, Invariance, PTL

\* Whoever gets frames directly has answered a REGISTER from that socket.
THEOREM KnownPeersAnswered == Spec => []AckProvenance
<1>1. IInv => AckProvenance
  BY DEF IInv
<1>2. QED
  BY <1>1, Invariance, PTL

\* A silent peer is forgotten after RegTimeout and one purge period.
THEOREM SilentPeersExpire == Spec => []KnownFresh
<1>1. IInv => KnownFresh
  <2> SUFFICES ASSUME IInv, NEW e \in Edges, NEW x \in known[e]
               PROVE  now - x.seen <= RegTimeout + PurgeFreq
    BY DEF KnownFresh
  <2>1. PurgeClock(e) /\ known[e] # {}
    BY DEF IInv
  <2>2. now \in Nat /\ lastPurge[e] \in Nat /\ x.seen \in Nat
    BY DEF IInv, TypeOK, Peer
  <2>3. QED
    BY <2>1, <2>2, TimesAssumption DEF PurgeClock
<1>2. QED
  BY <1>1, Invariance, PTL

\* A known peer keeps its socket until it is dropped: a new one has to be
\* acknowledged first.
THEOREM KnownPeersStay == Spec => NoMoveInPlace
<1> DEFINE Step == \A e \in Edges : \A p \in known[e], q \in known'[e] :
                      p.mac = q.mac => p.sock = q.sock
<1>1. IInv /\ [Next]_vars => Step
  <2> SUFFICES ASSUME IInv, [Next]_vars PROVE Step
    OBVIOUS
  <2>1. ASSUME NEW e \in Edges, NEW p \in known[e], NEW q \in known[e], p.mac = q.mac
        PROVE  p.sock = q.sock
    BY <2>1 DEF IInv, OneEntry, OneEntryIn
  <2>2. ASSUME NEW d \in Edges, RunLoop(d) PROVE Step
    <3>1. TypeOK
      BY DEF IInv
    <3>2. PICK k \in Tables, t \in Tables :
              EndLoop(d, k, t) /\ \A x \in k : Stays(d, x)
      BY <2>2, RunLoopTables
    <3>3. known'[d] \subseteq k /\ \A e \in Edges \ {d} : known'[e] = known[e]
      BY <3>1, <3>2, EndLoopTables
    <3>4. ASSUME NEW p \in known[d], NEW q \in known'[d], p.mac = q.mac
          PROVE  p.sock = q.sock
      <4>1. PICK y \in known[d] : y.mac = q.mac /\ y.sock = q.sock
        BY <3>2, <3>3, <3>4 DEF Stays, Has
      <4>2. QED
        BY <2>1, <3>4, <4>1
    <3>5. QED
      BY <2>1, <3>3, <3>4
  <2>3. ASSUME NEW d \in Edges, Restart(d) PROVE Step
    <3>1. known'[d] = {} /\ \A e \in Edges \ {d} : known'[e] = known[e]
      BY <2>3 DEF Restart, IInv, TypeOK
    <3>2. QED
      BY <2>1, <3>1
  <2>4. CASE UNCHANGED known
    BY <2>1, <2>4
  <2> HIDE DEF Step
  <2>5. QED
    BY <2>2, <2>3, <2>4 DEF Next, RegisterSuper, Relay, Rebind, Tick, vars, tables
<1>2. QED
  BY <1>1, Invariance, PTL DEF Spec, NoMoveInPlace

---------------------------------------------------------------------------
(* Who may take a peer out of known_peers.                                 *)

\* send_register names no destination, so that no REGISTER makes its receiver
\* look at the sender.
AnonymousRegisters == \A m \in net : m.type = "REGISTER" => m.dst = NoMac

\* What a handler leaves of the known peer p before the purge.
Kept(k, p) == \E x \in k : x.mac = p.mac /\ (x = p \/ x.seen = now)

\* check_peer drops a known peer only for a frame that came directly from
\* another socket, and registers with the new one.
LEMMA CheckPeerKeeps ==
    ASSUME TypeOK, OneEntry, NEW e \in Edges, NEW sup, NEW mac \in Edges, NEW s \in Socks,
           NEW p \in known[e]
    PROVE  LET c == CheckPeer(e, sup, mac, s)
           IN  \/ Kept(c.known, p)
               \/ ~sup /\ mac = p.mac /\ s # p.sock /\ Has(c.pending, mac)
<1> DEFINE new == PeerInfo(mac, s)
           rest == Without(known[e], mac)
<1>1. new.mac = mac /\ new.seen = now
  BY DEF PeerInfo
<1>2. \A x \in known[e] : x.mac = p.mac => x = p
  BY DEF OneEntry, OneEntryIn
<1>3. CASE p.mac # mac
  <2>1. p \in rest
    BY <1>3 DEF Without
  <2>2. rest \subseteq CheckPeer(e, sup, mac, s).known
    BY DEF CheckPeer, UpdatePeerAddress, TrySendRegister, Outcome, Without
  <2>3. QED
    BY <2>1, <2>2 DEF Kept
<1>4. CASE p.mac = mac /\ p.sock = s
  <2>1. CheckPeer(e, sup, mac, s).known = rest \cup {new}
    BY <1>4 DEF CheckPeer, UpdatePeerAddress, Outcome, Has
  <2>2. QED
    BY <1>1, <1>4, <2>1 DEF Kept
<1>5. CASE p.mac = mac /\ p.sock # s
  <2>1. Has(known[e], mac) /\ ~(\E x \in known[e] : x.mac = mac /\ x.sock = s)
    BY <1>2, <1>5 DEF Has
  <2>2. CASE sup
    <3>1. CheckPeer(e, sup, mac, s).known = known[e]
      BY <2>1, <2>2 DEF CheckPeer, UpdatePeerAddress, Outcome
    <3>2. QED
      BY <3>1 DEF Kept
  <2>3. CASE ~sup
    <3>1. CheckPeer(e, sup, mac, s) = TrySendRegister(e, rest, mac, s)
      BY <2>1, <2>3 DEF CheckPeer, UpdatePeerAddress
    <3>2. Has(TrySendRegister(e, rest, mac, s).pending, mac)
      BY <1>1 DEF TrySendRegister, Outcome, Has
    <3>3. QED
      BY <1>5, <2>3, <3>1, <3>2
  <2>4. QED
    BY <2>2, <2>3
<1>6. QED
  BY <1>3, <1>4, <1>5

LEMMA AnonymousStep == TypeOK /\ AnonymousRegisters /\ [Next]_vars => AnonymousRegisters'
<1> DEFINE Fine(sent) == \A r \in sent : r.type = "REGISTER" => r.dst = NoMac
<1> SUFFICES ASSUME TypeOK, AnonymousRegisters, [Next]_vars
             PROVE  \E sent : Fine(sent) /\ net' \subseteq net \cup sent
  BY DEF AnonymousRegisters
<1>1. ASSUME NEW e \in Edges, NEW mac \in Edges, NEW s \in Socks, NEW sup
      PROVE  Fine(CheckPeer(e, sup, mac, s).out)
  BY <1>1, CheckPeerTables
<1>2. ASSUME NEW e \in Edges, NEW m \in net, RecvPacket(e, m)
      PROVE  \E sent : Fine(sent) /\ net' \subseteq net \cup sent
  <2> DEFINE out == CheckPeer(e, m.sup, m.src, OrigSender(m)).out
  <2>1. m.src \in Edges /\ OrigSender(m) \in Socks
    BY <1>2, Sender DEF RecvPacket
  <2>2. Fine(out)
    BY <1>1, <2>1
  <2>3. Transmit({m}, out)
    BY <1>2 DEF RecvPacket
  <2> HIDE DEF out, Fine
  <2>4. QED
    BY <2>2, <2>3, TransmitNet
<1>3. ASSUME NEW e \in Edges, NEW m \in net, RecvRegister(e, m)
      PROVE  \E sent : Fine(sent) /\ net' \subseteq net \cup sent
  <2> DEFINE orig == OrigSender(m)
             c == IF m.dst = e THEN CheckPeer(e, m.sup, m.src, orig)
                               ELSE Outcome(known[e], pending[e], {})
             ack == Datagram("REGISTER_ACK", e, m.src, sock[e], orig)
  <2>1. m.src \in Edges /\ orig \in Socks
    BY <1>3, Sender DEF RecvRegister
  <2>2. Fine(c.out)
    BY <1>1, <2>1 DEF Outcome
  <2>3. ack.type # "REGISTER"
    BY DEF Datagram
  <2>4. Transmit({m}, c.out \cup {ack})
    BY <1>3 DEF RecvRegister
  <2> HIDE DEF c, ack
  <2>5. Fine(c.out \cup {ack})
    BY <2>2, <2>3
  <2> HIDE DEF Fine
  <2>6. QED
    BY <2>4, <2>5, TransmitNet
<1>4. ASSUME NEW e \in Edges, NEW m \in net, RecvRegisterAck(e, m)
      PROVE  \E sent : Fine(sent) /\ net' \subseteq net \cup sent
  <2>1. Transmit({m}, {})
    BY <1>4 DEF RecvRegisterAck, SetPeerOperational, Outcome
  <2>2. Fine({})
    OBVIOUS
  <2> HIDE DEF Fine
  <2>3. QED
    BY <2>1, <2>2, TransmitNet
<1>5. ASSUME NEW e \in Edges, NEW mac, ReadFromTAP(e, mac)
      PROVE  \E sent : Fine(sent) /\ net' \subseteq net \cup sent
  <2>1. PICK to : Transmit({}, {Datagram("PACKET", e, mac, sock[e], to)})
    BY <1>5 DEF ReadFromTAP
  <2>2. Fine({Datagram("PACKET", e, mac, sock[e], to)})
    BY DEF Datagram
  <2> HIDE DEF Fine
  <2>3. QED
    BY <2>1, <2>2, TransmitNet
<1>6. ASSUME NEW m \in net, Relay(m)
      PROVE  \E sent : Fine(sent) /\ net' \subseteq net \cup sent
  <2> DEFINE targets == {f \in Edges \ {m.src} : /\ m.dst \in {f, Bcast}
                                                 /\ registry[f] # NoSock}
             stamped(f) == [m EXCEPT !.from = SN, !.to = registry[f],
                                     !.sup = TRUE, !.sock = m.from]
             out == {stamped(f) : f \in targets}
  <2>1. Transmit({m}, out)
    BY <1>6 DEF Relay
  <2>2. m.type = "PACKET" /\ (m \in Direct \/ m \in Relayed)
    BY <1>6 DEF Relay, TypeOK
  <2>3. ASSUME NEW f PROVE stamped(f).type = "PACKET"
    BY <2>2 DEF Direct, Relayed
  <2> HIDE DEF stamped, targets
  <2>4. Fine(out)
    BY <2>3
  <2> HIDE DEF out, Fine
  <2>5. QED
    BY <2>1, <2>4, TransmitNet
<1>7. CASE UNCHANGED net
  <2>1. Fine({})
    OBVIOUS
  <2> HIDE DEF Fine
  <2>2. QED
    BY <1>7, <2>1
<1> HIDE DEF Fine
<1>8. QED
  BY <1>2, <1>3, <1>4, <1>5, <1>6, <1>7
     DEF Next, RunLoop, Idle, RegisterSuper, Rebind, Restart, Tick, vars, tables

\* In every reachable state a REGISTER in flight names nobody.
LEMMA Anonymous == Spec => []AnonymousRegisters
<1>1. Init => AnonymousRegisters
  BY DEF Init, AnonymousRegisters
<1>2. QED
  BY <1>1, AnonymousStep, TypeCorrect, PTL DEF Spec

\* What the purge makes of a peer that a handler kept.
LEMMA PurgeKeeps ==
    ASSUME TypeOK, NEW e \in Edges, NEW k \in Tables, NEW t \in Tables, EndLoop(e, k, t),
           NEW p \in known[e], Kept(k, p)
    PROVE  Has(known'[e], p.mac) \/ p.seen < now - RegTimeout
<1>1. PICK x \in k : x.mac = p.mac /\ (x = p \/ x.seen = now)
  BY DEF Kept
<1>2. known'[e] = k \/ known'[e] = {q \in k : q.seen >= now - RegTimeout}
  BY EndLoopClock
<1>3. now \in Nat /\ p.seen \in Nat
  BY DEF TypeOK, Peer
<1>4. QED
  BY <1>1, <1>2, <1>3, TimesAssumption DEF Has

\* One iteration of the loop takes a peer out of known_peers because of the
\* timeout, or because a frame came directly from another socket of it.
LEMMA RunLoopKeeps ==
    ASSUME IInv, AnonymousRegisters, NEW e \in Edges, RunLoop(e), NEW p \in known[e]
    PROVE  \/ Has(known'[e], p.mac)
           \/ p.seen < now - RegTimeout
           \/ MovedDirectly(e, p) /\ Has(pending'[e], p.mac)
<1> DEFINE Justified == \/ Has(known'[e], p.mac)
                        \/ p.seen < now - RegTimeout
                        \/ MovedDirectly(e, p) /\ Has(pending'[e], p.mac)
<1>1. TypeOK /\ OneEntry
  BY DEF IInv
<1>2. known[e] \in Tables /\ pending[e] \in Tables /\ Kept(known[e], p)
  BY <1>1 DEF TypeOK, Tables, Kept
<1>3. ASSUME EndLoop(e, known[e], pending[e]) PROVE Justified
  BY <1>1, <1>2, <1>3, PurgeKeeps
<1>4. ASSUME NEW m \in net, RecvPacket(e, m) PROVE Justified
  <2> DEFINE c == CheckPeer(e, m.sup, m.src, OrigSender(m))
  <2>1. m.src \in Edges /\ OrigSender(m) \in Socks
    BY <1>1, <1>4, Sender DEF RecvPacket
  <2>2. c.known \in Tables /\ c.pending \in Tables
    BY <1>1, <2>1, CheckPeerTables
  <2>3. EndLoop(e, c.known, c.pending)
    BY <1>4 DEF RecvPacket
  <2>4. \/ Kept(c.known, p)
        \/ ~m.sup /\ m.src = p.mac /\ OrigSender(m) # p.sock /\ Has(c.pending, m.src)
    BY <1>1, <2>1, CheckPeerKeeps
  <2> HIDE DEF c
  <2>5. pending'[e] = c.pending
    BY <1>1, <2>2, <2>3, EndLoopClock
  <2>6. CASE Kept(c.known, p)
    BY <1>1, <2>2, <2>3, <2>6, PurgeKeeps
  <2>7. CASE ~m.sup /\ m.src = p.mac /\ OrigSender(m) # p.sock /\ Has(c.pending, m.src)
    <3>1. m \in Direct
      BY <1>1, <2>7 DEF TypeOK, Relayed
    <3>2. OrigSender(m) = m.from
      BY <3>1 DEF OrigSender, Direct
    <3>3. MovedDirectly(e, p)
      BY <1>4, <2>7, <3>2 DEF MovedDirectly, RecvPacket, Arrives
    <3>4. QED
      BY <2>5, <2>7, <3>3
  <2>8. QED
    BY <2>4, <2>6, <2>7
<1>5. ASSUME NEW m \in net, RecvRegister(e, m) PROVE Justified
  <2>1. m.dst # e
    BY <1>5, AddressAssumption DEF RecvRegister, AnonymousRegisters
  <2>2. EndLoop(e, known[e], pending[e])
    BY <1>5, <2>1 DEF RecvRegister, Outcome
  <2>3. QED
    BY <1>3, <2>2
<1>6. ASSUME NEW m \in net, RecvRegisterAck(e, m) PROVE Justified
  <2> DEFINE c == SetPeerOperational(e, m)
  <2>1. known[e] \subseteq c.known
    BY DEF SetPeerOperational, Outcome
  <2>2. m.src \in Edges /\ m.from \in Socks
    BY <1>1, <1>6, Sender DEF RecvRegisterAck
  <2>3. PeerInfo(m.src, m.from) \in Peer
    BY <1>1, <2>2 DEF PeerInfo, Peer, TypeOK
  <2>4. c.known \in Tables /\ c.pending \in Tables
    BY <1>2, <2>3 DEF SetPeerOperational, Outcome, Without, Tables
  <2>5. EndLoop(e, c.known, c.pending)
    BY <1>6 DEF RecvRegisterAck
  <2> HIDE DEF c
  <2>6. Kept(c.known, p)
    BY <2>1 DEF Kept
  <2>7. QED
    BY <1>1, <2>4, <2>5, <2>6, PurgeKeeps
<1>7. CASE \E mac \in Edges \cup {Bcast} : ReadFromTAP(e, mac)
  BY <1>3, <1>7 DEF ReadFromTAP
<1>8. CASE Idle(e)
  BY <1>3, <1>8 DEF Idle
<1>9. CASE \E m \in net : RecvPacket(e, m) \/ RecvRegister(e, m) \/ RecvRegisterAck(e, m)
  <2>1. PICK m \in net : RecvPacket(e, m) \/ RecvRegister(e, m) \/ RecvRegisterAck(e, m)
    BY <1>9
  <2>2. QED
    BY <1>4, <1>5, <1>6, <2>1
<1>10. QED
  BY <1>7, <1>8, <1>9 DEF RunLoop

\* Only the timeout, a restart, or a direct frame from another socket makes an
\* edge forget a peer; what a supernode reports never does.
THEOREM PeersAreKept == Spec => EvictionJustified
<1> DEFINE Step == \A e \in Edges : \A p \in known[e] :
                      \/ Has(known'[e], p.mac)
                      \/ p.seen < now - RegTimeout
                      \/ known'[e] = {} /\ pending'[e] = {} /\ moves' = moves + 1
                      \/ MovedDirectly(e, p) /\ Has(pending'[e], p.mac)
<1>1. IInv /\ AnonymousRegisters /\ [Next]_vars => Step
  <2> SUFFICES ASSUME IInv, AnonymousRegisters, [Next]_vars PROVE Step
    OBVIOUS
  <2>1. ASSUME NEW d \in Edges, RunLoop(d) PROVE Step
    <3>1. TypeOK
      BY DEF IInv
    <3>2. PICK k \in Tables, t \in Tables : EndLoop(d, k, t)
      BY <2>1, RunLoopTables
    <3>3. \A e \in Edges \ {d} : known'[e] = known[e]
      BY <3>1, <3>2, EndLoopTables
    <3>4. QED
      BY <2>1, <3>3, RunLoopKeeps DEF Has
  <2>2. ASSUME NEW d \in Edges, Restart(d) PROVE Step
    <3>1. /\ known'[d] = {} /\ pending'[d] = {} /\ moves' = moves + 1
          /\ \A e \in Edges \ {d} : known'[e] = known[e]
      BY <2>2 DEF Restart, IInv, TypeOK
    <3>2. QED
      BY <3>1 DEF Has
  <2>3. CASE UNCHANGED known
    BY <2>3 DEF Has
  <2> HIDE DEF Step
  <2>4. QED
    BY <2>1, <2>2, <2>3 DEF Next, RegisterSuper, Relay, Rebind, Tick, vars, tables
<1>2. QED
  BY <1>1, Invariance, Anonymous, PTL DEF Spec, EvictionJustified

---------------------------------------------------------------------------
(* What the shared last_purge amounts to.                                  *)

\* A pending peer leaves the table by its REGISTER_ACK or with the process.
LeavesOnlyAnswered(e, p) ==
    \/ p \in pending'[e]
    \/ \E m \in net : RecvRegisterAck(e, m) /\ m.src = p.mac
    \/ Restart(e)

LEMMA RunLoopPending ==
    ASSUME IInv, NEW e \in Edges, RunLoop(e), NEW p \in pending[e]
    PROVE  LeavesOnlyAnswered(e, p)
<1>1. TypeOK
  BY DEF IInv
<1>2. known[e] \in Tables /\ pending[e] \in Tables
  BY <1>1 DEF TypeOK, Tables
<1>3. ASSUME NEW k \in Tables, NEW t \in Tables, EndLoop(e, k, t), p \in t
      PROVE  LeavesOnlyAnswered(e, p)
  <2>1. pending'[e] = t
    BY <1>1, <1>3, EndLoopClock
  <2>2. p \in pending'[e]
    BY <1>3, <2>1
  <2>3. QED
    BY <2>2 DEF LeavesOnlyAnswered
<1>4. ASSUME EndLoop(e, known[e], pending[e]) PROVE LeavesOnlyAnswered(e, p)
  BY <1>2, <1>3, <1>4
<1>5. ASSUME NEW sup, NEW mac \in Edges, NEW s \in Socks,
             EndLoop(e, CheckPeer(e, sup, mac, s).known, CheckPeer(e, sup, mac, s).pending)
      PROVE  LeavesOnlyAnswered(e, p)
  <2> DEFINE c == CheckPeer(e, sup, mac, s)
  <2>1. c.known \in Tables /\ c.pending \in Tables
    BY <1>1, CheckPeerTables
  <2>2. p \in c.pending
    BY DEF CheckPeer, UpdatePeerAddress, TrySendRegister, Outcome
  <2>3. EndLoop(e, c.known, c.pending)
    BY <1>5
  <2> HIDE DEF c
  <2>4. QED
    BY <1>3, <2>1, <2>2, <2>3
<1>6. ASSUME NEW m \in net, RecvPacket(e, m) PROVE LeavesOnlyAnswered(e, p)
  <2>1. m.src \in Edges /\ OrigSender(m) \in Socks
    BY <1>1, <1>6, Sender DEF RecvPacket
  <2>2. EndLoop(e, CheckPeer(e, m.sup, m.src, OrigSender(m)).known,
                   CheckPeer(e, m.sup, m.src, OrigSender(m)).pending)
    BY <1>6 DEF RecvPacket
  <2>3. QED
    BY <1>5, <2>1, <2>2
<1>7. ASSUME NEW m \in net, RecvRegister(e, m) PROVE LeavesOnlyAnswered(e, p)
  <2>1. m.src \in Edges /\ OrigSender(m) \in Socks
    BY <1>1, <1>7, Sender DEF RecvRegister
  <2>2. CASE m.dst = e
    <3>1. EndLoop(e, CheckPeer(e, m.sup, m.src, OrigSender(m)).known,
                     CheckPeer(e, m.sup, m.src, OrigSender(m)).pending)
      BY <1>7, <2>2 DEF RecvRegister
    <3>2. QED
      BY <1>5, <2>1, <3>1
  <2>3. CASE m.dst # e
    <3>1. EndLoop(e, known[e], pending[e])
      BY <1>7, <2>3 DEF RecvRegister, Outcome
    <3>2. QED
      BY <1>4, <3>1
  <2>4. QED
    BY <2>2, <2>3
<1>8. ASSUME NEW m \in net, RecvRegisterAck(e, m) PROVE LeavesOnlyAnswered(e, p)
  <2>1. CASE m.src = p.mac
    BY <1>8, <2>1 DEF LeavesOnlyAnswered
  <2>2. CASE m.src # p.mac
    <3> DEFINE c == SetPeerOperational(e, m)
    <3>1. m.src \in Edges /\ m.from \in Socks
      BY <1>1, <1>8, Sender DEF RecvRegisterAck
    <3>2. PeerInfo(m.src, m.from) \in Peer
      BY <1>1, <3>1 DEF PeerInfo, Peer, TypeOK
    <3>3. c.known \in Tables /\ c.pending \in Tables
      BY <1>2, <3>2 DEF SetPeerOperational, Outcome, Without, Tables
    <3>4. p \in c.pending
      BY <2>2 DEF SetPeerOperational, Outcome, Without
    <3>5. EndLoop(e, c.known, c.pending)
      BY <1>8 DEF RecvRegisterAck
    <3> HIDE DEF c
    <3>6. QED
      BY <1>3, <3>3, <3>4, <3>5
  <2>3. QED
    BY <2>1, <2>2
<1>9. CASE \E m \in net : RecvPacket(e, m) \/ RecvRegister(e, m) \/ RecvRegisterAck(e, m)
  <2>1. PICK m \in net : RecvPacket(e, m) \/ RecvRegister(e, m) \/ RecvRegisterAck(e, m)
    BY <1>9
  <2>2. QED
    BY <1>6, <1>7, <1>8, <2>1
<1>10. CASE \E mac \in Edges \cup {Bcast} : ReadFromTAP(e, mac)
  BY <1>4, <1>10 DEF ReadFromTAP
<1>11. CASE Idle(e)
  BY <1>4, <1>11 DEF Idle
<1>12. QED
  BY <1>9, <1>10, <1>11 DEF RunLoop

\* Whatever the timeouts are, no purge takes an entry out of pending_peers:
\* both calls in run_loop share last_purge, and the second is never due.
THEOREM PendingNeverPurged ==
    Spec => [][\A e \in Edges : \A p \in pending[e] : LeavesOnlyAnswered(e, p)]_vars
<1> DEFINE Step == \A e \in Edges : \A p \in pending[e] : LeavesOnlyAnswered(e, p)
<1>1. IInv /\ [Next]_vars => Step
  <2> SUFFICES ASSUME IInv, [Next]_vars PROVE Step
    OBVIOUS
  <2>1. ASSUME NEW d \in Edges, RunLoop(d) PROVE Step
    <3>1. TypeOK
      BY DEF IInv
    <3>2. PICK k \in Tables, t \in Tables : EndLoop(d, k, t)
      BY <2>1, RunLoopTables
    <3>3. \A e \in Edges \ {d} : pending'[e] = pending[e]
      BY <3>1, <3>2, EndLoopTables
    <3>4. QED
      BY <2>1, <3>3, RunLoopPending DEF LeavesOnlyAnswered
  <2>2. ASSUME NEW d \in Edges, Restart(d) PROVE Step
    <3>1. \A e \in Edges \ {d} : pending'[e] = pending[e]
      BY <2>2 DEF Restart, IInv, TypeOK
    <3>2. QED
      BY <2>2, <3>1 DEF LeavesOnlyAnswered
  <2>3. CASE UNCHANGED pending
    BY <2>3 DEF LeavesOnlyAnswered
  <2> HIDE DEF Step
  <2>4. QED
    BY <2>1, <2>2, <2>3 DEF Next, RegisterSuper, Relay, Rebind, Tick, vars, tables
<1>2. QED
  BY <1>1, Invariance, PTL DEF Spec

=============================================================================
