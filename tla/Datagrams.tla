----------------------------- MODULE Datagrams -----------------------------
(***************************************************************************)
(* The network below the modules Frames and SnComms: datagrams of real     *)
(* bytes, each with what its sender meant by them.                         *)
(*                                                                         *)
(* A datagram that was sent can be received at any later time, once,       *)
(* several times or never, and in any order with the others.               *)
(***************************************************************************)
EXTENDS Wire

CONSTANTS
    SnSock,        \* the socket of the supernode for edges, as they see it
    MaxSends       \* bound: datagrams sent that are not the answer to another one

ASSUME SendsAssumption == MaxSends \in Nat

VARIABLES
    net,           \* datagrams sent so far
    sends          \* how many of them are not answers

\* A datagram for the main sockets of edges and supernodes: cmn and msg, and
\* what follows them.  `cut` if it lost its last byte (see Frames).
N2NDatagram(from, to, cmn, msg, rest, frame) ==
    [snm |-> FALSE, from |-> from, to |-> to, bytes |-> EncodeN2N(cmn, msg) \o rest, cut |-> FALSE,
     meant |-> [cmn |-> cmn, msg |-> msg, rest |-> rest, frame |-> frame]]

\* A datagram for the SNM sockets.
SnmDatagram(from, to, hdr, msg) ==
    [snm |-> TRUE, from |-> from, to |-> to, bytes |-> EncodeSnm(hdr, msg), cut |-> FALSE,
     meant |-> [hdr |-> hdr, msg |-> msg]]

\* What a receiver makes of a datagram.
WholeN2N(c, r, b) ==
    [ok |-> c.ok, cmn |-> c.cmn, msg |-> r[1], rest |-> SubSeq(b, r[2] + 1, Len(b))]
ParseBody(c, b) == WholeN2N(c, DecodeN2N(c.cmn, b, c.idx), b)
ParseBytes(b) == ParseBody(DecodeCommon(b), b)
Parse(d) == ParseBytes(Received(d.bytes))

ParseSnm(d) == DecodeSnm(Received(d.bytes))

N2N_COMMUNITY_SIZE == 16

\* cmn.community: the name, filled up with zeroes.
Padded(name) == name \o Zeros(N2N_COMMUNITY_SIZE - Len(name))

Originate(ds) ==
    /\ sends < MaxSends
    /\ sends' = sends + 1
    /\ net' = net \cup ds

Answer(ds) == net' = net \cup ds /\ UNCHANGED sends

---------------------------------------------------------------------------
(* What a datagram may say.                                                *)

\* The numbers of a field of n bytes.
Word == {v \in Nat : v < 65536}
Numbers(n) == IF n = 1 THEN Byte ELSE Word

IPv4 == [family : {AF_INET}, port : Numbers(2), addr : [1..4 -> Byte]]
IPv6 == [family : {AF_INET6}, port : Numbers(2), addr : [1..16 -> Byte]]
Sockets == IPv4 \cup IPv6
CommNames == {x \in Seq(Byte) : Len(x) <= N2N_COMMUNITY_SIZE}

BytesOf(n) == {x \in Seq(Byte) : IsBytes(x, n)}

CommonParts ==
    [ttl : Byte, pc : {PC[x] : x \in DOMAIN PC}, flags : {w \in Word : w % 32 = 0},
     community : BytesOf(N2N_COMMUNITY_SIZE)]

\* The messages of a type that can be written.
Messages(pc) ==
    CASE pc \in {PC.REGISTER, PC.REGISTER_ACK} ->
             [cookie : BytesOf(4), srcMac : BytesOf(6), dstMac : BytesOf(6), sock : Sockets \cup {NoSock}]
      [] pc = PC.PACKET ->
             [srcMac : BytesOf(6), dstMac : BytesOf(6), sock : Sockets \cup {NoSock}, transform : Numbers(2)]
      [] pc = PC.REGISTER_SUPER ->
             {m \in [cookie : BytesOf(4), edgeMac : BytesOf(6), scheme : Numbers(2), toksize : Numbers(2),
                     token : Seq(Byte)] : IsBytes(m.token, m.toksize)}
      [] pc = PC.REGISTER_SUPER_ACK ->
             {m \in [cookie : BytesOf(4), edgeMac : BytesOf(6), lifetime : Numbers(2), sock : Sockets,
                     num_sn : Numbers(1), sn_bak : Seq(Sockets)] : m.num_sn = Len(m.sn_bak)}

\* The flag says whether there is a socket.
N2NSays(c, m) ==
    /\ c \in CommonParts /\ m \in Messages(c.pc)
    /\ HasOptionalSock(c.pc) => (Has(c.flags, N2N_FLAGS_SOCKET) <=> m.sock.family # 0)

Headers == [type : {SNM[x] : x \in DOMAIN SNM}, flags : Numbers(1), seq_num : Numbers(2)]

\* The flags say which lists there are, the counts how long they are.
Listed(there, n, list) == IF there THEN n = Len(list) ELSE list = <<>>
NamesListed(there, m) == Listed(there, m.comm_num, m.comm_ptr) /\ (m.comm_num = 0 \/ there)

SnmMessages(type, flags) ==
    CASE type = SNM.REQ ->
             {m \in [comm_num : Numbers(2), comm_ptr : Seq(CommNames)] : NamesListed(Has(flags, N_FLAG), m)}
      [] type = SNM.RSP ->
             {m \in [sn_num : Numbers(2), comm_num : Numbers(2), sn_ptr : Seq(Sockets), comm_ptr : Seq(CommNames)] :
                 /\ Listed(Has(flags, S_FLAG) \/ Has(flags, A_FLAG), m.sn_num, m.sn_ptr)
                 /\ Listed(Has(flags, C_FLAG) \/ Has(flags, N_FLAG), m.comm_num, m.comm_ptr)}
      [] type = SNM.ADV ->
             {m \in [sn : Sockets, comm_num : Numbers(2), comm_ptr : Seq(CommNames)] :
                 NamesListed(Has(flags, N_FLAG), m)}

SnmSays(h, m) == h \in Headers /\ m \in SnmMessages(h.type, h.flags)

\* What edges and supernodes mean to say can be said: every field fits into its
\* bytes, the flags say which of the optional parts there are, and the counts
\* how long the lists are - also in the headers that a supernode writes anew and
\* in answers whose flags are put together from those of a request (sn.c,
\* sn_multiple.c).  No list is too long for the buffer its message is encoded in,
\* which the code does not look at; what becomes of long frames is in Frames.
Sayable ==
    \A d \in net :
        ~d.cut =>
            IF d.snm THEN /\ SnmSays(d.meant.hdr, d.meant.msg)
                          /\ d.bytes = EncodeSnm(d.meant.hdr, d.meant.msg) /\ Len(d.bytes) <= PktBuf
            ELSE /\ N2NSays(d.meant.cmn, d.meant.msg) /\ d.meant.rest \in Seq(Byte)
                 /\ d.bytes = EncodeN2N(d.meant.cmn, d.meant.msg) \o d.meant.rest
                 /\ d.meant.cmn.pc # PC.PACKET => Len(d.bytes) <= PktBuf

DatagramsTypeOK ==
    /\ sends \in 0..MaxSends
    /\ \A d \in net : \A i \in DOMAIN d.bytes : d.bytes[i] \in Byte
    /\ Sayable

\* Whatever edges and supernodes say to each other in a datagram that the buffer
\* of its receiver holds is understood: the receiver gets every field the sender
\* filled in, from the same bytes, and nothing is left over or missing at the end
\* - with optional sockets, flags that say which parts follow, and lists of any
\* length (wire.c, sn_multiple_wire.c).
Understood ==
    \A d \in net :
        ~d.cut /\ Len(d.bytes) <= PktBuf =>
            IF d.snm THEN ParseSnm(d) = [hdr |-> d.meant.hdr, msg |-> d.meant.msg, idx |-> Len(d.bytes)]
            ELSE Parse(d) = [ok |-> TRUE, cmn |-> d.meant.cmn, msg |-> d.meant.msg, rest |-> d.meant.rest]

=============================================================================
