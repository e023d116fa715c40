------------------------------- MODULE Frames -------------------------------
(***************************************************************************)
(* A frame's way from one TAP device to another, in bytes: transform,      *)
(* header, the supernode's new header, header and transform backwards.     *)
(* And the handshake of two edges, in bytes.                               *)
(*                                                                         *)
(* Which datagrams go directly, and to which socket, is decided in         *)
(* EdgePeers; which frames are read from the TAP device, to which edges    *)
(* the supernode relays them and who registers is in SnRelay: here a frame *)
(* may take either way, and every edge is registered.                      *)
(***************************************************************************)
EXTENDS Datagrams, Transforms

CONSTANTS
    Edges,        \* edges of one community
    Mac,          \* Mac[e]
    Sock,         \* Sock[e]: n2n_sock_t of its public socket
    Community,    \* name
    TapFrames,    \* TapFrames[e]: frames that may be read from e's TAP device
    Nonces,       \* what rand() may return
    Junk          \* what memory may hold where the two vectors of AES are: pairs

ASSUME FramesAssumption ==
    /\ SnSock \in Sockets /\ Community \in CommNames
    /\ \A e \in Edges :
        /\ IsBytes(Mac[e], 6)
        /\ Sock[e] \in IPv4 /\ Sock[e] # SnSock
        /\ \A f \in TapFrames[e] : f \in Seq(Byte) /\ Len(f) \in 14..PktBuf
    /\ \A n \in Nonces : IsBytes(n, NONCE)
    /\ \A j \in Junk : IsBytes(j[1], BLOCK) /\ IsBytes(j[2], BLOCK)

VARIABLES
    mode,         \* transform of the community
    enc,          \* enc[e]: sa->enc_tf, sa->enc_ivec
    dec,          \* dec[e]: sa->dec_tf, sa->dec_ivec
    wild,         \* who has left its memory: past the end of a buffer, or before the
                  \* first entry of a table, and the frames that led there
    tap           \* history: what the last step wrote to a TAP device

framesVars == <<mode, enc, dec, wild, tap>>

Wild(at, past, frame) == [at |-> at, past |-> past, frame |-> frame]

\* What the edge does after it took an entry that is none is not defined: it takes
\* no further step here.
Runs(e) == \A w \in wild : w.at = Sock[e] => w.past # "table"

\* A write past the end of a buffer goes unnoticed, or ends the process once the
\* datagram has been sent: then it takes no further step, as it may at any time.
Overruns(at, frame, over) ==
    wild' = IF over THEN wild \cup {Wild(at, "buffer", frame)} ELSE wild

Common(pc) == [ttl |-> 2, pc |-> pc, flags |-> 0, community |-> Padded(Community)]

---------------------------------------------------------------------------
(* Frames.                                                                 *)

\* Variants: definitions named ...Variant are not part of the specification;
\* each is a plausible mistake in the definition that follows it.

\* the header counts twice
RoomVariant(idx) == (PktBuf - idx) - idx

\* N2N_PKT_BUF_SIZE-idx
Room(idx) == PktBuf - idx

\* send_packet2net, send_PACKET.  The length a transform returns is added to idx
\* unchecked: -1 takes away the last byte of the header, and that is sent.
SendFrame(e, frame, nonce, to) ==
    LET msg == [srcMac |-> Mac[e], dstMac |-> SubSeq(frame, 1, 6), sock |-> NoSock, transform |-> mode]
        d(out) == N2NDatagram(Sock[e], to, Common(PC.PACKET), msg, out, frame)
    IN  /\ Runs(e)
        /\ \E room \in {Room(Len(EncodeN2N(Common(PC.PACKET), msg)))} :
           \E r \in {Fwd(mode, enc[e], frame, nonce, room)} :
              /\ Originate({IF r.ok THEN d(r.out)
                            ELSE [d(r.out) EXCEPT !.cut = TRUE, !.bytes = SubSeq(@, 1, Len(@) - 1)]})
              /\ Overruns(Sock[e], frame, Len(r.out) > room)
              /\ enc' = [enc EXCEPT ![e] = r.ctx]
        /\ tap' = {}
        /\ UNCHANGED <<mode, dec>>

\* process_udp on a PACKET: the header is encoded anew, with the sender's socket,
\* and the rest of the datagram copied behind it.
Relayed(d, p, to) ==
    LET cmn == [p.cmn EXCEPT !.ttl = @ - 1, !.flags = N2N_FLAGS_SOCKET + N2N_FLAGS_FROM_SUPERNODE]
        r   == N2NDatagram(SnSock, to, cmn, [p.msg EXCEPT !.sock = d.from], p.rest, d.meant.frame)
    IN  [r EXCEPT !.cut = d.cut]

\* process_udp, with try_forward and try_broadcast: whether encbuf holds the
\* longer header and the payload is not looked at.
RelayFrame(d) ==
    /\ d.to = SnSock
    /\ \E p \in {Parse(d)} :
        /\ p.ok /\ p.cmn.pc = PC.PACKET
        /\ Answer({Relayed(d, p, Sock[e]) : e \in IF p.msg.dstMac = [i \in 1..6 |-> 255]
                                                   THEN {x \in Edges : Sock[x] # d.from}
                                                   ELSE {x \in Edges : Mac[x] = p.msg.dstMac}})
        /\ Overruns(SnSock, d.meant.frame, Len(Relayed(d, p, SnSock).bytes) > PktBuf)
    /\ tap' = {}
    /\ UNCHANGED <<mode, enc, dec>>

\* readFromIPSocket, handle_PACKET.  The index -1 of an unknown transform is kept
\* in an unsigned variable and passes for one.
RecvFrame(e, d) ==
    /\ Runs(e) /\ d.to = Sock[e]
    /\ \E p \in {Parse(d)} :
        /\ p.ok /\ p.cmn.pc = PC.PACKET /\ p.cmn.community = Padded(Community)
        /\ IF InTable(p.msg.transform)
           THEN /\ \E r \in {Rev(p.msg.transform, dec[e], p.rest)} :
                    /\ dec' = [dec EXCEPT ![e] = r.ctx]
                    /\ tap' = {[at |-> e, sent |-> d.meant.frame, got |-> r.out, relayed |-> d.from = SnSock]}
                /\ UNCHANGED wild
           ELSE /\ wild' = wild \cup {Wild(Sock[e], "table", d.meant.frame)}
                /\ tap' = {}
                /\ UNCHANGED dec
    /\ Answer({})
    /\ UNCHANGED <<mode, enc>>

---------------------------------------------------------------------------
(* Handshakes.                                                             *)

\* send_register
SendRegister(e, to) ==
    LET msg == [cookie |-> Bytes(123456789, 4), srcMac |-> Mac[e], dstMac |-> Zeros(6), sock |-> NoSock]
    IN  /\ Runs(e)
        /\ Originate({N2NDatagram(Sock[e], to, Common(PC.REGISTER), msg, <<>>, <<>>)})
        /\ tap' = {}
        /\ UNCHANGED <<mode, enc, dec, wild>>

\* readFromIPSocket on a REGISTER, send_register_ack
RecvRegister(e, d) ==
    LET ack(reg) == [cookie |-> reg.cookie, srcMac |-> Mac[e], dstMac |-> reg.srcMac, sock |-> NoSock]
    IN  /\ Runs(e) /\ d.to = Sock[e]
        /\ \E p \in {Parse(d)} :
            /\ p.ok /\ p.cmn.pc = PC.REGISTER /\ p.cmn.community = Padded(Community)
            /\ Answer({N2NDatagram(Sock[e], d.from, Common(PC.REGISTER_ACK), ack(p.msg), <<>>, <<>>)})
        /\ tap' = {}
        /\ UNCHANGED <<mode, enc, dec, wild>>

---------------------------------------------------------------------------
FramesInit ==
    /\ mode \in {TRANSFORM.NULL, TRANSFORM.TWOFISH, TRANSFORM.AESCBC}
    /\ \E j \in IF mode = TRANSFORM.AESCBC THEN Junk ELSE {<<Zeros(BLOCK), Zeros(BLOCK)>>} :
        /\ enc = [e \in Edges |-> [CipherState EXCEPT !.ivec = j[1]]]
        /\ dec = [e \in Edges |-> [CipherState EXCEPT !.ivec = j[2]]]
    /\ wild = {}
    /\ tap = {}

FramesNext ==
    \/ \E e \in Edges :
        \/ \E frame \in TapFrames[e], nonce \in Nonces, to \in {SnSock} \cup {Sock[x] : x \in Edges \ {e}} :
              SendFrame(e, frame, nonce, to)
        \/ \E x \in Edges \ {e} : SendRegister(e, Sock[x])
    \/ \E d \in {x \in net : ~x.snm} :
        \/ RelayFrame(d)
        \/ \E e \in Edges : RecvFrame(e, d) \/ RecvRegister(e, d)

FramesTypeOK ==
    /\ mode \in {TRANSFORM.NULL, TRANSFORM.TWOFISH, TRANSFORM.AESCBC}
    /\ \A c \in {enc[e] : e \in Edges} \cup {dec[e] : e \in Edges} :
        /\ Len(c.ivec) = BLOCK /\ Len(c.tf.plain) = BLOCK /\ Len(c.tf.crypt) = BLOCK
        /\ c.tf.output = <<>>
    /\ \A w \in wild : w.at \in {SnSock} \cup {Sock[e] : e \in Edges} /\ w.past \in {"table", "buffer"}
    /\ \A t \in tap : t.at \in Edges

---------------------------------------------------------------------------
(* Properties.                                                             *)

\* The length of what a transform makes of a frame, and of the datagram the frame
\* needs on its way, directly or by a relay: behind a header, and the sender's
\* socket.
Payload(transform, frame) ==
    CASE transform = TRANSFORM.NULL    -> Len(frame)
      [] transform = TRANSFORM.TWOFISH -> OVERHEAD + NONCE + Len(frame)
      [] transform = TRANSFORM.AESCBC  -> OVERHEAD + BLOCK * ((NONCE + Len(frame)) \div BLOCK + 1)

Needs(frame, relayed) == (IF relayed THEN 42 ELSE 34) + Payload(mode, frame)

\* What an edge writes to its TAP device is the frame another edge read from its
\* own, if the buffers hold the datagram it needs, to the last byte of them: in
\* any order, after losses and with duplicates, whatever the ciphers remember
\* from the packets before, those that were cut off by recvfrom among them.  AES
\* keeps this promise except for the first 12 bytes, the two MACs: the vector is
\* not cleared as a whole, so that they come out right only after the packet that
\* was sent before.
FramesIntact ==
    \A t \in tap :
        Needs(t.sent, t.relayed) <= PktBuf =>
            /\ Len(t.got) = Len(t.sent)
            /\ \A i \in DOMAIN t.sent : t.got[i] = t.sent[i] \/ (mode = TRANSFORM.AESCBC /\ i <= 12)

\* An edge or supernode leaves its memory - an edge past the end of the buffer it
\* encodes in, or into what precedes its table of transforms, a supernode past
\* the end of the buffer it relays from - only on account of a frame whose
\* datagram no buffer holds: that of the sender, or for the supernode the longer
\* one it sends on.  edge.c:1637 and transform_aes.c:137 check less than this, and
\* sn.c:844 nothing at all.
OnlyOversizeBreaks ==
    \A w \in wild : Needs(w.frame, w.at = SnSock) > PktBuf

=============================================================================
