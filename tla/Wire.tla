------------------------------- MODULE Wire -------------------------------
(***************************************************************************)
(* What datagrams look like: the encoders and decoders of wire.c and       *)
(* sn_multiple_wire.c, with the sizes of the program.                      *)
(*                                                                         *)
(* A message is a record.  Its layout is the sequence of its fields in the *)
(* order in which encode_X writes them and decode_X reads them, each of    *)
(* them <<name, kind, argument>>:                                          *)
(*                                                                         *)
(*   "num", n     an integer in n bytes, the first one the most significant *)
(*   "buf", n     n bytes                                                  *)
(*   "bytes", f   as many bytes as the field f says                        *)
(*   "sock", 0    a socket: 2 bytes of family, 2 of port, the address      *)
(*   "socks", f   as many sockets as the field f says                      *)
(*   "names", f   as many community names as f says, each after its length *)
(*                                                                         *)
(* A decoder never reads past the end of a datagram: a field that is not   *)
(* there as a whole keeps the value it had.                                *)
(***************************************************************************)
EXTENDS Octets, SequencesExt

CONSTANT PktBuf   \* N2N_PKT_BUF_SIZE, N2N_SN_PKTBUF_SIZE

\* A buffer holds every message without a payload or a list.
ASSUME WireAssumption == PktBuf \in Nat /\ PktBuf >= 64

AF_INET  == 2
AF_INET6 == 10

Zeros(n) == [i \in 1..n |-> 0]

\* recvfrom: what is left of a datagram in a buffer of PktBuf bytes
Received(bytes) == IF Len(bytes) <= PktBuf THEN bytes ELSE SubSeq(bytes, 1, PktBuf)

NoSock == [family |-> 0, port |-> 0, addr |-> Zeros(4)]

\* Variants: definitions named ...Variant are not part of the specification;
\* each is a plausible mistake in the definition that follows it.

\* the higher bytes are not cut to their width
BytesVariant(v, n) == [i \in 1..n |-> v \div 256^(n - i)]

\* encode_uint8, encode_uint16, encode_uint32
Bytes(v, n) == [i \in 1..n |-> (v \div 256^(n - i)) % 256]

\* decode_uint8, decode_uint16, decode_uint32
Number(bytes) == FoldLeft(LAMBDA v, b : 256 * v + b, 0, bytes)

\* decode_buf: n bytes of b after the first i, if there are so many; `old` if not.
Take(b, i, n, old) == IF i + n <= Len(b) THEN <<SubSeq(b, i + 1, i + n), i + n>> ELSE <<old, i>>

NumberOf(r) == <<Number(r[1]), r[2]>>
TakeNum(b, i, n, old) == NumberOf(Take(b, i, n, Bytes(old, n)))

---------------------------------------------------------------------------
(* Sockets.                                                                *)

\* encode_sock
PutSock(s) == Bytes(IF s.family = AF_INET THEN 0 ELSE 32768, 2) \o Bytes(s.port, 2) \o s.addr

\* What follows the family: port, and the address.
SockOf(v6, port, addr) ==
    <<[family |-> IF v6 THEN AF_INET6 ELSE AF_INET, port |-> port[1], addr |-> addr[1]], addr[2]>>
TakeAddr(b, v6, port, old) ==
    SockOf(v6, port, Take(b, port[2], IF v6 THEN 16 ELSE 4, IF v6 THEN old.addr ELSE Zeros(4)))
TakePort(b, family, old) ==
    TakeAddr(b, family[1] >= 32768, TakeNum(b, family[2], 2, old.port), old)

\* the port is read before the family
TakeSockVariant(b, i, old) ==
    TakeAddr(b, TakeNum(b, i + 2, 2, 0)[1] >= 32768, <<TakeNum(b, i, 2, old.port)[1], i + 4>>, old)

\* decode_sock.  The variable for the family is not initialised; no datagram of
\* the models ends where one is expected.
TakeSock(b, i, old) == TakePort(b, TakeNum(b, i, 2, 0), old)

---------------------------------------------------------------------------
(* Community names of the supernodes' messages, without their padding.     *)

\* encode_SNM_comm
PutName(name) == Bytes(Len(name), 1) \o name

\* decode_SNM_comm
TakeSized(b, size) == Take(b, size[2], size[1], <<>>)
TakeName(b, i) == TakeSized(b, TakeNum(b, i, 1, 0))

\* alloc_array and the loops behind it: n sockets or names
AppendItem(items, r) == <<Append(items, r[1]), r[2]>>
TakeMany(kind, b, i, n) ==
    FoldLeft(LAMBDA acc, k : AppendItem(acc[1], IF kind = "socks" THEN TakeSock(b, acc[2], NoSock)
                                                                  ELSE TakeName(b, acc[2])),
             <<<<>>, i>>, Zeros(n))

---------------------------------------------------------------------------
(* Messages by their layouts.                                              *)

PutField(k, m) ==
    CASE k[2] = "num"   -> Bytes(m[k[1]], k[3])
      [] k[2] = "sock"  -> PutSock(m[k[1]])
      [] k[2] = "socks" -> FlattenSeq([j \in 1..m[k[3]] |-> PutSock(m[k[1]][j])])
      [] k[2] = "names" -> FlattenSeq([j \in 1..m[k[3]] |-> PutName(m[k[1]][j])])
      [] OTHER          -> m[k[1]]

TakeField(k, m, b, i) ==
    CASE k[2] = "num"   -> TakeNum(b, i, k[3], m[k[1]])
      [] k[2] = "buf"   -> Take(b, i, k[3], m[k[1]])
      [] k[2] = "bytes" -> Take(b, i, m[k[3]], m[k[1]])
      [] k[2] = "sock"  -> TakeSock(b, i, m[k[1]])
      [] OTHER          -> TakeMany(k[2], b, i, m[k[3]])

\* The memset() before a message is decoded, and the fields it may not have.
Blank(lay) ==
    [f \in {lay[j][1] : j \in DOMAIN lay} |->
        LET k == lay[CHOOSE j \in DOMAIN lay : lay[j][1] = f]
        IN  CASE k[2] = "num"  -> 0
              [] k[2] = "buf"  -> Zeros(k[3])
              [] k[2] = "sock" -> NoSock
              [] OTHER         -> <<>>]

Encode(lay, m) == FlattenSeq([j \in DOMAIN lay |-> PutField(lay[j], m)])

\* The fields of lay, from the place i of b on, on top of the blank message.
SetField(m, name, r) == <<[m EXCEPT ![name] = r[1]], r[2]>>
Decode(lay, blank, b, i) ==
    FoldLeft(LAMBDA acc, k : SetField(acc[1], k[1], TakeField(k, acc[1], b, acc[2])), <<blank, i>>, lay)

---------------------------------------------------------------------------
(* Messages between edges and supernodes.                                  *)

N2N_PKT_VERSION == 2

\* n2n_pc_t
PC == [REGISTER |-> 1, PACKET |-> 3, REGISTER_ACK |-> 4, REGISTER_SUPER |-> 5,
       REGISTER_SUPER_ACK |-> 6]

N2N_FLAGS_FROM_SUPERNODE == 32
N2N_FLAGS_SOCKET         == 64

\* Whether the bit is set in the word.
Has(word, bit) == (word \div bit) % 2 = 1

CommonLayout == << <<"version", "num", 1>>, <<"ttl", "num", 1>>, <<"flags", "num", 2>>,
                   <<"community", "buf", 16>> >>

\* n2n_common_t: the code takes the low five bits of the flags.
EncodeCommon(c) ==
    Encode(CommonLayout, [version |-> N2N_PKT_VERSION, ttl |-> c.ttl, community |-> c.community,
                          flags |-> (c.pc % 32) + (c.flags \div 32) * 32])

\* decode_common: a record, the place after it, and whether the version is right.
CommonOf(m, idx) ==
    [cmn |-> [ttl |-> m.ttl, pc |-> m.flags % 32, flags |-> (m.flags \div 32) * 32,
              community |-> m.community],
     idx |-> idx, ok |-> m.version = N2N_PKT_VERSION]
CommonRead(r) == CommonOf(r[1], r[2])
DecodeCommon(b) == CommonRead(Decode(CommonLayout, Blank(CommonLayout), b, 0))

\* encode_PACKET, encode_REGISTER, ... and their decoders, after the common part.
BodyLayout(pc, withSock) ==
    LET sock == IF withSock THEN << <<"sock", "sock", 0>> >> ELSE <<>>
    IN  CASE pc = PC.REGISTER ->
                 << <<"cookie", "buf", 4>>, <<"srcMac", "buf", 6>>, <<"dstMac", "buf", 6>> >> \o sock
          [] pc = PC.REGISTER_ACK ->
                 << <<"cookie", "buf", 4>>, <<"dstMac", "buf", 6>>, <<"srcMac", "buf", 6>> >> \o sock
          [] pc = PC.PACKET ->
                 << <<"srcMac", "buf", 6>>, <<"dstMac", "buf", 6>> >> \o sock
                     \o << <<"transform", "num", 2>> >>
          [] pc = PC.REGISTER_SUPER ->
                 << <<"cookie", "buf", 4>>, <<"edgeMac", "buf", 6>>, <<"scheme", "num", 2>>,
                    <<"toksize", "num", 2>>, <<"token", "bytes", "toksize">> >>
          [] pc = PC.REGISTER_SUPER_ACK ->
                 << <<"cookie", "buf", 4>>, <<"edgeMac", "buf", 6>>, <<"lifetime", "num", 2>>,
                    <<"sock", "sock", 0>>, <<"num_sn", "num", 1>>, <<"sn_bak", "socks", "num_sn">> >>

\* The socket field of these three is optional.  It is written if its family is
\* set, and read if the flag SOCKET is.
HasOptionalSock(pc) == pc \in {PC.REGISTER, PC.REGISTER_ACK, PC.PACKET}

EncodeN2N(c, m) ==
    EncodeCommon(c) \o Encode(BodyLayout(c.pc, HasOptionalSock(c.pc) => m.sock.family # 0), m)

\* The record after the common part, which starts at i, and the place after it.
DecodeN2N(c, b, i) ==
    Decode(BodyLayout(c.pc, Has(c.flags, N2N_FLAGS_SOCKET)), Blank(BodyLayout(c.pc, TRUE)), b, i)

---------------------------------------------------------------------------
(* Messages about supernodes and communities (SNM).                        *)

SNM == [REQ |-> 1, RSP |-> 2, ADV |-> 3]

S_FLAG == 128
C_FLAG == 64
N_FLAG == 32
A_FLAG == 16
E_FLAG == 8

HdrLayout == << <<"type", "num", 1>>, <<"flags", "num", 1>>, <<"seq_num", "num", 2>> >>

\* encode_SNM_REQ, encode_SNM_INFO, encode_SNM_ADV and their decoders
SnmLayout(type, flags) ==
    LET count == << <<"comm_num", "num", 2>> >>
        comms == << <<"comm_ptr", "names", "comm_num">> >>
        when(c, lay) == IF c THEN lay ELSE <<>>
    IN  CASE type = SNM.REQ -> when(Has(flags, N_FLAG), count \o comms)
          [] type = SNM.RSP ->
                 << <<"sn_num", "num", 2>> >> \o count
                     \o when(Has(flags, S_FLAG) \/ Has(flags, A_FLAG), << <<"sn_ptr", "socks", "sn_num">> >>)
                     \o when(Has(flags, C_FLAG) \/ Has(flags, N_FLAG), comms)
          [] type = SNM.ADV -> << <<"sn", "sock", 0>> >> \o when(Has(flags, N_FLAG), count \o comms)

EncodeSnm(h, m) == Encode(HdrLayout, h) \o Encode(SnmLayout(h.type, h.flags), m)

\* A header, a record and the place after them.
SnmOf(hdr, r) == [hdr |-> hdr, msg |-> r[1], idx |-> r[2]]
DecodeSnmBody(hdr, b, i) ==
    SnmOf(hdr, Decode(SnmLayout(hdr.type, hdr.flags), Blank(SnmLayout(hdr.type, 255)), b, i))
SnmRead(h, b) == DecodeSnmBody(h[1], b, h[2])
DecodeSnm(b) == SnmRead(Decode(HdrLayout, Blank(HdrLayout), b, 0), b)

=============================================================================
