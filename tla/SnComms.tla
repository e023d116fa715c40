------------------------------ MODULE SnComms ------------------------------
(***************************************************************************)
(* A supernode's two lists as they are: in order, of socket addresses and  *)
(* community names, read from bytes, answered with in bytes, and kept in   *)
(* two files.  Snm shows what the federation as a whole promises, with     *)
(* sets and with names none of which is the prefix of another one.  Here   *)
(* are names of that kind, and one supernode only; the others, and the     *)
(* edges, send it what such programs send.                                 *)
(*                                                                         *)
(* One action is one handler (process_sn_msg; process_udp on a             *)
(* REGISTER_SUPER), the start of the process or the end of its discovery.  *)
(* The process may die between two handlers, and while it writes a file.   *)
(***************************************************************************)
EXTENDS Datagrams

CONSTANTS
    SnmSock,      \* the supernode's socket for other supernodes and for discoveries of edges
    CmdLine,      \* supernodes given on the command line: a sequence of sockets
    Others,       \* other supernodes: [snm, adv] sockets
    Peer,         \* an edge: [sock, snm] sockets and [mac]
    Names,        \* names of communities
    NameLists,    \* lists of them that others advertise or respond with
    SnLists,      \* lists of supernodes that others respond with
    Cookies,      \* values of a cookie
    Stray,        \* what memory may hold where an edge makes the flags of a request
    Before,       \* communities in the file before the first start: a list
    MinSn,        \* N2N_MIN_SN_PER_COMM
    MaxSn,        \* N2N_MAX_SN_PER_COMM
    MaxComm,      \* N2N_MAX_COMM_PER_SN
    MaxCrashes    \* bound: crashes

ASSUME CommsAssumption ==
    /\ MinSn \in Nat /\ MaxSn \in Nat /\ MaxComm \in Nat /\ MaxCrashes \in Nat
    /\ Names \subseteq CommNames
    /\ CmdLine \in Seq(Sockets)
    /\ \A o \in Others : o.snm # SnmSock
    /\ Before \in Seq([name : CommNames, sns : Seq(Sockets)])
    /\ \A k \in DOMAIN Before :
        /\ Len(Before[k].sns) <= MaxSn
        /\ \A j \in DOMAIN Before : Before[j].name = Before[k].name => j = k
    /\ \A c \in Cookies : IsBytes(c, 4)
    /\ IsBytes(Peer.mac, 6)

VARIABLES
    disc,         \* "down", or snm_discovery_state
    sns,          \* supernodes.list_head: sockets
    comms,        \* communities.list_head: [name, sns]
    persist,      \* communities.persist
    seqNum,       \* seq_num
    snFile,       \* the file of supernodes
    commFile,     \* the file of communities
    crashes,      \* crashes so far
    stored        \* history: the lists that the last completed saves were of

lists == <<sns, comms, persist>>
commsVars == <<disc, sns, comms, persist, seqNum, snFile, commFile, crashes, stored>>

---------------------------------------------------------------------------
(* Files.                                                                  *)

\* sock_to_cstr, sock_from_cstr: the text of an IPv6 socket has no address.
ToText(s) == [dots |-> IF s.family = AF_INET6 THEN <<>> ELSE s.addr, port |-> s.port]
FromText(t) ==
    IF t.dots = <<>> THEN [family |-> AF_INET6, port |-> t.port, addr |-> Zeros(16)]
                     ELSE [family |-> AF_INET, port |-> t.port, addr |-> t.dots]

\* sn_list_add_new, with sn_find: at the head, unless it is there
AddSn(list, s) == IF s \in ToSet(list) THEN list ELSE <<s>> \o list
AddSns(list, more) == FoldLeft(AddSn, list, more)

\* write_sn_list_to_file, read_sn_list_from_file
WriteSns(list) == [i \in DOMAIN list |-> ToText(list[i])]
ReadSns(file) == Reverse(FoldLeft(LAMBDA l, t : AddSn(l, FromText(t)), <<>>, file))

\* write_comm_list_to_file.  A file that was only opened has no number yet.
NoFile == [num |-> 0, entries |-> <<>>]
WriteComms(list) ==
    [num |-> Len(list),
     entries |-> [i \in DOMAIN list |-> [name |-> list[i].name, sns |-> WriteSns(list[i].sns)]]]

\* Variants: definitions named ...Variant are not part of the specification;
\* each is a plausible mistake in the definition that follows it.

\* the list is not reversed
ReadCommsVariant(file) ==
    FoldLeft(LAMBDA l, i : <<[name |-> file.entries[i].name,
                              sns |-> [j \in DOMAIN file.entries[i].sns |-> FromText(file.entries[i].sns[j])]]>> \o l,
             <<>>, [i \in 1..file.num |-> i])

\* read_comm_list_from_file
ReadComms(file) ==
    Reverse(FoldLeft(LAMBDA l, i : <<[name |-> file.entries[i].name,
                              sns |-> [j \in DOMAIN file.entries[i].sns |-> FromText(file.entries[i].sns[j])]]>> \o l,
                     <<>>, [i \in 1..file.num |-> i]))

---------------------------------------------------------------------------
(* Communities.                                                            *)

\* one byte less is compared
CommFindVariant(list, name) ==
    SelectInSeq(list, LAMBDA c : IsPrefix(SubSeq(name, 1, Len(name) - 1), c.name))

\* comm_find, with the length of the name asked for: the place of the first
\* community whose name begins with it, or 0.
CommFind(list, name) == SelectInSeq(list, LAMBDA c : IsPrefix(name, c.name))

\* strlen: the name in a community field
CStr(field) == SubSeq(field, 1, SelectInSeq(field, LAMBDA b : b = 0) - 1)

\* add_new_community
AddComm(list, name) ==
    IF CommFind(list, name) # 0 THEN list ELSE <<[name |-> name, sns |-> <<>>]>> \o list

\* add_new_supernode_to_community, if there is one
AddToComm(list, k, s) ==
    IF k = 0 \/ Len(list[k].sns) = MaxSn \/ s \in ToSet(list[k].sns) THEN list
    ELSE [list EXCEPT ![k].sns = Append(@, s)]

\* communities_to_array
NamesOf(list) == [i \in DOMAIN list |-> list[i].name]

---------------------------------------------------------------------------
(* Messages of the supernode.                                              *)

\* sn_local_addr of the main socket, which is bound to any address
Local == [family |-> AF_INET, port |-> SnSock.port, addr |-> Zeros(4)]

Flag(c, bit) == IF c THEN bit ELSE 0

\* send_snm_req
Req(to, seq, wantComms) ==
    SnmDatagram(SnmSock, to, [type |-> SNM.REQ, flags |-> S_FLAG + Flag(wantComms, C_FLAG), seq_num |-> seq],
                [comm_num |-> 0, comm_ptr |-> <<>>])

\* send_snm_adv, build_snm_adv
Adv(to, names) ==
    SnmDatagram(SnmSock, to,
                [type |-> SNM.ADV, seq_num |-> 0,
                 flags |-> Flag(names # <<>>, N_FLAG) + Flag(disc # "READY", A_FLAG)],
                [sn |-> Local, comm_num |-> Len(names), comm_ptr |-> names])

\* send_snm_rsp, build_snm_info: to an edge that names a community which is
\* found, its counterparts and the supernode itself; to any other edge how many
\* there are, and the supernodes; to supernodes what they ask for.
Rsp(to, hdr, req) ==
    LET edge   == Has(hdr.flags, E_FLAG) /\ Has(hdr.flags, N_FLAG)
        k      == IF edge THEN CommFind(comms, req.comm_ptr[1]) ELSE 0
        wantS  == k = 0 /\ Has(hdr.flags, S_FLAG)
        wantC  == ~edge /\ Has(hdr.flags, C_FLAG)
        sn     == IF k # 0 THEN Append(comms[k].sns, Local) ELSE IF wantS THEN sns ELSE <<>>
        names  == IF k # 0 THEN <<req.comm_ptr[1]>> ELSE IF wantC THEN NamesOf(comms) ELSE <<>>
    IN  SnmDatagram(SnmSock, to,
            [type |-> SNM.RSP, seq_num |-> hdr.seq_num,
             flags |-> Flag(wantS, S_FLAG) + Flag(wantC, C_FLAG) + Flag(k # 0, N_FLAG + A_FLAG)],
            [sn_num |-> Len(sn), sn_ptr |-> sn, comm_ptr |-> names,
             comm_num |-> IF edge /\ k = 0 THEN Len(comms) ELSE Len(names)])

---------------------------------------------------------------------------
(* Handlers, as functions of the datagram d and what it says, p: the lists *)
(* afterwards, whether the communities are saved, what is sent, and how    *)
(* many requests of it.                                                    *)

Effect(sns2, comms2, save, out, reqs) ==
    [sns |-> sns2, comms |-> comms2, save |-> save, out |-> out, reqs |-> reqs]

\* process_sn_msg, REQ
AfterReq(d, p) ==
    LET edge  == Has(p.hdr.flags, E_FLAG)
        adv   == Has(p.hdr.flags, A_FLAG)
        name  == p.msg.comm_ptr[1]
        fresh == adv /\ edge /\ CommFind(comms, name) = 0
    IN  Effect(IF edge THEN sns ELSE AddSn(sns, d.from),
               IF fresh THEN AddComm(comms, name) ELSE comms,
               fresh,
               IF adv THEN {Adv(d.from, <<>>)} \cup {Adv(s, <<name>>) : s \in IF fresh THEN ToSet(sns) ELSE {}}
                      ELSE {Rsp(d.from, p.hdr, p.msg)},
               0)

\* process_sn_msg, RSP, with process_snm_rsp: the supernodes that are new are at
\* the head of the list.
AfterRsp(d, p) ==
    LET all  == IF Has(p.hdr.flags, S_FLAG) THEN AddSns(sns, p.msg.sn_ptr) ELSE sns
        n    == Len(all) - Len(sns)
        note(list, name) == LET l == AddComm(list, name) IN AddToComm(l, CommFind(l, name), d.from)
    IN  Effect(all,
               IF Has(p.hdr.flags, C_FLAG) THEN FoldLeft(note, comms, p.msg.comm_ptr) ELSE comms,
               FALSE,
               {Req(all[i], seqNum + i, TRUE) : i \in 1..n},
               n)

\* process_sn_msg, ADV, with process_snm_adv
AfterAdv(d, p) ==
    LET addr == IF p.msg.sn.addr = Zeros(4) THEN [p.msg.sn EXCEPT !.addr = d.from.addr] ELSE p.msg.sn
        list == FoldLeft(LAMBDA l, name : AddToComm(l, CommFind(l, name), addr), comms, p.msg.comm_ptr)
    IN  Effect(AddSn(sns, d.from), list, list # comms,
               IF list # comms /\ Has(p.hdr.flags, A_FLAG) THEN {Adv(d.from, NamesOf(list))} ELSE {},
               0)

After(d) ==
    LET of(p) == CASE p.hdr.type = SNM.REQ -> AfterReq(d, p)
                   [] p.hdr.type = SNM.RSP -> AfterRsp(d, p)
                   [] p.hdr.type = SNM.ADV -> AfterAdv(d, p)
    IN  of(ParseSnm(d))

\* Requests are for a supernode that is READY, responses for one that is not;
\* messages of other types are for nobody.
Heeds(d) ==
    /\ d.snm /\ d.to = SnmSock /\ disc # "down"
    /\ \E type \in {ParseSnm(d).hdr.type} \cap {SNM.REQ, SNM.RSP, SNM.ADV} :
        (type = SNM.REQ => disc = "READY") /\ (type = SNM.RSP => disc # "READY")

\* With update_and_save_supernodes and write_comm_list_to_file.
RecvSnm(d) ==
    /\ Heeds(d)
    /\ \E e \in {After(d)} :
        /\ sns' = e.sns /\ comms' = e.comms /\ seqNum' = seqNum + e.reqs
        /\ snFile' = IF e.sns # sns THEN WriteSns(e.sns) ELSE snFile
        /\ commFile' = IF e.save THEN WriteComms(e.comms) ELSE commFile
        /\ stored' = [sns |-> IF e.sns # sns THEN e.sns ELSE stored.sns,
                      comms |-> IF e.save THEN e.comms ELSE stored.comms]
        /\ Answer(e.out)
    /\ UNCHANGED <<disc, persist, crashes>>

\* process_udp on a REGISTER_SUPER, as to its answer
RecvRegisterSuper(d) ==
    LET bak(p) ==
            LET k == CommFind(comms, CStr(p.cmn.community)) IN IF k = 0 THEN <<>> ELSE comms[k].sns
    IN  /\ ~d.snm /\ d.to = SnSock /\ disc # "down"
        /\ \E p \in {Parse(d)} :
            /\ p.ok /\ p.cmn.pc = PC.REGISTER_SUPER
            /\ Answer({N2NDatagram(SnSock, d.from,
                       [ttl |-> 2, pc |-> PC.REGISTER_SUPER_ACK, community |-> p.cmn.community,
                        flags |-> N2N_FLAGS_SOCKET + N2N_FLAGS_FROM_SUPERNODE],
                       [cookie |-> p.msg.cookie, edgeMac |-> p.msg.edgeMac, lifetime |-> 120,
                        sock |-> d.from, num_sn |-> Len(bak(p)), sn_bak |-> bak(p)], <<>>, <<>>)})
        /\ UNCHANGED commsVars

---------------------------------------------------------------------------
(* The process.                                                            *)

\* load_snm_info, and the requests of main
Start ==
    LET read == ReadSns(snFile)
        all  == AddSns(read, CmdLine)
    IN  /\ disc = "down"
        /\ disc' = IF all = <<>> THEN "READY" ELSE "DISCOVERY"
        /\ sns' = all /\ comms' = <<>> /\ persist' = ReadComms(commFile)
        /\ seqNum' = Len(all)
        /\ snFile' = IF all # read THEN WriteSns(all) ELSE snFile
        /\ stored' = [stored EXCEPT !.sns = IF all # read THEN all ELSE @]
        /\ Answer({Req(all[i], i, TRUE) : i \in DOMAIN all})
        /\ UNCHANGED <<commFile, crashes>>

\* communities_discovery: the stored list, and further communities with too few
\* supernodes, the first ones that were heard of last, as long as there is room.
Discovered ==
    FoldLeft(LAMBDA l, c : IF Len(l) < MaxComm /\ Len(c.sns) < MinSn THEN AddComm(l, c.name) ELSE l,
             persist, comms)

DiscoveryEnd ==
    /\ disc = "DISCOVERY"
    /\ disc' = "READY"
    /\ comms' = Discovered
    /\ Answer({Adv(s, NamesOf(Discovered)) : s \in IF Discovered = <<>> THEN {} ELSE ToSet(sns)})
    /\ UNCHANGED <<sns, persist, seqNum, snFile, commFile, crashes, stored>>

Die ==
    /\ crashes < MaxCrashes
    /\ crashes' = crashes + 1
    /\ disc' = "down"
    /\ sns' = <<>> /\ comms' = <<>> /\ persist' = <<>> /\ seqNum' = 0

\* between two handlers
Crash ==
    /\ disc # "down"
    /\ Die
    /\ Answer({})
    /\ UNCHANGED <<snFile, commFile, stored>>

\* in a handler, while it writes one of its files: fopen has emptied the file,
\* fclose has not filled it yet.  A response goes out before the supernodes are
\* saved, the supernodes are saved before the communities.
CrashSaving(d) ==
    /\ Heeds(d)
    /\ Die
    /\ \E e \in {After(d)} :
           \/ /\ e.sns # sns
              /\ snFile' = <<>>
              /\ stored' = [stored EXCEPT !.sns = <<>>]
              /\ Answer(IF ParseSnm(d).hdr.type = SNM.REQ THEN e.out ELSE {})
              /\ UNCHANGED commFile
           \/ /\ e.save
              /\ snFile' = IF e.sns # sns THEN WriteSns(e.sns) ELSE snFile
              /\ commFile' = NoFile
              /\ stored' = [sns |-> IF e.sns # sns THEN e.sns ELSE stored.sns, comms |-> <<>>]
              /\ Answer({})

---------------------------------------------------------------------------
(* Edges and other supernodes.                                             *)

\* send_register_super
EdgeRegisters(name, cookie) ==
    /\ Originate({N2NDatagram(Peer.sock, SnSock,
                      [ttl |-> 2, pc |-> PC.REGISTER_SUPER, flags |-> 0, community |-> Padded(name)],
                      [cookie |-> cookie, edgeMac |-> Peer.mac, scheme |-> 0, toksize |-> 0, token |-> <<>>],
                      <<>>, <<>>)})
    /\ UNCHANGED commsVars

\* edge_send_snm_req: the flags of the header are not initialised before E and N,
\* and S in a discovery or A after it, are set in them.
EdgeAsks(name, stray, discovering) ==
    LET set(flags, bit) == IF Has(flags, bit) THEN flags ELSE flags + bit
    IN  /\ Originate({SnmDatagram(Peer.snm, SnmSock,
                          [type |-> SNM.REQ, seq_num |-> 0,
                           flags |-> set(set(set(stray, E_FLAG), N_FLAG), IF discovering THEN S_FLAG ELSE A_FLAG)],
                          [comm_num |-> 1, comm_ptr |-> <<name>>])})
        /\ UNCHANGED commsVars

\* Another supernode sends its request, its answer to one, or its ADV.
OtherAsks(o, wantComms) ==
    /\ Originate({[Req(SnmSock, 1, wantComms) EXCEPT !.from = o.snm]})
    /\ UNCHANGED commsVars

OtherAnswers(o, list, names) ==
    /\ \E d \in net :
        /\ d.snm /\ d.to = o.snm
        /\ \E hdr \in {ParseSnm(d).hdr} :
            /\ hdr.type = SNM.REQ
            /\ Originate({SnmDatagram(o.snm, SnmSock,
                          [hdr EXCEPT !.type = SNM.RSP],
                          [sn_num |-> Len(list), sn_ptr |-> list, comm_num |-> Len(names), comm_ptr |-> names])})
    /\ UNCHANGED commsVars

OtherAdvertises(o, names, wantAdv) ==
    /\ Originate({SnmDatagram(o.snm, SnmSock,
                      [type |-> SNM.ADV, seq_num |-> 0, flags |-> N_FLAG + Flag(wantAdv, A_FLAG)],
                      [sn |-> [o.adv EXCEPT !.addr = Zeros(4)], comm_num |-> Len(names), comm_ptr |-> names])})
    /\ UNCHANGED commsVars

---------------------------------------------------------------------------
CommsInit ==
    /\ disc = "down"
    /\ sns = <<>> /\ comms = <<>> /\ persist = <<>> /\ seqNum = 0
    /\ crashes = 0
    /\ snFile = <<>>
    /\ commFile = WriteComms(Before)
    /\ stored = [sns |-> <<>>, comms |-> Before]

CommsNext ==
    \/ Start
    \/ DiscoveryEnd
    \/ Crash
    \/ \E d \in net : RecvSnm(d) \/ RecvRegisterSuper(d) \/ CrashSaving(d)
    \/ \E name \in Names, cookie \in Cookies : EdgeRegisters(name, cookie)
    \/ \E name \in Names, stray \in Stray, discovering \in BOOLEAN : EdgeAsks(name, stray, discovering)
    \/ \E o \in Others :
        \/ \E wantComms \in BOOLEAN : OtherAsks(o, wantComms)
        \/ \E list \in SnLists, names \in NameLists : OtherAnswers(o, list, names)
        \/ \E names \in NameLists, wantAdv \in BOOLEAN : OtherAdvertises(o, names, wantAdv)

CommsTypeOK ==
    /\ disc \in {"down", "DISCOVERY", "READY"}
    /\ IsInjective(sns)
    /\ \A list \in {comms, persist} :
        /\ IsInjective(NamesOf(list))
        /\ \A k \in DOMAIN list : Len(list[k].sns) <= MaxSn
    /\ crashes \in 0..MaxCrashes /\ seqNum \in Nat

---------------------------------------------------------------------------
(* Properties.                                                             *)

\* The community an answer to an edge is about, with the counterparts it names.
About(d) ==
    IF ~d.snm
    THEN IF d.from = SnSock /\ d.meant.cmn.pc = PC.REGISTER_SUPER_ACK
         THEN {[name |-> CStr(d.meant.cmn.community), sns |-> d.meant.msg.sn_bak]} ELSE {}
    ELSE IF d.from = SnmSock /\ d.meant.hdr.type = SNM.RSP /\ Has(d.meant.hdr.flags, A_FLAG)
         THEN {[name |-> d.meant.msg.comm_ptr[1], sns |-> Front(d.meant.msg.sn_ptr)]} ELSE {}

\* An edge gets the counterparts of its own community, all of them and in order:
\* from a discovery only if the supernode does coordinate the community, from a
\* registration none if it does not.  When the name is the beginning of another
\* one, the answer may be about that community instead (comm_find).
AnswerForCommunity ==
    [][\A d \in net' \ net : \A a \in About(d) :
          LET own    == {c \in ToSet(comms) : c.name = a.name}
              longer == {c \in ToSet(comms) : IsStrictPrefix(a.name, c.name)}
          IN  \/ \E c \in own \cup longer : a.sns = c.sns
              \/ own \cup longer = {} /\ a.sns = <<>> /\ ~d.snm]_<<net, comms>>

\* A supernode starts with the lists that the last saves to be completed were of,
\* in their order - with an empty one if the process died in a save - and ends
\* its discovery with all communities it started with, at the end of the list.
ReadsBack ==
    [][/\ disc = "down" /\ disc' # "down" => persist' = stored.comms /\ IsSuffix(stored.sns, sns')
       /\ disc = "DISCOVERY" /\ disc' = "READY" => IsSuffix(persist, comms')]_commsVars

=============================================================================
