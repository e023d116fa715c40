---------------------------- MODULE Snm_proofs ----------------------------
(***************************************************************************)
(* What the federation guarantees for every set of supernodes and          *)
(* communities, all limits, any loss and duplication and any number of     *)
(* crashes: types, the file of supernodes, and the lists of communities.   *)
(***************************************************************************)
EXTENDS Snm, FiniteSetTheorems, TLAPS

\* A list of communities that is right: finite, no address list outgrows its
\* array, and an advertise address is of a supernode that advertised, as told
\* by adv, the community.
Right(L, adv) ==
    /\ L \in CommList
    /\ IsFiniteSet(L.names)
    /\ \A c \in Comms : IsFiniteSet(L.sns[c]) /\ Cardinality(L.sns[c]) <= MaxSn
    /\ \A t \in SNs, c \in Comms : AdvAddr(t) \in L.sns[c] => <<t, c>> \in adv

\* A message that is right: what it names is finite, and advertised if it is
\* an advertisement.
Honest(m, adv) ==
    /\ m \in Message
    /\ m.type \in {"RSP", "ADV"} => IsFiniteSet(m.comms)
    /\ m.type = "ADV" => \A c \in m.comms : <<m.from, c>> \in adv

ListsRight ==
    \A s \in SNs : /\ Right(comms[s], advertised)
                   /\ Right(persist[s], advertised)
                   /\ Right(commFile[s], advertised)

NetHonest == \A m \in net : Honest(m, advertised)

\* CounterpartAdvertised is not inductive: an address comes out of a message,
\* and out of the stored list when discovery ends.
IInv == TypeOK /\ ListsRight /\ NetHonest /\ SupersSaved

---------------------------------------------------------------------------
(* The operators.                                                          *)

LEMMA NoCommsRight ==
    ASSUME NEW adv
    PROVE  Right(NoComms, adv)
<1>1. NoComms \in CommList
  BY DEF NoComms, CommList
<1>2. IsFiniteSet({}) /\ Cardinality({}) = 0
  BY FS_EmptySet
<1>3. NoComms.names = {} /\ \A c \in Comms : NoComms.sns[c] = {}
  BY DEF NoComms
<1>4. 0 <= MaxSn
  BY LimitsAssumption
<1>5. \A c \in Comms : IsFiniteSet(NoComms.sns[c]) /\ Cardinality(NoComms.sns[c]) <= MaxSn
  <2> SUFFICES ASSUME NEW c \in Comms
               PROVE  IsFiniteSet(NoComms.sns[c]) /\ Cardinality(NoComms.sns[c]) <= MaxSn
    OBVIOUS
  <2>1. NoComms.sns[c] = {}
    BY <1>3
  <2>2. QED
    BY <1>2, <1>4, <2>1
<1>6. \A t \in SNs, c \in Comms : AdvAddr(t) \notin NoComms.sns[c]
  BY <1>3
<1>7. IsFiniteSet(NoComms.names)
  BY <1>2, <1>3
<1> HIDE DEF NoComms
<1>8. QED
  BY <1>1, <1>5, <1>6, <1>7 DEF Right

\* What was right stays right when more was advertised.
LEMMA RightKept ==
    ASSUME NEW adv, NEW more, adv \subseteq more
    PROVE  /\ \A L : Right(L, adv) => Right(L, more)
           /\ \A m : Honest(m, adv) => Honest(m, more)
BY DEF Right, Honest

\* A further community.
LEMMA CommunityRight ==
    ASSUME NEW adv, NEW L, Right(L, adv), NEW names \in SUBSET Comms, IsFiniteSet(names)
    PROVE  Right([L EXCEPT !.names = @ \cup names], adv)
<1> DEFINE M == [L EXCEPT !.names = @ \cup names]
<1>1. L \in CommList
  BY DEF Right
<1>2. M \in CommList /\ M.names = L.names \cup names /\ M.sns = L.sns
  BY <1>1 DEF CommList
<1>3. IsFiniteSet(L.names \cup names)
  BY FS_Union DEF Right
<1> HIDE DEF M
<1>4. Right(M, adv)
  BY <1>2, <1>3 DEF Right
<1>5. QED
  BY <1>4 DEF M

LEMMA AddressesDiffer ==
    ASSUME NEW s, NEW t
    PROVE  SnmAddr(s) # AdvAddr(t) /\ (AdvAddr(s) = AdvAddr(t) => s = t)
BY DEF SnmAddr, AdvAddr

\* A further address, which is the advertise address of a supernode only for
\* communities that one advertised; nothing is dropped.
LEMMA SupernodeRight ==
    ASSUME NEW adv, NEW L, Right(L, adv), NEW names \in SUBSET Comms, NEW addr \in Addresses,
           \A t \in SNs, c \in names : addr = AdvAddr(t) => <<t, c>> \in adv
    PROVE  /\ Right(WithSupernode(L, names, addr), adv)
           /\ WithSupernode(L, names, addr).names = L.names
           /\ \A c \in Comms : L.sns[c] \subseteq WithSupernode(L, names, addr).sns[c]
<1> DEFINE M == WithSupernode(L, names, addr)
<1>1. L \in [names: SUBSET Comms, sns: [Comms -> SUBSET Addresses]]
  BY DEF Right, CommList
<1>2. /\ M.names = L.names
      /\ M.sns = [c \in Comms |-> IF c \in names /\ Cardinality(L.sns[c]) # MaxSn
                                  THEN L.sns[c] \cup {addr} ELSE L.sns[c]]
  BY <1>1 DEF WithSupernode
<1>3. M \in CommList
  BY <1>1 DEF WithSupernode, CommList
<1>4. ASSUME NEW c \in Comms
      PROVE  /\ IsFiniteSet(M.sns[c]) /\ Cardinality(M.sns[c]) <= MaxSn
             /\ L.sns[c] \subseteq M.sns[c]
             /\ \A t \in SNs : AdvAddr(t) \in M.sns[c] => <<t, c>> \in adv
  <2>1. IsFiniteSet(L.sns[c]) /\ Cardinality(L.sns[c]) <= MaxSn
    BY DEF Right
  <2>2. \A t \in SNs : AdvAddr(t) \in L.sns[c] => <<t, c>> \in adv
    BY DEF Right
  <2>3. CASE c \in names /\ Cardinality(L.sns[c]) # MaxSn
    <3>1. M.sns[c] = L.sns[c] \cup {addr}
      BY <1>2, <2>3
    <3>2. Cardinality(L.sns[c]) \in Nat
      BY <2>1, FS_CardinalityType
    <3>3. /\ IsFiniteSet(L.sns[c] \cup {addr})
          /\ Cardinality(L.sns[c] \cup {addr}) <= Cardinality(L.sns[c]) + 1
      <4>1. /\ IsFiniteSet(L.sns[c] \cup {addr})
            /\ Cardinality(L.sns[c] \cup {addr})
                  = IF addr \in L.sns[c] THEN Cardinality(L.sns[c]) ELSE Cardinality(L.sns[c]) + 1
        BY <2>1, FS_AddElement
      <4>2. QED
        BY <3>2, <4>1
    <3>4. Cardinality(L.sns[c] \cup {addr}) <= MaxSn
      <4> DEFINE n == Cardinality(L.sns[c])
                 k == Cardinality(L.sns[c] \cup {addr})
      <4>1. n \in Nat /\ k \in Nat /\ n <= MaxSn /\ n # MaxSn /\ k <= n + 1
        BY <2>1, <2>3, <3>2, <3>3, FS_CardinalityType
      <4> HIDE DEF n, k
      <4>2. k <= MaxSn
        BY <4>1, LimitsAssumption
      <4>3. QED
        BY <4>2 DEF k
    <3>5. QED
      BY <2>2, <2>3, <3>1, <3>3, <3>4
  <2>4. CASE ~(c \in names /\ Cardinality(L.sns[c]) # MaxSn)
    BY <1>2, <2>1, <2>2, <2>4
  <2>5. QED
    BY <2>3, <2>4
<1> HIDE DEF M
<1>5. Right(M, adv)
  BY <1>2, <1>3, <1>4 DEF Right
<1>6. QED
  BY <1>2, <1>4, <1>5 DEF M

\* What is under way afterwards was under way, or was sent.
LEMMA TransmitNet ==
    ASSUME NEW taken, NEW sent, Transmit(taken, sent)
    PROVE  net' \subseteq net \cup sent
BY DEF Transmit

LEMMA RequestsHonest ==
    ASSUME NEW adv, NEW s \in SNs, NEW sns \in SUBSET SNs, NEW wantComms \in BOOLEAN
    PROVE  \A m \in Requests(s, sns, wantComms) : Honest(m, adv)
BY DEF Requests, Honest, Message

\* Advertisements are honest once they are remembered.
LEMMA AdvertiseHonest ==
    ASSUME IInv, NEW taken, NEW s \in SNs, NEW sns \in SUBSET SNs, NEW names \in SUBSET Comms,
           IsFiniteSet(names), NEW ms \in {{}, Advertisements(s, sns, names)}, Advertise(taken, ms)
    PROVE  NetHonest' /\ advertised' \in SUBSET (SNs \X Comms) /\ advertised \subseteq advertised'
<1>1. ASSUME NEW m \in ms
      PROVE  /\ m \in Message /\ m.type = "ADV" /\ m.comms = names /\ m.from = s
  <2>1. m \in Advertisements(s, sns, names)
    BY <1>1
  <2>2. PICK t \in sns :
           m = [type |-> "ADV", from |-> s, to |-> t, A |-> state[s] # "READY", comms |-> names]
    BY <2>1 DEF Advertisements
  <2>3. (state[s] # "READY") \in BOOLEAN
    BY Zenon
  <2>4. \A a \in BOOLEAN :
           [type |-> "ADV", from |-> s, to |-> t, A |-> a, comms |-> names] \in Message
    BY DEF Message
  <2>5. m \in Message
    BY <2>2, <2>3, <2>4, Zenon
  <2>6. QED
    BY <2>2, <2>5
<1>2. advertised' = advertised \cup UNION {{<<m.from, c>> : c \in m.comms} : m \in ms}
  BY DEF Advertise
<1>3. \A m \in ms : \A c \in m.comms : <<m.from, c>> \in advertised'
  BY <1>2
<1>4. \A m \in ms : Honest(m, advertised')
  BY <1>1, <1>3 DEF Honest
<1>5. advertised \subseteq advertised'
  BY <1>2
<1>6. advertised' \in SUBSET (SNs \X Comms)
  <2>1. \A m \in ms : \A c \in m.comms : <<m.from, c>> \in SNs \X Comms
    BY <1>1
  <2>2. advertised \subseteq SNs \X Comms
    BY DEF IInv, TypeOK
  <2>3. QED
    BY <1>2, <2>1, <2>2
<1>7. net' \subseteq net \cup ms
  BY TransmitNet DEF Advertise
<1>8. \A m \in net : Honest(m, advertised')
  BY <1>5, RightKept DEF IInv, NetHonest
<1>9. QED
  BY <1>4, <1>5, <1>6, <1>7, <1>8 DEF NetHonest

\* The list of supernodes and its file.
LEMMA SaveSupernodesSaved ==
    ASSUME IInv, NEW s \in SNs, state[s] # "down", NEW sns \in SUBSET SNs,
           SaveSupernodes(s, sns), state' = state
    PROVE  SupersSaved' /\ supers' \in [SNs -> SUBSET SNs] /\ snFile' \in [SNs -> SUBSET SNs]
<1>1. supers \in [SNs -> SUBSET SNs] /\ snFile \in [SNs -> SUBSET SNs] /\ snFile[s] = supers[s]
  BY DEF IInv, TypeOK, SupersSaved
<1>2. supers' = [supers EXCEPT ![s] = @ \cup sns]
  BY DEF SaveSupernodes
<1>3. snFile' = [snFile EXCEPT ![s] = supers[s] \cup sns]
  BY <1>1 DEF SaveSupernodes
<1>4. \A t \in SNs : state'[t] # "down" => snFile'[t] = supers'[t]
  BY <1>1, <1>2, <1>3 DEF IInv, SupersSaved
<1>5. QED
  BY <1>1, <1>2, <1>3, <1>4 DEF SupersSaved

---------------------------------------------------------------------------
(* The actions.                                                            *)

LEMMA InitInv == Init => IInv
<1> SUFFICES ASSUME Init PROVE IInv
  OBVIOUS
<1>1. NoComms \in CommList
  BY NoCommsRight DEF Right
<1>2. TypeOK
  BY <1>1 DEF Init, TypeOK
<1>3. ListsRight
  BY NoCommsRight DEF Init, ListsRight
<1>4. NetHonest /\ SupersSaved
  BY DEF Init, NetHonest, SupersSaved
<1>5. QED
  BY <1>2, <1>3, <1>4 DEF IInv

LEMMA StartInv ==
    ASSUME IInv, NEW s \in SNs, Start(s)
    PROVE  IInv'
<1> DEFINE known == snFile[s] \cup CmdLine[s]
<1> USE DEF IInv
<1>1. known \in SUBSET SNs
  BY LimitsAssumption DEF TypeOK
<1>2. /\ supers' = [supers EXCEPT ![s] = known] /\ snFile' = [snFile EXCEPT ![s] = known]
      /\ comms' = [comms EXCEPT ![s] = NoComms] /\ persist' = [persist EXCEPT ![s] = commFile[s]]
      /\ commFile' = commFile /\ crashes' = crashes /\ advertised' = advertised /\ knew' = knew
  BY DEF Start, history
<1>3. PICK b \in BOOLEAN : Transmit({}, Requests(s, known, b))
  <2>1. (~(known = {})) \in BOOLEAN
    OBVIOUS
  <2>2. Transmit({}, Requests(s, known, ~(known = {})))
    BY DEF Start
  <2>3. QED
    BY <2>1, <2>2, Zenon
<1>4. PICK new \in {"READY", "DISCOVERY"} : state' = [state EXCEPT ![s] = new]
  BY DEF Start
<1>5. net' \subseteq net \cup Requests(s, known, b)
  BY <1>3, TransmitNet
<1> HIDE DEF known
<1>6. NetHonest'
  BY <1>1, <1>2, <1>3, <1>5, RequestsHonest DEF NetHonest
<1>7. ListsRight'
  <2> SUFFICES ASSUME NEW t \in SNs
               PROVE  Right(comms'[t], advertised) /\ Right(persist'[t], advertised)
                      /\ Right(commFile'[t], advertised)
    BY <1>2 DEF ListsRight
  <2>1. comms'[t] \in {comms[t], NoComms} /\ persist'[t] \in {persist[t], commFile[t]}
    BY <1>2 DEF TypeOK
  <2>2. QED
    BY <1>2, <2>1, NoCommsRight DEF ListsRight
<1>8. TypeOK'
  <2>1. comms' \in [SNs -> CommList] /\ persist' \in [SNs -> CommList]
    BY <1>2, NoCommsRight DEF TypeOK, Right
  <2>2. supers' \in [SNs -> SUBSET SNs] /\ snFile' \in [SNs -> SUBSET SNs]
    BY <1>1, <1>2 DEF TypeOK
  <2>3. state' \in [SNs -> {"down", "DISCOVERY", "READY"}]
    BY <1>4 DEF TypeOK
  <2>4. net' \subseteq Message
    BY <1>6 DEF NetHonest, Honest
  <2>5. QED
    BY <1>2, <2>1, <2>2, <2>3, <2>4 DEF TypeOK
<1>9. SupersSaved'
  BY <1>2, <1>4 DEF SupersSaved, TypeOK
<1>10. QED
  BY <1>6, <1>7, <1>8, <1>9

LEMMA RecvReqInv ==
    ASSUME IInv, NEW s \in SNs, NEW m \in net, RecvReq(s, m)
    PROVE  IInv'
<1> USE DEF IInv
<1>1. m \in Message /\ m.type = "REQ" /\ m.from \in SNs /\ m.C \in BOOLEAN
  BY DEF RecvReq, TypeOK, Message
<1>2. /\ Transmit({m}, {Response(s, m)}) /\ SaveSupernodes(s, {m.from}) /\ state[s] # "down"
      /\ UNCHANGED <<state, comms, persist, commFile, crashes, advertised, knew>>
  BY DEF RecvReq, history
<1>3. net' \subseteq net \cup {Response(s, m)}
  BY <1>2, TransmitNet
<1>4. Honest(Response(s, m), advertised)
  <2>1. PICK names \in SUBSET Comms :
           /\ Response(s, m) = [type |-> "RSP", from |-> s, to |-> m.from, C |-> m.C,
                                sns |-> supers[s], comms |-> names]
           /\ IsFiniteSet(names)
    <3>1. IsFiniteSet({})
      BY FS_EmptySet
    <3>2. IsFiniteSet(comms[s].names) /\ comms[s].names \in SUBSET Comms
      BY DEF ListsRight, Right, CommList
    <3>3. QED
      BY <3>1, <3>2 DEF Response
  <2>2. supers[s] \in SUBSET SNs
    BY DEF TypeOK
  <2>3. Response(s, m) \in Message
    BY <1>1, <2>1, <2>2 DEF Message
  <2>4. QED
    BY <2>1, <2>3 DEF Honest
<1>5. NetHonest'
  BY <1>2, <1>3, <1>4 DEF NetHonest
<1>6. /\ SupersSaved' /\ supers' \in [SNs -> SUBSET SNs] /\ snFile' \in [SNs -> SUBSET SNs]
  <2>1. {m.from} \in SUBSET SNs
    BY <1>1
  <2>2. QED
    BY <1>2, <2>1, SaveSupernodesSaved
<1>7. ListsRight'
  BY <1>2 DEF ListsRight
<1>8. TypeOK'
  <2>1. net' \subseteq Message
    BY <1>5 DEF NetHonest, Honest
  <2>2. QED
    BY <1>2, <1>6, <2>1 DEF TypeOK
<1>9. QED
  BY <1>5, <1>6, <1>7, <1>8

LEMMA RecvRspInv ==
    ASSUME IInv, NEW s \in SNs, NEW m \in net, RecvRsp(s, m)
    PROVE  IInv'
<1> USE DEF IInv
<1> DEFINE heard == [comms[s] EXCEPT !.names = @ \cup m.comms]
           queried == WithSupernode(heard, m.comms, SnmAddr(m.from))
<1>1. /\ m \in Message /\ m.type = "RSP" /\ m.from \in SNs /\ m.sns \in SUBSET SNs
      /\ m.comms \in SUBSET Comms
  BY DEF RecvRsp, TypeOK, Message
<1>2. IsFiniteSet(m.comms)
  BY <1>1 DEF NetHonest, Honest
<1>3. /\ Transmit({m}, Requests(s, m.sns \ supers[s], TRUE)) /\ SaveSupernodes(s, m.sns)
      /\ state[s] # "down" /\ comms' = [comms EXCEPT ![s] = queried]
      /\ UNCHANGED <<state, persist, commFile, crashes, advertised, knew>>
  <2>1. comms' = [comms EXCEPT ![s] = queried]
    BY Zenon DEF RecvRsp
  <2>2. /\ Transmit({m}, Requests(s, m.sns \ supers[s], TRUE)) /\ SaveSupernodes(s, m.sns)
        /\ state[s] # "down"
        /\ UNCHANGED <<state, persist, commFile, crashes, advertised, knew>>
    <3> HIDE DEF queried
    <3>1. QED
      BY DEF RecvRsp, history
  <2>3. QED
    BY <2>1, <2>2
<1>4. NetHonest'
  <2>1. net' \subseteq net \cup Requests(s, m.sns \ supers[s], TRUE)
    BY <1>3, TransmitNet
  <2>2. m.sns \ supers[s] \in SUBSET SNs
    BY <1>1
  <2>3. \A k \in Requests(s, m.sns \ supers[s], TRUE) : Honest(k, advertised)
    BY <2>2, RequestsHonest
  <2>4. QED
    BY <1>3, <2>1, <2>3 DEF NetHonest
<1>5. Right(queried, advertised)
  <2>1. Right(comms[s], advertised)
    BY DEF ListsRight
  <2>2. Right(heard, advertised)
    BY <1>1, <1>2, <2>1, CommunityRight
  <2>3. SnmAddr(m.from) \in Addresses
    BY <1>1 DEF Addresses
  <2>4. \A t \in SNs, c \in m.comms : SnmAddr(m.from) = AdvAddr(t) => <<t, c>> \in advertised
    BY AddressesDiffer
  <2> HIDE DEF heard
  <2>5. QED
    BY <1>1, <2>2, <2>3, <2>4, SupernodeRight
<1> HIDE DEF queried
<1>6. ListsRight'
  <2> SUFFICES ASSUME NEW t \in SNs
               PROVE  Right(comms'[t], advertised) /\ Right(persist'[t], advertised)
                      /\ Right(commFile'[t], advertised)
    BY <1>3 DEF ListsRight
  <2>1. comms'[t] \in {comms[t], queried}
    BY <1>3 DEF TypeOK
  <2>2. QED
    BY <1>3, <1>5, <2>1 DEF ListsRight
<1>7. /\ SupersSaved' /\ supers' \in [SNs -> SUBSET SNs] /\ snFile' \in [SNs -> SUBSET SNs]
  BY <1>1, <1>3, SaveSupernodesSaved
<1>8. TypeOK'
  <2>1. net' \subseteq Message
    BY <1>4 DEF NetHonest, Honest
  <2>2. comms' \in [SNs -> CommList]
    BY <1>3, <1>5 DEF TypeOK, Right
  <2>3. QED
    BY <1>3, <1>7, <2>1, <2>2 DEF TypeOK
<1>9. QED
  BY <1>4, <1>6, <1>7, <1>8

LEMMA RecvAdvInv ==
    ASSUME IInv, NEW s \in SNs, NEW m \in net, RecvAdv(s, m)
    PROVE  IInv'
<1> USE DEF IInv
<1> DEFINE list == WithSupernode(comms[s], m.comms \cap comms[s].names, AdvAddr(m.from))
<1>1. /\ m \in Message /\ m.type = "ADV" /\ m.from \in SNs /\ m.comms \in SUBSET Comms
      /\ \A c \in m.comms : <<m.from, c>> \in advertised
  BY DEF RecvAdv, TypeOK, Message, NetHonest, Honest
<1>2. Right(comms[s], advertised)
  BY DEF ListsRight
<1>3. /\ Right(list, advertised) /\ list.names = comms[s].names
  <2>1. m.comms \cap comms[s].names \in SUBSET Comms
    BY <1>1
  <2>2. AdvAddr(m.from) \in Addresses
    BY <1>1 DEF Addresses
  <2>3. \A t \in SNs, c \in m.comms \cap comms[s].names :
           AdvAddr(m.from) = AdvAddr(t) => <<t, c>> \in advertised
    BY <1>1, AddressesDiffer
  <2> DEFINE names == m.comms \cap comms[s].names
             addr  == AdvAddr(m.from)
  <2>4. names \in SUBSET Comms /\ addr \in Addresses
    BY <2>1, <2>2
  <2>5. \A t \in SNs, c \in names : addr = AdvAddr(t) => <<t, c>> \in advertised
    BY <2>3
  <2> HIDE DEF names, addr
  <2>6. /\ Right(WithSupernode(comms[s], names, addr), advertised)
        /\ WithSupernode(comms[s], names, addr).names = comms[s].names
    BY <1>2, <2>4, <2>5, SupernodeRight
  <2>7. QED
    BY <2>6 DEF names, addr
<1>4. /\ SaveSupernodes(s, {m.from}) /\ state[s] # "down"
      /\ comms' = [comms EXCEPT ![s] = list]
      /\ commFile' = [commFile EXCEPT ![s] = IF list # comms[s] THEN list ELSE @]
      /\ UNCHANGED <<state, persist, crashes, knew>>
  BY DEF RecvAdv
<1>5. PICK ms \in {{}, Advertisements(s, {m.from}, list.names)} : Advertise({m}, ms)
  BY DEF RecvAdv
<1> HIDE DEF list
<1>6. NetHonest' /\ advertised' \in SUBSET (SNs \X Comms) /\ advertised \subseteq advertised'
  <2>1. list.names \in SUBSET Comms /\ IsFiniteSet(list.names) /\ {m.from} \in SUBSET SNs
    BY <1>1, <1>3 DEF Right, CommList
  <2>2. QED
    BY <1>5, <2>1, AdvertiseHonest
<1>7. ListsRight'
  <2> SUFFICES ASSUME NEW t \in SNs
               PROVE  Right(comms'[t], advertised') /\ Right(persist'[t], advertised')
                      /\ Right(commFile'[t], advertised')
    BY DEF ListsRight
  <2>1. comms'[t] \in {comms[t], list} /\ commFile'[t] \in {commFile[t], list}
    BY <1>4 DEF TypeOK
  <2>2. QED
    BY <1>3, <1>4, <1>6, <2>1, RightKept DEF ListsRight
<1>8. SupersSaved' /\ supers' \in [SNs -> SUBSET SNs] /\ snFile' \in [SNs -> SUBSET SNs]
  <2>1. {m.from} \in SUBSET SNs
    BY <1>1
  <2>2. QED
    BY <1>4, <2>1, SaveSupernodesSaved
<1>9. TypeOK'
  <2>1. net' \subseteq Message
    BY <1>6 DEF NetHonest, Honest
  <2>2. comms' \in [SNs -> CommList] /\ commFile' \in [SNs -> CommList]
    BY <1>3, <1>4 DEF TypeOK, Right
  <2>3. QED
    BY <1>4, <1>6, <1>8, <2>1, <2>2 DEF TypeOK
<1>10. QED
  BY <1>6, <1>7, <1>8, <1>9

LEMMA IgnoreInv ==
    ASSUME IInv, NEW s \in SNs, NEW m \in net, Ignore(s, m)
    PROVE  IInv'
<1> USE DEF IInv
<1>1. /\ Transmit({m}, {})
      /\ UNCHANGED <<state, supers, comms, persist, snFile, commFile, crashes, advertised, knew>>
  BY DEF Ignore, memory, files, history
<1>2. net' \subseteq net
  BY <1>1, TransmitNet
<1>3. QED
  BY <1>1, <1>2 DEF TypeOK, ListsRight, NetHonest, SupersSaved

LEMMA EdgeJoinInv ==
    ASSUME IInv, NEW s \in SNs, NEW c \in Comms, EdgeJoin(s, c)
    PROVE  IInv'
<1> USE DEF IInv
<1> DEFINE list == WithCommunity(comms[s], c)
<1>1. /\ comms' = [comms EXCEPT ![s] = list] /\ commFile' = [commFile EXCEPT ![s] = list]
      /\ Advertise({}, Advertisements(s, supers[s], {c}))
      /\ knew' = [knew EXCEPT ![s][c] = supers[s]]
      /\ UNCHANGED <<state, supers, persist, snFile, crashes>>
  BY DEF EdgeJoin
<1>2. IsFiniteSet({c}) /\ {c} \in SUBSET Comms
  BY FS_Singleton
<1>3. Right(list, advertised)
  BY <1>2, CommunityRight DEF ListsRight, WithCommunity
<1>4. NetHonest' /\ advertised' \in SUBSET (SNs \X Comms) /\ advertised \subseteq advertised'
  <2>1. supers[s] \in SUBSET SNs
    BY DEF TypeOK
  <2>2. QED
    BY <1>1, <1>2, <2>1, AdvertiseHonest
<1> HIDE DEF list
<1>5. ListsRight'
  <2> SUFFICES ASSUME NEW t \in SNs
               PROVE  Right(comms'[t], advertised') /\ Right(persist'[t], advertised')
                      /\ Right(commFile'[t], advertised')
    BY DEF ListsRight
  <2>1. comms'[t] \in {comms[t], list} /\ commFile'[t] \in {commFile[t], list}
    BY <1>1 DEF TypeOK
  <2>2. QED
    BY <1>1, <1>3, <1>4, <2>1, RightKept DEF ListsRight
<1>6. TypeOK'
  <2>1. net' \subseteq Message
    BY <1>4 DEF NetHonest, Honest
  <2>2. comms' \in [SNs -> CommList] /\ commFile' \in [SNs -> CommList]
    BY <1>1, <1>3 DEF TypeOK, Right
  <2>3. knew' \in [SNs -> [Comms -> SUBSET SNs]]
    BY <1>1 DEF TypeOK
  <2>4. QED
    BY <1>1, <1>4, <2>1, <2>2, <2>3 DEF TypeOK
<1>7. SupersSaved'
  BY <1>1 DEF SupersSaved
<1>8. QED
  BY <1>4, <1>5, <1>6, <1>7

\* What discovery takes up is finite, and leaves room for the stored ones.
LEMMA VolunteersFit ==
    ASSUME IInv, NEW s \in SNs, NEW new \in Volunteers(s)
    PROVE  /\ new \in SUBSET Comms /\ IsFiniteSet(new) /\ new \cap persist[s].names = {}
           /\ new # {} => Cardinality(persist[s].names \cup new) <= MaxComm
<1>1. /\ comms[s] \in CommList /\ persist[s] \in CommList
      /\ IsFiniteSet(comms[s].names) /\ IsFiniteSet(persist[s].names)
  BY DEF IInv, ListsRight, Right
<1>2. /\ new \subseteq comms[s].names /\ new \cap persist[s].names = {}
      /\ Cardinality(new) <= MaxComm - Cardinality(persist[s].names) \/ new = {}
  BY DEF Volunteers
<1>3. new \in SUBSET Comms
  BY <1>1, <1>2 DEF CommList
<1>4. IsFiniteSet(new)
  BY <1>1, <1>2, FS_Subset
<1>5. ASSUME new # {}
      PROVE  Cardinality(persist[s].names \cup new) <= MaxComm
  <2> DEFINE a == Cardinality(persist[s].names)
             b == Cardinality(new)
             u == Cardinality(persist[s].names \cup new)
             i == Cardinality(persist[s].names \cap new)
  <2>1. persist[s].names \cap new = {}
    BY <1>2
  <2>2. i = 0
    BY <2>1, FS_EmptySet
  <2>3. u = a + b - i
    BY <1>1, <1>4, FS_Union
  <2>4. a \in Nat /\ b \in Nat
    BY <1>1, <1>4, FS_CardinalityType
  <2>5. b <= MaxComm - a
    BY <1>2, <1>5
  <2> HIDE DEF a, b, u, i
  <2>6. u <= MaxComm
    BY <2>2, <2>3, <2>4, <2>5, LimitsAssumption
  <2>7. QED
    BY <2>6 DEF u
<1>6. QED
  BY <1>2, <1>3, <1>4, <1>5

LEMMA DiscoveryEndInv ==
    ASSUME IInv, NEW s \in SNs, DiscoveryEnd(s)
    PROVE  IInv'
<1> USE DEF IInv
<1>1. PICK new \in Volunteers(s) :
         LET names == persist[s].names \cup new
         IN  /\ comms' = [comms EXCEPT ![s] = [persist[s] EXCEPT !.names = names]]
             /\ Advertise({}, IF names = {} THEN {} ELSE Advertisements(s, supers[s], names))
             /\ knew' = [knew EXCEPT ![s] = [c \in Comms |->
                             IF c \in new THEN supers[s] ELSE @[c]]]
  BY DEF DiscoveryEnd
<1> DEFINE names == persist[s].names \cup new
           list  == [persist[s] EXCEPT !.names = @ \cup new]
<1>2. new \in SUBSET Comms /\ IsFiniteSet(new)
  BY VolunteersFit
<1>3. Right(persist[s], advertised)
  BY DEF ListsRight
<1>4. Right(list, advertised)
  BY <1>2, <1>3, CommunityRight
<1>5. names \in SUBSET Comms /\ IsFiniteSet(names)
  <2>1. IsFiniteSet(persist[s].names) /\ persist[s].names \in SUBSET Comms
    BY <1>3 DEF Right, CommList
  <2>2. QED
    BY <1>2, <2>1, FS_Union
<1>6. comms' = [comms EXCEPT ![s] = list]
  BY <1>1
<1>7. PICK ms \in {{}, Advertisements(s, supers[s], names)} : Advertise({}, ms)
  BY <1>1
<1>8. /\ state' = [state EXCEPT ![s] = "READY"]
      /\ UNCHANGED <<supers, persist, snFile, commFile, crashes>>
  BY DEF DiscoveryEnd, files
<1>9. knew' \in [SNs -> [Comms -> SUBSET SNs]]
  BY <1>1 DEF TypeOK
<1> HIDE DEF list, names
<1>10. NetHonest' /\ advertised' \in SUBSET (SNs \X Comms) /\ advertised \subseteq advertised'
  <2>1. supers[s] \in SUBSET SNs
    BY DEF TypeOK
  <2>2. QED
    BY <1>5, <1>7, <2>1, AdvertiseHonest
<1>11. ListsRight'
  <2> SUFFICES ASSUME NEW t \in SNs
               PROVE  Right(comms'[t], advertised') /\ Right(persist'[t], advertised')
                      /\ Right(commFile'[t], advertised')
    BY DEF ListsRight
  <2>1. comms'[t] \in {comms[t], list}
    BY <1>6 DEF TypeOK
  <2>2. QED
    BY <1>4, <1>8, <1>10, <2>1, RightKept DEF ListsRight
<1>12. TypeOK'
  <2>1. net' \subseteq Message
    BY <1>10 DEF NetHonest, Honest
  <2>2. comms' \in [SNs -> CommList]
    BY <1>4, <1>6 DEF TypeOK, Right
  <2>3. state' \in [SNs -> {"down", "DISCOVERY", "READY"}]
    BY <1>8 DEF TypeOK
  <2>4. QED
    BY <1>8, <1>9, <1>10, <2>1, <2>2, <2>3 DEF TypeOK
<1>13. SupersSaved'
  <2>1. state[s] # "down"
    BY DEF DiscoveryEnd
  <2>2. QED
    BY <1>8, <2>1 DEF SupersSaved, TypeOK
<1>14. QED
  BY <1>10, <1>11, <1>12, <1>13

LEMMA CrashInv ==
    ASSUME IInv, NEW s \in SNs, Crash(s)
    PROVE  IInv'
<1> USE DEF IInv
<1>1. /\ state' = [state EXCEPT ![s] = "down"] /\ supers' = [supers EXCEPT ![s] = {}]
      /\ comms' = [comms EXCEPT ![s] = NoComms] /\ persist' = [persist EXCEPT ![s] = NoComms]
      /\ crashes' = crashes + 1
      /\ UNCHANGED <<snFile, commFile, net, advertised, knew>>
  BY DEF Crash, files, history
<1>2. ListsRight'
  <2> SUFFICES ASSUME NEW t \in SNs
               PROVE  Right(comms'[t], advertised) /\ Right(persist'[t], advertised)
                      /\ Right(commFile'[t], advertised)
    BY <1>1 DEF ListsRight
  <2>1. comms'[t] \in {comms[t], NoComms} /\ persist'[t] \in {persist[t], NoComms}
    BY <1>1 DEF TypeOK
  <2>2. QED
    BY <1>1, <2>1, NoCommsRight DEF ListsRight
<1>3. TypeOK'
  <2>1. NoComms \in CommList
    BY NoCommsRight DEF Right
  <2>2. QED
    BY <1>1, <2>1 DEF TypeOK
<1>4. NetHonest' /\ SupersSaved'
  BY <1>1 DEF NetHonest, SupersSaved, TypeOK
<1>5. QED
  BY <1>2, <1>3, <1>4

---------------------------------------------------------------------------
(* The invariant.                                                          *)

\* Every step keeps IInv.
LEMMA StepInv == IInv /\ [Next]_vars => IInv'
<1> SUFFICES ASSUME IInv, [Next]_vars
             PROVE  IInv'
  OBVIOUS
<1>1. CASE UNCHANGED vars
  BY <1>1 DEF IInv, TypeOK, ListsRight, NetHonest, SupersSaved, vars
<1>2. CASE Next
  <2> SUFFICES ASSUME NEW s \in SNs,
                      \/ Start(s)
                      \/ \E m \in net : Receive(s, m)
                      \/ \E c \in Comms : EdgeJoin(s, c)
                      \/ DiscoveryEnd(s)
                      \/ Crash(s)
               PROVE  IInv'
    BY <1>2 DEF Next
  <2>1. CASE Start(s)
    BY <2>1, StartInv
  <2>2. ASSUME NEW m \in net, Receive(s, m)
        PROVE  IInv'
    BY <2>2, RecvReqInv, RecvRspInv, RecvAdvInv, IgnoreInv DEF Receive
  <2>3. ASSUME NEW c \in Comms, EdgeJoin(s, c)
        PROVE  IInv'
    BY <2>3, EdgeJoinInv
  <2>4. CASE DiscoveryEnd(s)
    BY <2>4, DiscoveryEndInv
  <2>5. CASE Crash(s)
    BY <2>5, CrashInv
  <2>6. QED
    BY <2>1, <2>2, <2>3, <2>4, <2>5
<1>3. QED
  BY <1>1, <1>2

LEMMA Invariance == Spec => []IInv
<1>1. Init => IInv
  BY InitInv
<1>2. IInv /\ [Next]_vars => IInv'
  BY StepInv
<1>3. QED
  BY <1>1, <1>2, PTL DEF Spec

---------------------------------------------------------------------------
(* The theorems.                                                           *)

\* All lists, files and messages are of supernodes and communities there are,
\* for any number of both, any losses, duplicates and crashes.
THEOREM TypeCorrect == Spec => []TypeOK
<1>1. IInv => TypeOK
  BY DEF IInv
<1>2. QED
  BY <1>1, Invariance, PTL

\* A running supernode's file of supernodes is its list: a crash forgets nobody
\* (load_snm_info, update_and_save_supernodes).
THEOREM SupernodesSaved == Spec => []SupersSaved
<1>1. IInv => SupersSaved
  BY DEF IInv
<1>2. QED
  BY <1>1, Invariance, PTL

\* No list of counterparts outgrows the array of REGISTER_SUPER_ACK, whatever
\* files, responses and advertisements brought into it.
THEOREM AddressListsFit == Spec => []BackupListFits
<1>1. IInv => BackupListFits
  BY DEF IInv, ListsRight, Right, BackupListFits
<1>2. QED
  BY <1>1, Invariance, PTL

\* Whoever is listed as a counterpart for a community, in memory or in a file,
\* did advertise that community.
THEOREM CounterpartsAdvertised == Spec => []CounterpartAdvertised
<1>1. IInv => CounterpartAdvertised
  BY DEF IInv, ListsRight, Right, CounterpartAdvertised
<1>2. QED
  BY <1>1, Invariance, PTL

\* An ADV adds to the list of a supernode, and takes nothing from it.
LEMMA AdvGrows ==
    ASSUME IInv, NEW s \in SNs, NEW m \in net, RecvAdv(s, m)
    PROVE  /\ comms[s].names \subseteq comms'[s].names
           /\ \A c \in Comms : comms[s].sns[c] \subseteq comms'[s].sns[c]
<1> DEFINE names == m.comms \cap comms[s].names
           addr  == AdvAddr(m.from)
<1>1. comms'[s] = WithSupernode(comms[s], names, addr)
  BY DEF RecvAdv, IInv, TypeOK
<1>2. comms[s] \in [names: SUBSET Comms, sns: [Comms -> SUBSET Addresses]]
  BY DEF IInv, TypeOK, CommList
<1> HIDE DEF names, addr
<1>3. /\ WithSupernode(comms[s], names, addr).names = comms[s].names
      /\ \A c \in Comms : comms[s].sns[c] \subseteq WithSupernode(comms[s], names, addr).sns[c]
  BY <1>2 DEF WithSupernode
<1>4. QED
  BY <1>1, <1>3

\* No step takes anything from the list of a supernode that is READY before and
\* after it.
LEMMA ReadyStep ==
    ASSUME IInv, Next, NEW t \in SNs, state[t] = "READY", state'[t] = "READY"
    PROVE  /\ comms[t].names \subseteq comms'[t].names
           /\ \A c \in Comms : comms[t].sns[c] \subseteq comms'[t].sns[c]
<1> DEFINE Kept == /\ comms[t].names \subseteq comms'[t].names
                  /\ \A c \in Comms : comms[t].sns[c] \subseteq comms'[t].sns[c]
<1>1. PICK s \in SNs : \/ Start(s)
                       \/ \E m \in net : Receive(s, m)
                       \/ \E c \in Comms : EdgeJoin(s, c)
                       \/ DiscoveryEnd(s)
                       \/ Crash(s)
  BY DEF Next
<1>2. comms'[t] = comms[t] => Kept
  OBVIOUS
<1>3. CASE Start(s)
  <2>1. s # t /\ comms'[t] = comms[t]
    BY <1>3 DEF Start, IInv, TypeOK
  <2>2. QED
    BY <1>2, <2>1
<1>4. ASSUME NEW m \in net, Receive(s, m)
      PROVE  Kept
  <2>1. CASE RecvReq(s, m) \/ Ignore(s, m)
    BY <1>2, <2>1 DEF RecvReq, Ignore, memory
  <2>2. CASE RecvRsp(s, m)
    <3>1. state[s] = "DISCOVERY" /\ comms' = [comms EXCEPT ![s] = comms'[s]]
      BY <2>2 DEF RecvRsp, IInv, TypeOK
    <3>2. QED
      BY <1>2, <3>1 DEF IInv, TypeOK
  <2>3. CASE RecvAdv(s, m)
    <3>1. CASE s = t
      BY <2>3, <3>1, AdvGrows
    <3>2. CASE s # t
      BY <1>2, <2>3, <3>2 DEF RecvAdv, IInv, TypeOK
    <3>3. QED
      BY <3>1, <3>2
  <2>4. QED
    BY <1>4, <2>1, <2>2, <2>3 DEF Receive
<1>5. ASSUME NEW c \in Comms, EdgeJoin(s, c)
      PROVE  Kept
  <2>1. CASE s = t
    <3>1. comms'[t] = WithCommunity(comms[t], c) /\ comms[t] \in CommList
      BY <1>5, <2>1 DEF EdgeJoin, IInv, TypeOK
    <3>2. QED
      BY <3>1 DEF WithCommunity, CommList
  <2>2. CASE s # t
    BY <1>2, <1>5, <2>2 DEF EdgeJoin, IInv, TypeOK
  <2>3. QED
    BY <2>1, <2>2
<1>6. CASE DiscoveryEnd(s)
  <2>1. s # t /\ comms'[t] = comms[t]
    BY <1>6 DEF DiscoveryEnd, IInv, TypeOK
  <2>2. QED
    BY <1>2, <2>1
<1>7. CASE Crash(s)
  <2>1. s # t /\ comms'[t] = comms[t]
    BY <1>7 DEF Crash, IInv, TypeOK
  <2>2. QED
    BY <1>2, <2>1
<1>8. QED
  BY <1>1, <1>3, <1>4, <1>5, <1>6, <1>7

\* What discovery ends with holds all stored communities, and more than those only
\* up to the limit.
LEMMA DiscoveryStep ==
    ASSUME IInv, Next, NEW t \in SNs, state[t] = "DISCOVERY", state'[t] = "READY"
    PROVE  /\ comms'[t].names # persist[t].names => Cardinality(comms'[t].names) <= MaxComm
           /\ persist[t].names \subseteq comms'[t].names
<1>1. PICK s \in SNs : \/ Start(s)
                       \/ \E m \in net : Receive(s, m)
                       \/ \E c \in Comms : EdgeJoin(s, c)
                       \/ DiscoveryEnd(s)
                       \/ Crash(s)
  BY DEF Next
<1>2. state' # state
  OBVIOUS
<1>3. ~Start(s)
  BY DEF Start, IInv, TypeOK
<1>4. \A m \in net : ~Receive(s, m)
  BY <1>2 DEF Receive, RecvReq, RecvRsp, RecvAdv, Ignore
<1>5. \A c \in Comms : ~EdgeJoin(s, c)
  BY <1>2 DEF EdgeJoin
<1>6. ~Crash(s)
  BY DEF Crash, IInv, TypeOK
<1>7. DiscoveryEnd(s)
  BY <1>1, <1>3, <1>4, <1>5, <1>6
<1>8. s = t
  BY <1>7 DEF DiscoveryEnd, IInv, TypeOK
<1>9. PICK new \in Volunteers(s) :
         comms' = [comms EXCEPT ![s] = [persist[s] EXCEPT !.names = persist[s].names \cup new]]
  BY <1>7 DEF DiscoveryEnd
<1>10. comms'[t].names = persist[t].names \cup new
  BY <1>8, <1>9 DEF IInv, TypeOK, CommList
<1>11. new # {} => Cardinality(persist[t].names \cup new) <= MaxComm
  BY <1>8, VolunteersFit
<1>12. QED
  BY <1>10, <1>11

\* A supernode that stays up and READY keeps its communities and its counterparts.
THEOREM ReadyKeeps == Spec => ReadyOnlyGrows
<1> DEFINE Step == \A s \in SNs : state[s] = "READY" /\ state'[s] = "READY" =>
                      /\ comms[s].names \subseteq comms'[s].names
                      /\ \A c \in Comms : comms[s].sns[c] \subseteq comms'[s].sns[c]
<1>1. IInv /\ [Next]_vars => [Step]_vars
  BY ReadyStep
<1>2. QED
  BY <1>1, Invariance, PTL DEF Spec, ReadyOnlyGrows

\* Discovery respects the soft limit and gives up no stored community.
THEOREM WithinLimit == Spec => VolunteersWithinLimit
<1> DEFINE Step == \A s \in SNs : state[s] = "DISCOVERY" /\ state'[s] = "READY" =>
                      /\ comms'[s].names # persist[s].names => Cardinality(comms'[s].names) <= MaxComm
                      /\ persist[s].names \subseteq comms'[s].names
<1>1. IInv /\ [Next]_vars => [Step]_vars
  BY DiscoveryStep
<1>2. QED
  BY <1>1, Invariance, PTL DEF Spec, VolunteersWithinLimit

---------------------------------------------------------------------------
(* Coordinators of a community learn of each other.                        *)

\* An ADV of s for c is under way to t.
Pending(s, t, c) == \E m \in net : m.type = "ADV" /\ m.from = s /\ m.to = t /\ c \in m.comms

\* The list of t for c has no place left.
Full(t, c) == Cardinality(comms[t].sns[c]) = MaxSn

\* t has the address of s, or will have it as long as it coordinates c and has room.
Told(s, t, c) == Lists(t, s, c) \/ Full(t, c) \/ Pending(s, t, c)

\* No supernode ever forgets whom it knew when it took up a community.
KnewKept == \A s \in SNs, c \in Comms : knew[s][c] \subseteq snFile[s]

OneSideTold ==
    \A s, t \in SNs, c \in Comms :
        Coordinates(s, c) /\ Coordinates(t, c) /\ Met(s, t, c) => Told(s, t, c) \/ Told(t, s, c)

MeetInv == KnewKept /\ OneSideTold

\* The actions of a supernode.
Acts(s) ==
    \/ Start(s)
    \/ \E m \in net : Receive(s, m)
    \/ \E c \in Comms : EdgeJoin(s, c)
    \/ DiscoveryEnd(s)
    \/ Crash(s)

\* Nothing is lost: what is not taken stays, what is sent is under way.
LEMMA NothingLost ==
    ASSUME ~Lossy, NEW taken, NEW sent, Transmit(taken, sent)
    PROVE  net' = (net \ taken) \cup sent
BY DEF Transmit

\* An ADV for t is taken by t alone.
LEMMA AdvTaken ==
    ASSUME ~Lossy, IInv, NEW x \in SNs, Acts(x), NEW m \in net, m.type = "ADV", m \notin net'
    PROVE  m.to = x /\ (RecvAdv(x, m) \/ state[x] = "down")
<1>1. CASE Start(x)
  <2>1. PICK b : Transmit({}, Requests(x, snFile[x] \cup CmdLine[x], b))
    BY <1>1 DEF Start
  <2>2. QED
    BY <2>1, NothingLost
<1>2. ASSUME NEW d \in net, Receive(x, d) PROVE m.to = x /\ (RecvAdv(x, m) \/ state[x] = "down")
  <2>1. PICK sent : Transmit({d}, sent)
    BY <1>2 DEF Receive, RecvReq, RecvRsp, RecvAdv, Ignore, Advertise
  <2>2. m = d
    BY <2>1, NothingLost
  <2>3. QED
    BY <1>2, <2>2 DEF Receive, RecvReq, RecvRsp, Ignore
<1>3. ASSUME NEW c \in Comms, EdgeJoin(x, c) PROVE FALSE
  <2>1. PICK sent : Transmit({}, sent)
    BY <1>3 DEF EdgeJoin, Advertise
  <2>2. QED
    BY <2>1, NothingLost
<1>4. CASE DiscoveryEnd(x)
  <2>1. PICK sent : Transmit({}, sent)
    BY <1>4 DEF DiscoveryEnd, Advertise
  <2>2. QED
    BY <2>1, NothingLost
<1>5. CASE Crash(x)
  BY <1>5 DEF Crash
<1>6. QED
  BY <1>1, <1>2, <1>3, <1>4, <1>5 DEF Acts

\* An ADV that is taken tells its receiver.
LEMMA AdvTells ==
    ASSUME IInv, NEW t \in SNs, NEW m \in net, RecvAdv(t, m), NEW c \in comms[t].names, c \in m.comms
    PROVE  Lists(t, m.from, c)' \/ Full(t, c)
<1> DEFINE names == m.comms \cap comms[t].names
           addr  == AdvAddr(m.from)
<1>1. comms'[t] = WithSupernode(comms[t], names, addr)
  BY DEF RecvAdv, IInv, TypeOK
<1>2. comms[t] \in [names: SUBSET Comms, sns: [Comms -> SUBSET Addresses]]
  BY DEF IInv, TypeOK, CommList
<1>3. c \in names /\ c \in Comms
  BY <1>2
<1> HIDE DEF names
<1>4. comms'[t].sns = [d \in Comms |-> IF d \in names /\ Cardinality(comms[t].sns[d]) # MaxSn
                                       THEN comms[t].sns[d] \cup {addr} ELSE comms[t].sns[d]]
  BY <1>1, <1>2 DEF WithSupernode
<1>5. Full(t, c) \/ addr \in comms'[t].sns[c]
  BY <1>3, <1>4 DEF Full
<1>6. QED
  BY <1>5 DEF Lists, AdvAddr

\* A full list stays full.
LEMMA FullStays ==
    ASSUME IInv, IInv', Next, NEW t \in SNs, state[t] = "READY", state'[t] = "READY",
           NEW c \in Comms, Full(t, c)
    PROVE  Full(t, c)'
<1>1. comms[t].sns[c] \subseteq comms'[t].sns[c]
  BY ReadyStep
<1>2. IsFiniteSet(comms'[t].sns[c]) /\ Cardinality(comms'[t].sns[c]) <= MaxSn
  BY DEF IInv, ListsRight, Right
<1> DEFINE n == Cardinality(comms'[t].sns[c])
<1>3. Cardinality(comms[t].sns[c]) <= n
  BY <1>1, <1>2, FS_Subset
<1>4. n \in Nat /\ n <= MaxSn
  BY <1>2, FS_CardinalityType
<1>5. MaxSn <= n
  BY <1>3 DEF Full
<1> HIDE DEF n
<1>6. n = MaxSn
  BY <1>4, <1>5, LimitsAssumption
<1>7. QED
  BY <1>6 DEF Full, n

\* Who has been told, or will be, stays so while it coordinates the community.
LEMMA ToldStays ==
    ASSUME ~Lossy, IInv, IInv', NEW x \in SNs, Acts(x),
           NEW s \in SNs, NEW t \in SNs, NEW c \in Comms,
           Coordinates(t, c), Coordinates(t, c)', Told(s, t, c)
    PROVE  Told(s, t, c)'
<1>1. Next /\ state[t] = "READY" /\ state'[t] = "READY"
  BY DEF Next, Acts, Coordinates
<1>2. CASE Lists(t, s, c)
  <2>1. comms[t].sns[c] \subseteq comms'[t].sns[c]
    BY <1>1, ReadyStep
  <2>2. Lists(t, s, c)'
    BY <1>2, <2>1 DEF Lists, AdvAddr
  <2>3. QED
    BY <2>2 DEF Told
<1>3. CASE Full(t, c)
  BY <1>1, <1>3, FullStays DEF Told
<1>4. CASE Pending(s, t, c)
  <2>1. PICK m \in net : m.type = "ADV" /\ m.from = s /\ m.to = t /\ c \in m.comms
    BY <1>4 DEF Pending
  <2>2. CASE m \in net'
    BY <2>1, <2>2 DEF Told, Pending
  <2>3. CASE m \notin net'
    <3>1. x = t /\ RecvAdv(t, m)
      BY <1>1, <2>1, <2>3, AdvTaken
    <3>2. Lists(t, s, c)' \/ Full(t, c)
      BY <2>1, <3>1, AdvTells DEF Coordinates
    <3>3. QED
      BY <1>1, <3>2, FullStays DEF Told
  <2>4. QED
    BY <2>2, <2>3
<1>5. QED
  BY <1>2, <1>3, <1>4 DEF Told

\* Whoever begins to coordinate a community tells all it knew when it took it up,
\* and nothing changes whom the others knew.
LEMMA NewCoordinator ==
    ASSUME ~Lossy, IInv, KnewKept, NEW x \in SNs, Acts(x), NEW s \in SNs, NEW c \in Comms,
           Coordinates(s, c)'
    PROVE  IF Coordinates(s, c) THEN knew'[s][c] = knew[s][c]
           ELSE \A t \in knew'[s][c] : Pending(s, t, c)'
<1>1. /\ state \in [SNs -> {"down", "DISCOVERY", "READY"}] /\ supers \in [SNs -> SUBSET SNs]
      /\ comms \in [SNs -> CommList] /\ persist \in [SNs -> CommList]
      /\ knew \in [SNs -> [Comms -> SUBSET SNs]]
  BY DEF IInv, TypeOK
<1>2. state'[s] = "READY" /\ c \in comms'[s].names
  BY DEF Coordinates
<1>3. CASE UNCHANGED <<state[s], comms[s].names, knew[s][c]>>
  BY <1>2, <1>3 DEF Coordinates
<1>4. ASSUME NEW names, c \in names, Advertise({}, Advertisements(s, supers[s], names))
      PROVE  \A t \in supers[s] : Pending(s, t, c)'
  <2> SUFFICES ASSUME NEW t \in supers[s] PROVE Pending(s, t, c)'
    OBVIOUS
  <2> DEFINE m == [type |-> "ADV", from |-> s, to |-> t, A |-> state[s] # "READY", comms |-> names]
  <2>1. net' = (net \ {}) \cup Advertisements(s, supers[s], names)
    BY <1>4, NothingLost DEF Advertise
  <2>2. m \in Advertisements(s, supers[s], names)
    BY DEF Advertisements
  <2>3. m.type = "ADV" /\ m.from = s /\ m.to = t /\ m.comms = names
    OBVIOUS
  <2> HIDE DEF m
  <2>4. m \in net'
    BY <2>1, <2>2
  <2>5. QED
    BY <1>4, <2>3, <2>4 DEF Pending
<1>5. CASE Start(x)
  <2>1. /\ comms' = [comms EXCEPT ![x] = NoComms] /\ knew' = knew
        /\ state' = [state EXCEPT ![x] = state'[x]]
    BY <1>1, <1>5 DEF Start, history
  <2>2. x # s
    BY <1>1, <1>2, <2>1 DEF NoComms
  <2>3. QED
    BY <1>1, <1>3, <2>1, <2>2
<1>6. ASSUME NEW m \in net, Receive(x, m)
      PROVE  UNCHANGED <<state[s], comms[s].names, knew[s][c]>>
  <2>1. CASE RecvReq(x, m) \/ Ignore(x, m)
    BY <2>1 DEF RecvReq, Ignore, memory, history
  <2>2. CASE RecvRsp(x, m)
    <3>1. /\ state[x] = "DISCOVERY" /\ comms' = [comms EXCEPT ![x] = comms'[x]]
          /\ UNCHANGED <<state, knew>>
      BY <1>1, <2>2 DEF RecvRsp, history
    <3>2. x # s
      BY <1>2, <3>1
    <3>3. QED
      BY <1>1, <3>1, <3>2
  <2>3. CASE RecvAdv(x, m)
    <3> DEFINE list == WithSupernode(comms[x], m.comms \cap comms[x].names, AdvAddr(m.from))
    <3>1. comms' = [comms EXCEPT ![x] = list] /\ UNCHANGED <<state, knew>>
      BY <2>3 DEF RecvAdv
    <3>2. list.names = comms[x].names
      <4>1. comms[x] \in [names: SUBSET Comms, sns: [Comms -> SUBSET Addresses]]
        BY <1>1 DEF CommList
      <4>2. QED
        BY <4>1 DEF WithSupernode
    <3> HIDE DEF list
    <3>3. QED
      BY <1>1, <3>1, <3>2
  <2>4. QED
    BY <1>6, <2>1, <2>2, <2>3 DEF Receive
<1>7. ASSUME NEW d \in Comms, EdgeJoin(x, d)
      PROVE  \/ UNCHANGED <<state[s], comms[s].names, knew[s][c]>>
             \/ Coordinates(s, c) /\ knew'[s][c] = knew[s][c]
             \/ ~Coordinates(s, c) /\ \A t \in knew'[s][c] : Pending(s, t, c)'
  <2>1. /\ state[x] = "READY" /\ d \notin comms[x].names /\ state' = state
        /\ comms' = [comms EXCEPT ![x] = WithCommunity(comms[x], d)]
        /\ Advertise({}, Advertisements(x, supers[x], {d}))
        /\ knew' = [knew EXCEPT ![x][d] = supers[x]]
    BY <1>7 DEF EdgeJoin
  <2>2. CASE x # s
    BY <1>1, <2>1, <2>2
  <2>3. CASE x = s /\ c # d
    <3>1. knew'[s][c] = knew[s][c]
      BY <1>1, <2>1, <2>3
    <3>2. c \in comms[s].names
      <4>1. comms'[s] = WithCommunity(comms[s], d) /\ comms[s] \in [names: SUBSET Comms, sns: [Comms -> SUBSET Addresses]]
        BY <1>1, <2>1, <2>3 DEF CommList
      <4>2. comms'[s].names = comms[s].names \cup {d}
        BY <4>1 DEF WithCommunity
      <4>3. QED
        BY <1>2, <2>3, <4>2
    <3>3. QED
      BY <2>1, <2>3, <3>1, <3>2 DEF Coordinates
  <2>4. CASE x = s /\ c = d
    <3>1. ~Coordinates(s, c) /\ knew'[s][c] = supers[s]
      BY <1>1, <2>1, <2>4 DEF Coordinates
    <3>2. \A t \in supers[s] : Pending(s, t, c)'
      BY <1>4, <2>1, <2>4
    <3>3. QED
      BY <3>1, <3>2
  <2>5. QED
    BY <2>2, <2>3, <2>4
<1>8. CASE DiscoveryEnd(x)
  <2>1. /\ state[x] = "DISCOVERY" /\ state' = [state EXCEPT ![x] = "READY"]
        /\ UNCHANGED <<supers, snFile>>
    BY <1>8 DEF DiscoveryEnd, files
  <2>2. PICK new \in Volunteers(x) :
           LET names == persist[x].names \cup new
           IN  /\ comms' = [comms EXCEPT ![x] = [persist[x] EXCEPT !.names = names]]
               /\ Advertise({}, IF names = {} THEN {} ELSE Advertisements(x, supers[x], names))
               /\ knew' = [knew EXCEPT ![x] = [d \in Comms |->
                               IF d \in new THEN supers[x] ELSE @[d]]]
    BY <1>8 DEF DiscoveryEnd
  <2> DEFINE names == persist[x].names \cup new
  <2>3. CASE x # s
    BY <1>1, <1>3, <2>1, <2>2, <2>3
  <2>4. CASE x = s
    <3>1. ~Coordinates(s, c)
      BY <2>1, <2>4 DEF Coordinates
    <3>2. c \in names
      <4>1. comms'[s] = [persist[s] EXCEPT !.names = names]
        BY <1>1, <2>2, <2>4
      <4>2. persist[s] \in [names: SUBSET Comms, sns: [Comms -> SUBSET Addresses]]
        BY <1>1 DEF CommList
      <4> HIDE DEF names
      <4>3. comms'[s].names = names
        BY <4>1, <4>2
      <4>4. QED
        BY <1>2, <4>3
    <3>3. \A t \in supers[s] : Pending(s, t, c)'
      <4>1. Advertise({}, Advertisements(s, supers[s], names))
        BY <2>2, <2>4, <3>2
      <4> HIDE DEF names
      <4>2. QED
        BY <1>4, <3>2, <4>1
    <3>4. knew'[s][c] \subseteq supers[s]
      <4>1. knew'[s][c] = IF c \in new THEN supers[s] ELSE knew[s][c]
        BY <1>1, <2>2, <2>4
      <4>2. knew[s][c] \subseteq snFile[s] /\ snFile[s] = supers[s]
        BY <2>1, <2>4 DEF KnewKept, IInv, SupersSaved
      <4>3. QED
        BY <4>1, <4>2
    <3>5. QED
      BY <3>1, <3>3, <3>4
  <2>5. QED
    BY <2>3, <2>4
<1>9. CASE Crash(x)
  <2>1. /\ state' = [state EXCEPT ![x] = "down"] /\ knew' = knew
        /\ comms' = [comms EXCEPT ![x] = NoComms]
    BY <1>9 DEF Crash, history
  <2>2. x # s
    BY <1>1, <1>2, <2>1
  <2>3. QED
    BY <1>1, <1>3, <2>1, <2>2
<1>10. QED
  BY <1>3, <1>5, <1>6, <1>7, <1>8, <1>9 DEF Acts

\* The file of supernodes only grows.
LEMMA KnewStep ==
    ASSUME IInv, KnewKept, NEW x \in SNs, Acts(x)
    PROVE  KnewKept'
<1>1. /\ snFile \in [SNs -> SUBSET SNs] /\ supers \in [SNs -> SUBSET SNs]
      /\ knew \in [SNs -> [Comms -> SUBSET SNs]]
      /\ state[x] # "down" => snFile[x] = supers[x]
  BY DEF IInv, TypeOK, SupersSaved
<1>2. ASSUME knew' = knew, \A s \in SNs : snFile[s] \subseteq snFile'[s] PROVE KnewKept'
  BY <1>2 DEF KnewKept
<1>3. ASSUME NEW sns, SaveSupernodes(x, sns), state[x] # "down"
      PROVE  \A s \in SNs : snFile[s] \subseteq snFile'[s]
  BY <1>1, <1>3 DEF SaveSupernodes
<1>4. CASE Start(x)
  <2>1. knew' = knew /\ snFile' = [snFile EXCEPT ![x] = snFile[x] \cup CmdLine[x]]
    BY <1>4 DEF Start, history
  <2>2. QED
    BY <1>1, <1>2, <2>1
<1>5. ASSUME NEW m \in net, Receive(x, m) PROVE KnewKept'
  <2>1. CASE RecvReq(x, m)
    BY <1>2, <1>3, <2>1 DEF RecvReq, history
  <2>2. CASE RecvRsp(x, m)
    <3>1. SaveSupernodes(x, m.sns) /\ state[x] # "down" /\ knew' = knew
      BY <2>2 DEF RecvRsp, history
    <3>2. QED
      BY <1>2, <1>3, <3>1
  <2>3. CASE RecvAdv(x, m)
    <3>1. SaveSupernodes(x, {m.from}) /\ state[x] # "down" /\ knew' = knew
      BY <2>3 DEF RecvAdv
    <3>2. QED
      BY <1>2, <1>3, <3>1
  <2>4. CASE Ignore(x, m)
    BY <1>2, <2>4 DEF Ignore, files, history
  <2>5. QED
    BY <1>5, <2>1, <2>2, <2>3, <2>4 DEF Receive
<1>6. ASSUME NEW c \in Comms, EdgeJoin(x, c) PROVE KnewKept'
  <2>1. snFile' = snFile /\ knew' = [knew EXCEPT ![x][c] = supers[x]] /\ state[x] # "down"
    BY <1>6 DEF EdgeJoin
  <2>2. QED
    BY <1>1, <2>1 DEF KnewKept
<1>7. CASE DiscoveryEnd(x)
  <2>1. PICK new : knew' = [knew EXCEPT ![x] = [c \in Comms |-> IF c \in new THEN supers[x] ELSE @[c]]]
    BY <1>7 DEF DiscoveryEnd
  <2>2. snFile' = snFile /\ state[x] # "down"
    BY <1>7 DEF DiscoveryEnd, files
  <2>3. QED
    BY <1>1, <2>1, <2>2 DEF KnewKept
<1>8. CASE Crash(x)
  BY <1>2, <1>8 DEF Crash, files, history
<1>9. QED
  BY <1>4, <1>5, <1>6, <1>7, <1>8 DEF Acts

\* Of two coordinators that met, one is told by whichever of them came last.
LEMMA MeetStep ==
    ASSUME ~Lossy, IInv, MeetInv, [Next]_vars
    PROVE  MeetInv'
<1>1. CASE UNCHANGED vars
  BY <1>1 DEF MeetInv, KnewKept, OneSideTold, Told, Lists, Full, Pending, Coordinates, Met, vars
<1>2. CASE Next
  <2>1. PICK x \in SNs : Acts(x)
    BY <1>2 DEF Next, Acts
  <2>2. KnewKept'
    BY <2>1, KnewStep DEF MeetInv
  <2>3. ASSUME NEW s \in SNs, NEW t \in SNs, NEW c \in Comms,
               Coordinates(s, c)', Coordinates(t, c)', Met(s, t, c)'
        PROVE  Told(s, t, c)' \/ Told(t, s, c)'
    <3>1. s \in knew'[t][c] /\ t \in knew'[s][c]
      BY <2>3 DEF Met
    <3>2. CASE ~Coordinates(s, c)
      <4>1. Pending(s, t, c)'
        BY <2>1, <2>3, <3>1, <3>2, NewCoordinator DEF MeetInv
      <4>2. QED
        BY <4>1 DEF Told
    <3>3. CASE ~Coordinates(t, c)
      <4>1. Pending(t, s, c)'
        BY <2>1, <2>3, <3>1, <3>3, NewCoordinator DEF MeetInv
      <4>2. QED
        BY <4>1 DEF Told
    <3>4. CASE Coordinates(s, c) /\ Coordinates(t, c)
      <4>1. knew'[s][c] = knew[s][c] /\ knew'[t][c] = knew[t][c]
        BY <2>1, <2>3, <3>4, NewCoordinator DEF MeetInv
      <4>2. Met(s, t, c)
        BY <3>1, <4>1 DEF Met
      <4>3. Told(s, t, c) \/ Told(t, s, c)
        BY <3>4, <4>2 DEF MeetInv, OneSideTold
      <4>4. IInv'
        BY StepInv
      <4>5. QED
        BY <2>1, <2>3, <3>4, <4>3, <4>4, ToldStays
    <3>5. QED
      BY <3>2, <3>3, <3>4
  <2>4. QED
    BY <2>2, <2>3 DEF MeetInv, OneSideTold
<1>3. QED
  BY <1>1, <1>2

LEMMA Meeting ==
    ASSUME ~Lossy
    PROVE  Spec => []MeetInv
<1>1. Init => MeetInv
  BY DEF Init, MeetInv, KnewKept, OneSideTold, Coordinates
<1>2. IInv /\ MeetInv /\ [Next]_vars => MeetInv'
  BY MeetStep
<1>3. QED
  BY <1>1, <1>2, Invariance, PTL DEF Spec

\* OneSideKnows for any number of supernodes, as far as lists have room.
OneSideKnowsOrFull ==
    net = {} =>
        \A s, t \in SNs, c \in Comms :
            Coordinates(s, c) /\ Coordinates(t, c) /\ Met(s, t, c)
                => Lists(s, t, c) \/ Lists(t, s, c) \/ Full(s, c) \/ Full(t, c)

\* Without loss, two supernodes that knew of each other when they took up a
\* community end with one listing the other, or with a list that is full
\* (add_new_supernode_to_community), whatever crashed and started in between.
THEOREM CoordinatorsMeet ==
    ASSUME ~Lossy
    PROVE  Spec => []OneSideKnowsOrFull
<1>1. MeetInv => OneSideKnowsOrFull
  BY DEF MeetInv, OneSideTold, OneSideKnowsOrFull, Told, Pending
<1>2. QED
  BY <1>1, Meeting, PTL

\* A list full of some addresses has all of them, if there are no more than places.
LEMMA FullHasAll ==
    ASSUME NEW A, IsFiniteSet(A), Cardinality(A) <= MaxSn,
           NEW S \in SUBSET A, Cardinality(S) = MaxSn
    PROVE  S = A
<1>1. Cardinality(S) <= Cardinality(A) /\ (Cardinality(S) = Cardinality(A) => S = A)
  BY FS_Subset
<1>2. Cardinality(A) \in Nat
  BY FS_CardinalityType
<1> DEFINE n == Cardinality(A)
<1>3. n \in Nat /\ n <= MaxSn /\ MaxSn <= n
  BY <1>1, <1>2
<1> HIDE DEF n
<1>4. n = MaxSn
  BY <1>3, LimitsAssumption
<1>5. QED
  BY <1>1, <1>4 DEF n

AdvAddresses == {AdvAddr(s) : s \in SNs}

\* How many addresses there are.
LEMMA AddressesCounted ==
    ASSUME IsFiniteSet(SNs)
    PROVE  /\ IsFiniteSet(AdvAddresses) /\ Cardinality(AdvAddresses) <= Cardinality(SNs)
           /\ IsFiniteSet(Addresses) /\ Cardinality(Addresses) <= 2 * Cardinality(SNs)
<1> DEFINE snm == {SnmAddr(s) : s \in SNs}
<1>1. IsFiniteSet(AdvAddresses) /\ Cardinality(AdvAddresses) <= Cardinality(SNs)
  <2> DEFINE f == [s \in SNs |-> AdvAddr(s)]
  <2>1. f \in Surjection(SNs, AdvAddresses)
    BY DEF Surjection, AdvAddresses
  <2> HIDE DEF f
  <2>2. QED
    BY <2>1, FS_Surjection
<1>2. IsFiniteSet(snm) /\ Cardinality(snm) <= Cardinality(SNs)
  <2> DEFINE f == [s \in SNs |-> SnmAddr(s)]
  <2>1. f \in Surjection(SNs, snm)
    BY DEF Surjection
  <2> HIDE DEF f, snm
  <2>2. QED
    BY <2>1, FS_Surjection
<1>3. Addresses = snm \cup AdvAddresses
  BY DEF Addresses, AdvAddresses
<1> HIDE DEF snm
<1> DEFINE n == Cardinality(SNs)
           a == Cardinality(snm)
           b == Cardinality(AdvAddresses)
           i == Cardinality(snm \cap AdvAddresses)
<1>4. IsFiniteSet(Addresses) /\ Cardinality(Addresses) = a + b - i
  BY <1>1, <1>2, <1>3, FS_Union
<1>5. IsFiniteSet(snm \cap AdvAddresses)
  BY <1>2, FS_Subset
<1>6. n \in Nat /\ a \in Nat /\ b \in Nat /\ i \in Nat /\ a <= n /\ b <= n
  BY <1>1, <1>2, <1>5, FS_CardinalityType
<1> HIDE DEF n, a, b, i
<1>7. a + b - i <= 2 * n
  BY <1>6
<1>8. QED
  BY <1>1, <1>4, <1>7 DEF n

\* Before any crash no stored list holds anything, and what a running supernode lists
\* are advertised addresses.
OnlyAdvertised ==
    crashes = 0 =>
        \A s \in SNs :
            /\ persist[s] = NoComms
            /\ state[s] = "down" => commFile[s] = NoComms
            /\ state[s] = "READY" => \A c \in Comms : comms[s].sns[c] \subseteq AdvAddresses

LEMMA OnlyAdvertisedStep ==
    ASSUME IInv, OnlyAdvertised, [Next]_vars
    PROVE  OnlyAdvertised'
<1>1. CASE UNCHANGED vars
  BY <1>1 DEF OnlyAdvertised, vars
<1>2. ASSUME NEW x \in SNs, Acts(x) PROVE OnlyAdvertised'
  <2>1. /\ state \in [SNs -> {"down", "DISCOVERY", "READY"}]
        /\ comms \in [SNs -> CommList] /\ persist \in [SNs -> CommList]
        /\ commFile \in [SNs -> CommList] /\ crashes \in Nat
    BY DEF IInv, TypeOK
  <2>2. \A c \in Comms : NoComms.sns[c] = {}
    BY DEF NoComms
  <2>3. CASE Crash(x)
    <3>1. crashes' = crashes + 1
      BY <2>3 DEF Crash
    <3>2. crashes' # 0
      BY <2>1, <3>1
    <3>3. QED
      BY <3>2 DEF OnlyAdvertised
  <2>4. ASSUME crashes' = crashes, crashes = 0,
               \A s \in SNs \ {x} : UNCHANGED <<state[s], comms[s], persist[s], commFile[s]>>,
               persist'[x] \in {persist[x], commFile[x]} /\ (persist'[x] = persist[x] \/ state[x] = "down"),
               state'[x] # "down",
               state'[x] = "READY" => \A c \in Comms : comms'[x].sns[c] \subseteq AdvAddresses
        PROVE  OnlyAdvertised'
    BY <2>1, <2>4 DEF OnlyAdvertised
  <2> SUFFICES ASSUME crashes = 0, crashes' = crashes PROVE OnlyAdvertised'
    <3>1. CASE crashes = 0
      <4>1. crashes' = crashes \/ Crash(x)
        BY <1>2 DEF Acts, Start, Receive, RecvReq, RecvRsp, RecvAdv, Ignore, EdgeJoin, DiscoveryEnd
      <4>2. QED
        BY <2>3, <3>1, <4>1
    <3>2. CASE crashes # 0
      <4>1. crashes' = crashes \/ Crash(x)
        BY <1>2 DEF Acts, Start, Receive, RecvReq, RecvRsp, RecvAdv, Ignore, EdgeJoin, DiscoveryEnd
      <4>2. QED
        BY <2>3, <3>2, <4>1 DEF OnlyAdvertised
    <3>3. QED
      BY <3>1, <3>2
  <2>5. CASE Start(x)
    <3>1. /\ comms' = [comms EXCEPT ![x] = NoComms] /\ commFile' = commFile
          /\ persist' = [persist EXCEPT ![x] = commFile[x]] /\ state[x] = "down"
      BY <2>5 DEF Start
    <3>2. PICK new \in {"READY", "DISCOVERY"} : state' = [state EXCEPT ![x] = new]
      BY <2>5 DEF Start
    <3>3. QED
      BY <2>1, <2>2, <2>4, <3>1, <3>2
  <2>6. ASSUME NEW m \in net, Receive(x, m) PROVE OnlyAdvertised'
    <3>1. CASE RecvReq(x, m) \/ Ignore(x, m)
      BY <3>1 DEF RecvReq, Ignore, memory, files, OnlyAdvertised
    <3>2. CASE RecvRsp(x, m)
      <4>1. /\ state[x] = "DISCOVERY" /\ comms' = [comms EXCEPT ![x] = comms'[x]]
            /\ UNCHANGED <<state, persist, commFile>>
        BY <2>1, <3>2 DEF RecvRsp
      <4>2. QED
        BY <2>1, <2>4, <4>1
    <3>3. CASE RecvAdv(x, m)
      <4> DEFINE names == m.comms \cap comms[x].names
                 addr  == AdvAddr(m.from)
                 list  == WithSupernode(comms[x], names, addr)
      <4>1. /\ comms' = [comms EXCEPT ![x] = list] /\ state[x] # "down"
            /\ commFile' = [commFile EXCEPT ![x] = IF list # comms[x] THEN list ELSE @]
            /\ UNCHANGED <<state, persist>>
        BY <3>3 DEF RecvAdv
      <4>2. addr \in AdvAddresses
        BY DEF AdvAddresses, IInv, TypeOK, Message
      <4>3. \A c \in Comms : list.sns[c] \subseteq comms[x].sns[c] \cup {addr}
        <5>1. comms[x] \in [names: SUBSET Comms, sns: [Comms -> SUBSET Addresses]]
          BY <2>1 DEF CommList
        <5> HIDE DEF names, addr
        <5>2. QED
          BY <5>1 DEF WithSupernode
      <4> HIDE DEF addr, list
      <4>4. state[x] = "READY" => \A c \in Comms : list.sns[c] \subseteq AdvAddresses
        BY <4>2, <4>3 DEF OnlyAdvertised
      <4>5. QED
        BY <2>1, <2>4, <4>1, <4>4
    <3>4. QED
      BY <2>6, <3>1, <3>2, <3>3 DEF Receive
  <2>7. ASSUME NEW d \in Comms, EdgeJoin(x, d) PROVE OnlyAdvertised'
    <3> DEFINE list == WithCommunity(comms[x], d)
    <3>1. /\ comms' = [comms EXCEPT ![x] = list] /\ state[x] = "READY"
          /\ commFile' = [commFile EXCEPT ![x] = list] /\ UNCHANGED <<state, persist>>
      BY <2>7 DEF EdgeJoin
    <3>2. list.sns = comms[x].sns
      <4>1. comms[x] \in [names: SUBSET Comms, sns: [Comms -> SUBSET Addresses]]
        BY <2>1 DEF CommList
      <4>2. QED
        BY <4>1 DEF WithCommunity
    <3> HIDE DEF list
    <3>3. \A c \in Comms : list.sns[c] \subseteq AdvAddresses
      BY <3>1, <3>2 DEF OnlyAdvertised
    <3>4. QED
      BY <2>1, <2>4, <3>1, <3>3
  <2>8. CASE DiscoveryEnd(x)
    <3>1. PICK names : comms' = [comms EXCEPT ![x] = [persist[x] EXCEPT !.names = names]]
      BY <2>8 DEF DiscoveryEnd
    <3>2. state' = [state EXCEPT ![x] = "READY"] /\ UNCHANGED <<persist, commFile>>
      BY <2>8 DEF DiscoveryEnd, files
    <3>3. comms'[x].sns = persist[x].sns
      BY <2>1, <3>1 DEF CommList
    <3>4. persist[x] = NoComms
      BY DEF OnlyAdvertised
    <3>5. \A c \in Comms : comms'[x].sns[c] \subseteq AdvAddresses
      BY <2>2, <3>3, <3>4
    <3>6. QED
      BY <2>1, <2>4, <3>1, <3>2, <3>5
  <2>9. QED
    BY <1>2, <2>3, <2>5, <2>6, <2>7, <2>8 DEF Acts
<1>3. QED
  BY <1>1, <1>2 DEF Next, Acts

LEMMA AllAdvertised == Spec => []OnlyAdvertised
<1>1. Init => OnlyAdvertised
  BY DEF Init, OnlyAdvertised
<1>2. IInv /\ OnlyAdvertised /\ [Next]_vars => OnlyAdvertised'
  BY OnlyAdvertisedStep
<1>3. QED
  BY <1>1, <1>2, Invariance, PTL DEF Spec

\* No more crashes than the bound.
LEMMA CrashesBounded == Spec => [](MaxCrashes = 0 => crashes = 0)
<1> DEFINE Few == MaxCrashes = 0 => crashes = 0
<1>1. Init => Few
  BY DEF Init
<1>2. Few /\ [Next]_vars => Few'
  <2> SUFFICES ASSUME Few, [Next]_vars PROVE Few'
    OBVIOUS
  <2>1. CASE \E x \in SNs : Crash(x)
    BY <2>1 DEF Crash
  <2>2. CASE crashes' = crashes
    BY <2>2
  <2>3. ASSUME NEW s \in SNs, NEW m, Receive(s, m) PROVE crashes' = crashes
    BY <2>3 DEF Receive, RecvReq, RecvRsp, RecvAdv, Ignore
  <2>4. ASSUME NEW s \in SNs, Start(s) PROVE crashes' = crashes
    BY <2>4 DEF Start
  <2>5. ASSUME NEW s \in SNs, NEW c, EdgeJoin(s, c) PROVE crashes' = crashes
    BY <2>5 DEF EdgeJoin
  <2>6. ASSUME NEW s \in SNs, DiscoveryEnd(s) PROVE crashes' = crashes
    BY <2>6 DEF DiscoveryEnd
  <2>7. UNCHANGED vars => crashes' = crashes
    BY DEF vars
  <2>8. QED
    BY <2>1, <2>2, <2>3, <2>4, <2>5, <2>6, <2>7 DEF Next
<1>3. QED
  BY <1>1, <1>2, PTL DEF Spec

\* OneSideKnows: when lists have room for all supernodes, with both addresses of each
\* if a supernode may crash (a file saved in discovery holds SNM addresses too),
\* one of two coordinators that met has the other's address once all messages
\* have been handled.
THEOREM MetCoordinatorsListed ==
    ASSUME ~Lossy, IsFiniteSet(SNs),
           \/ 2 * Cardinality(SNs) <= MaxSn
           \/ MaxCrashes = 0 /\ Cardinality(SNs) <= MaxSn
    PROVE  Spec => []OneSideKnows
<1> DEFINE Few == MaxCrashes = 0 => crashes = 0
<1>1. ASSUME IInv, OnlyAdvertised, Few, NEW t \in SNs, NEW s \in SNs, NEW c \in Comms,
             Coordinates(t, c), Full(t, c)
      PROVE  Lists(t, s, c)
  <2>1. AdvAddr(s) \in AdvAddresses /\ AdvAddr(s) \in Addresses
    BY DEF AdvAddresses, Addresses
  <2>2. CASE 2 * Cardinality(SNs) <= MaxSn
    <3> DEFINE n == Cardinality(SNs)
               a == Cardinality(Addresses)
    <3>1. IsFiniteSet(Addresses) /\ a <= 2 * n /\ n \in Nat /\ a \in Nat
      BY AddressesCounted, FS_CardinalityType
    <3> HIDE DEF n, a
    <3>2. a <= MaxSn
      BY <2>2, <3>1, LimitsAssumption DEF n
    <3>3. comms[t].sns[c] \in SUBSET Addresses
      BY <1>1 DEF IInv, TypeOK, CommList
    <3>4. comms[t].sns[c] = Addresses
      BY <1>1, <3>1, <3>2, <3>3, FullHasAll DEF Full, a
    <3>5. QED
      BY <2>1, <3>4 DEF Lists
  <2>3. CASE MaxCrashes = 0 /\ Cardinality(SNs) <= MaxSn
    <3> DEFINE n == Cardinality(SNs)
               a == Cardinality(AdvAddresses)
    <3>1. IsFiniteSet(AdvAddresses) /\ a <= n /\ n \in Nat /\ a \in Nat
      BY AddressesCounted, FS_CardinalityType
    <3> HIDE DEF n, a
    <3>2. a <= MaxSn
      BY <2>3, <3>1, LimitsAssumption DEF n
    <3>3. comms[t].sns[c] \in SUBSET AdvAddresses
      BY <1>1, <2>3 DEF OnlyAdvertised, Coordinates
    <3>4. comms[t].sns[c] = AdvAddresses
      BY <1>1, <3>1, <3>2, <3>3, FullHasAll DEF Full, a
    <3>5. QED
      BY <2>1, <3>4 DEF Lists
  <2>4. QED
    BY <2>2, <2>3
<1>2. IInv /\ OnlyAdvertised /\ Few /\ OneSideKnowsOrFull => OneSideKnows
  BY <1>1 DEF OneSideKnowsOrFull, OneSideKnows
<1>3. QED
  BY <1>2, Invariance, AllAdvertised, CrashesBounded, CoordinatorsMeet, PTL

=============================================================================
