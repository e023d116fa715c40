-------------------------------- MODULE Snm --------------------------------
(***************************************************************************)
(* The federation of supernodes (build option N2N_MULTIPLE_SUPERNODES).    *)
(*                                                                         *)
(* Supernodes exchange three messages over UDP.  A starting supernode asks *)
(* the ones it knows (REQ) which communities they coordinate and whom they *)
(* know (RSP), and when its discovery interval ends takes up communities   *)
(* with too few coordinators and advertises all it coordinates (ADV).  An  *)
(* edge may make a running supernode coordinate a further community, which *)
(* is advertised too.  Whoever coordinates an advertised community notes   *)
(* the advertiser's address, which edges later receive as a backup.        *)
(*                                                                         *)
(* One action is one handler (process_sn_msg) or one pass of run_loop's    *)
(* timer (communities_discovery).  Messages may be lost, duplicated and    *)
(* reordered, and a supernode may crash between any two handlers; only its *)
(* two files survive.                                                      *)
(*                                                                         *)
(* Lists are kept as sets: entries are unique and their order decides only *)
(* the order of sends, and which of several candidate communities fill the *)
(* last free places, which is left open.  No community name is a prefix of *)
(* another one, so that comm_find finds the community it was asked for.    *)
(***************************************************************************)
EXTENDS Integers, FiniteSets

CONSTANTS
    SNs,         \* supernodes
    Comms,       \* community names
    CmdLine,     \* CmdLine[s]: supernodes given to s on its command line
    MinSn,       \* N2N_MIN_SN_PER_COMM
    MaxSn,       \* N2N_MAX_SN_PER_COMM
    MaxComm,     \* N2N_MAX_COMM_PER_SN
    MaxMsgs,     \* bound: messages in flight; a further one is lost
    MaxCrashes,  \* bound: crashes
    Lossy        \* whether a message may be lost or duplicated

ASSUME LimitsAssumption ==
    /\ MinSn \in Nat /\ MaxSn \in Nat /\ MaxComm \in Nat
    /\ CmdLine \in [SNs -> SUBSET SNs]

VARIABLES
    state,      \* state[s]: "down", or snm_discovery_state
    supers,     \* supers[s]: supernodes.list_head, by SNM address
    comms,      \* comms[s]: communities.list_head, queried ones in discovery
    persist,    \* persist[s]: communities.persist, as read from the file
    snFile,     \* snFile[s]: the file of supernodes
    commFile,   \* commFile[s]: the file of communities
    net,        \* messages in flight
    crashes,    \* crashes so far
    advertised, \* history: <<s, c>> such that s sent an ADV naming c
    knew        \* history: knew[s][c], the supernodes s knew taking up c

memory == <<supers, comms, persist>>
files == <<snFile, commFile>>
history == <<advertised, knew>>
vars == <<state, supers, comms, persist, snFile, commFile, net, crashes, advertised, knew>>

\* The two UDP addresses of a supernode: the one other supernodes talk to and
\* the one it advertises to edges.
SnmAddr(s) == <<"snm", s>>
AdvAddr(s) == <<"adv", s>>
Addresses == {SnmAddr(s) : s \in SNs} \cup {AdvAddr(s) : s \in SNs}

\* A list of comm_info: the communities in it and the addresses kept for each.
CommList == [names: SUBSET Comms, sns: [Comms -> SUBSET Addresses]]
NoComms == [names |-> {}, sns |-> [c \in Comms |-> {}]]

Message ==
         [type: {"REQ"}, from: SNs, to: SNs, C: BOOLEAN]
    \cup [type: {"RSP"}, from: SNs, to: SNs, C: BOOLEAN, sns: SUBSET SNs, comms: SUBSET Comms]
    \cup [type: {"ADV"}, from: SNs, to: SNs, A: BOOLEAN, comms: SUBSET Comms]

TypeOK ==
    /\ state \in [SNs -> {"down", "DISCOVERY", "READY"}]
    /\ supers \in [SNs -> SUBSET SNs]
    /\ comms \in [SNs -> CommList]
    /\ persist \in [SNs -> CommList]
    /\ snFile \in [SNs -> SUBSET SNs]
    /\ commFile \in [SNs -> CommList]
    /\ net \subseteq Message
    /\ crashes \in Nat
    /\ advertised \subseteq SNs \X Comms
    /\ knew \in [SNs -> [Comms -> SUBSET SNs]]

---------------------------------------------------------------------------
(* Messages.                                                               *)

\* send_snm_req: to every supernode in sns
Requests(s, sns, wantComms) ==
    {[type |-> "REQ", from |-> s, to |-> t, C |-> wantComms] : t \in sns}

\* build_snm_info for a supernode: it always asks for supernodes, and for
\* communities while it is in discovery.
Response(s, req) ==
    [type |-> "RSP", from |-> s, to |-> req.from, C |-> req.C, sns |-> supers[s],
     comms |-> IF req.C THEN comms[s].names ELSE {}]

\* build_snm_adv, send_snm_adv: the A flag asks for an ADV in return.
Advertisements(s, sns, names) ==
    {[type |-> "ADV", from |-> s, to |-> t, A |-> state[s] # "READY", comms |-> names] :
        t \in sns}

Transmit(taken, sent) ==
    \E kept \in (IF Lossy THEN {net, net \ taken} ELSE {net \ taken}),
       out \in (IF Lossy THEN SUBSET sent ELSE {sent}) :
        /\ Cardinality(kept \cup out) <= MaxMsgs
        /\ net' = kept \cup out

\* The ADVs in ms are sent as a reaction to taken, and remembered.
Advertise(taken, ms) ==
    /\ Transmit(taken, ms)
    /\ advertised' = advertised \cup UNION {{<<m.from, c>> : c \in m.comms} : m \in ms}

---------------------------------------------------------------------------
(* Lists.                                                                  *)

\* add_new_community
WithCommunity(list, c) == [list EXCEPT !.names = @ \cup {c}]

\* Variants: definitions named ...Variant are not part of the specification;
\* each is a plausible mistake in the definition that follows it.
WithSupernodeVariant(list, names, addr) ==
    [list EXCEPT !.sns = [c \in Comms |-> IF c \in names THEN @[c] \cup {addr} ELSE @[c]]]

\* add_new_supernode_to_community, for every community in names: the address
\* is appended unless it is there or the list is full.
WithSupernode(list, names, addr) ==
    [list EXCEPT !.sns = [c \in Comms |->
        IF c \in names /\ Cardinality(@[c]) # MaxSn THEN @[c] \cup {addr} ELSE @[c]]]

\* the file is not written
SaveSupernodesVariant(s, sns) ==
    /\ supers' = [supers EXCEPT ![s] = @ \cup sns]
    /\ UNCHANGED snFile

\* update_and_save_supernodes
SaveSupernodes(s, sns) ==
    /\ supers' = [supers EXCEPT ![s] = @ \cup sns]
    /\ snFile' = [snFile EXCEPT ![s] = IF sns \subseteq supers[s] THEN @
                                       ELSE supers[s] \cup sns]

---------------------------------------------------------------------------
(* Actions of supernode s.                                                 *)

\* load_snm_info and the requests main sends: without another supernode
\* there is nothing to discover.
Start(s) ==
    LET known == snFile[s] \cup CmdLine[s]
        first == known = {}
    IN  /\ state[s] = "down"
        /\ state' = [state EXCEPT ![s] = IF first THEN "READY" ELSE "DISCOVERY"]
        /\ supers' = [supers EXCEPT ![s] = known]
        /\ snFile' = [snFile EXCEPT ![s] = known]
        /\ comms' = [comms EXCEPT ![s] = NoComms]
        /\ persist' = [persist EXCEPT ![s] = commFile[s]]
        /\ Transmit({}, Requests(s, known, ~first))
        /\ UNCHANGED <<commFile, crashes, history>>

\* process_sn_msg, REQ: a supernode that is READY answers from the list it
\* has, then notes the sender.
RecvReq(s, m) ==
    /\ m.type = "REQ"
    /\ state[s] = "READY"
    /\ Transmit({m}, {Response(s, m)})
    /\ SaveSupernodes(s, {m.from})
    /\ UNCHANGED <<state, comms, persist, commFile, crashes, history>>

\* process_sn_msg, RSP, and process_snm_rsp: during discovery the communities
\* the others coordinate are collected under the SNM address of the sender,
\* and supernodes heard of for the first time are asked too.
RecvRsp(s, m) ==
    LET heard == [comms[s] EXCEPT !.names = @ \cup m.comms]
    IN  /\ m.type = "RSP"
        /\ state[s] = "DISCOVERY"
        /\ comms' = [comms EXCEPT ![s] = WithSupernode(heard, m.comms, SnmAddr(m.from))]
        /\ SaveSupernodes(s, m.sns)
        /\ Transmit({m}, Requests(s, m.sns \ supers[s], TRUE))
        /\ UNCHANGED <<state, persist, commFile, crashes, history>>

\* the advertiser is added to every community in the list
RecvAdvVariant(s, m) ==
    LET list == WithSupernode(comms[s], comms[s].names, AdvAddr(m.from))
    IN  /\ m.type = "ADV"
        /\ state[s] # "down"
        /\ SaveSupernodes(s, {m.from})
        /\ comms' = [comms EXCEPT ![s] = list]
        /\ commFile' = [commFile EXCEPT ![s] = IF list # comms[s] THEN list ELSE @]
        /\ Advertise({m}, {})
        /\ UNCHANGED <<state, persist, crashes, knew>>

\* process_sn_msg, ADV, and process_snm_adv: whatever the state, the sender is
\* noted, and its address is added to those advertised communities that are in
\* the list; if that changed the list it is saved, and answered when asked.
RecvAdv(s, m) ==
    LET list == WithSupernode(comms[s], m.comms \cap comms[s].names, AdvAddr(m.from))
        updated == list # comms[s]
    IN  /\ m.type = "ADV"
        /\ state[s] # "down"
        /\ SaveSupernodes(s, {m.from})
        /\ comms' = [comms EXCEPT ![s] = list]
        /\ commFile' = [commFile EXCEPT ![s] = IF updated THEN list ELSE @]
        /\ Advertise({m}, IF updated /\ m.A THEN Advertisements(s, {m.from}, list.names)
                                            ELSE {})
        /\ UNCHANGED <<state, persist, crashes, knew>>

\* A message that is not for the state its receiver is in is dropped.
Ignore(s, m) ==
    /\ \/ state[s] = "down"
       \/ m.type = "REQ" /\ state[s] # "READY"
       \/ m.type = "RSP" /\ state[s] = "READY"
    /\ Transmit({m}, {})
    /\ UNCHANGED <<state, memory, files, crashes, history>>

Receive(s, m) ==
    /\ m.to = s
    /\ RecvReq(s, m) \/ RecvRsp(s, m) \/ RecvAdv(s, m) \/ Ignore(s, m)

\* the new community is not advertised
EdgeJoinVariant(s, c) ==
    /\ state[s] = "READY"
    /\ c \notin comms[s].names
    /\ comms' = [comms EXCEPT ![s] = WithCommunity(@, c)]
    /\ commFile' = [commFile EXCEPT ![s] = WithCommunity(comms[s], c)]
    /\ knew' = [knew EXCEPT ![s][c] = supers[s]]
    /\ UNCHANGED <<state, supers, persist, snFile, net, crashes, advertised>>

\* process_sn_msg, REQ with the E and A flags: an edge asks a running
\* supernode to coordinate its community.
EdgeJoin(s, c) ==
    /\ state[s] = "READY"
    /\ c \notin comms[s].names
    /\ comms' = [comms EXCEPT ![s] = WithCommunity(@, c)]
    /\ commFile' = [commFile EXCEPT ![s] = WithCommunity(comms[s], c)]
    /\ Advertise({}, Advertisements(s, supers[s], {c}))
    /\ knew' = [knew EXCEPT ![s][c] = supers[s]]
    /\ UNCHANGED <<state, supers, persist, snFile, crashes>>

\* the stored communities do not count
VolunteersVariant(s) ==
    LET wanted == {c \in comms[s].names \ persist[s].names :
                      Cardinality(comms[s].sns[c]) < MinSn}
    IN  {new \in SUBSET wanted : Cardinality(new) <= MaxComm}

\* The communities a supernode takes up when its discovery ends: queried ones
\* with too few supernodes, as long as there is place beside the stored ones.
Volunteers(s) ==
    LET wanted == {c \in comms[s].names \ persist[s].names :
                      Cardinality(comms[s].sns[c]) < MinSn}
        room == MaxComm - Cardinality(persist[s].names)
    IN  {new \in SUBSET wanted :
            /\ Cardinality(new) <= room \/ new = {}
            /\ Cardinality(new) >= room \/ new = wanted}

\* discovery ends again and again
DiscoveryEndVariant1(s) ==
    /\ state[s] # "down"
    /\ \E new \in Volunteers(s) :
        LET names == persist[s].names \cup new
        IN  /\ comms' = [comms EXCEPT ![s] = [persist[s] EXCEPT !.names = names]]
            /\ Advertise({}, IF names = {} THEN {} ELSE Advertisements(s, supers[s], names))
            /\ knew' = [knew EXCEPT ![s] = [c \in Comms |->
                            IF c \in new THEN supers[s] ELSE @[c]]]
    /\ state' = [state EXCEPT ![s] = "READY"]
    /\ UNCHANGED <<supers, persist, files, crashes>>

\* the state goes where an edge's discovery goes
DiscoveryEndVariant2(s) ==
    /\ state[s] = "DISCOVERY"
    /\ state' = [state EXCEPT ![s] = "REQ_ADV"]
    /\ UNCHANGED <<memory, files, net, crashes, history>>

\* communities_discovery, once the discovery interval is over: the queried
\* list gives way to the stored one and the new communities, all of which are
\* advertised with a request for the others' ADVs.
DiscoveryEnd(s) ==
    /\ state[s] = "DISCOVERY"
    /\ \E new \in Volunteers(s) :
        LET names == persist[s].names \cup new
        IN  /\ comms' = [comms EXCEPT ![s] = [persist[s] EXCEPT !.names = names]]
            /\ Advertise({}, IF names = {} THEN {} ELSE Advertisements(s, supers[s], names))
            /\ knew' = [knew EXCEPT ![s] = [c \in Comms |->
                            IF c \in new THEN supers[s] ELSE @[c]]]
    /\ state' = [state EXCEPT ![s] = "READY"]
    /\ UNCHANGED <<supers, persist, files, crashes>>

\* The process ends between two handlers and its memory is lost.
Crash(s) ==
    /\ crashes < MaxCrashes
    /\ state[s] # "down"
    /\ state' = [state EXCEPT ![s] = "down"]
    /\ supers' = [supers EXCEPT ![s] = {}]
    /\ comms' = [comms EXCEPT ![s] = NoComms]
    /\ persist' = [persist EXCEPT ![s] = NoComms]
    /\ crashes' = crashes + 1
    /\ UNCHANGED <<files, net, history>>

---------------------------------------------------------------------------
Init ==
    /\ state = [s \in SNs |-> "down"]
    /\ supers = [s \in SNs |-> {}]
    /\ comms = [s \in SNs |-> NoComms]
    /\ persist = [s \in SNs |-> NoComms]
    /\ snFile = [s \in SNs |-> {}]
    /\ commFile = [s \in SNs |-> NoComms]
    /\ net = {}
    /\ crashes = 0
    /\ advertised = {}
    /\ knew = [s \in SNs |-> [c \in Comms |-> {}]]

Next ==
    \E s \in SNs :
        \/ Start(s)
        \/ \E m \in net : Receive(s, m)
        \/ \E c \in Comms : EdgeJoin(s, c)
        \/ DiscoveryEnd(s)
        \/ Crash(s)

Spec == Init /\ [][Next]_vars

---------------------------------------------------------------------------
(* Properties.                                                             *)

\* A running supernode's list of supernodes is the one in its file, so that a
\* crash at any moment forgets nobody (load_snm_info, update_and_save_supernodes).
SupersSaved ==
    \A s \in SNs : state[s] # "down" => snFile[s] = supers[s]

\* An advertise address kept for a community, in memory or in the file, is the
\* address of a supernode that did advertise that very community, even across
\* restarts of both.
CounterpartAdvertised ==
    \A s, t \in SNs, c \in Comms :
        AdvAddr(t) \in comms[s].sns[c] \cup commFile[s].sns[c]
            => <<t, c>> \in advertised

\* The address list of a community never outgrows the array it is sent in
\* (REGISTER_SUPER_ACK), whatever a file, a response or an ADV brought in.
BackupListFits ==
    \A s \in SNs, c \in Comms : Cardinality(comms[s].sns[c]) <= MaxSn

\* As long as a supernode is up and READY it drops neither a community it
\* coordinates nor a counterpart.
ReadyOnlyGrows ==
    [][\A s \in SNs : state[s] = "READY" /\ state'[s] = "READY" =>
          /\ comms[s].names \subseteq comms'[s].names
          /\ \A c \in Comms : comms[s].sns[c] \subseteq comms'[s].sns[c]]_vars

\* The soft limit: discovery adds communities to the stored ones, all of which it
\* takes over, only up to MaxComm, whatever the queried list grew to meanwhile.
VolunteersWithinLimit ==
    [][\A s \in SNs : state[s] = "DISCOVERY" /\ state'[s] = "READY" =>
          /\ comms'[s].names # persist[s].names => Cardinality(comms'[s].names) <= MaxComm
          /\ persist[s].names \subseteq comms'[s].names]_vars

\* Whoever took up a community while it knew of the other coordinator: once all
\* messages have been handled, at least one of the two has the other's address.
Coordinates(s, c) == state[s] = "READY" /\ c \in comms[s].names

Lists(s, t, c) == AdvAddr(t) \in comms[s].sns[c]

Met(s, t, c) == s \in knew[t][c] /\ t \in knew[s][c]

OneSideKnows ==
    net = {} =>
        \A s, t \in SNs, c \in Comms :
            Coordinates(s, c) /\ Coordinates(t, c) /\ Met(s, t, c)
                => Lists(s, t, c) \/ Lists(t, s, c)

=============================================================================
