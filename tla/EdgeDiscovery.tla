--------------------------- MODULE EdgeDiscovery ----------------------------
(***************************************************************************)
(* How an edge without a file finds the supernodes of its community (build *)
(* option N2N_MULTIPLE_SUPERNODES).                                        *)
(*                                                                         *)
(* In DISCOVERY the edge asks the supernodes of its command line, and every *)
(* supernode it hears of.  One that coordinates the community answers with  *)
(* the addresses to register with, and the edge is READY.  If none does,    *)
(* the edge ranks the supernodes by load and response time once an interval *)
(* is over and asks the best of them to coordinate the community and to     *)
(* advertise themselves (REQ_ADV); the first ADV makes the edge READY.      *)
(* What a READY edge does is the module EdgeSuper.                          *)
(*                                                                         *)
(* Datagrams are timely, or they are lost, late, duplicated and reordered.  *)
(***************************************************************************)
EXTENDS Integers, SequencesExt, Lists

CONSTANTS
    Sns,        \* supernodes
    CmdLines,   \* what the edge's command line may hold
    Existing,   \* the sets of supernodes that may coordinate the community
    Knows,      \* Knows[s]: supernodes.list_head of supernode s
    Load,       \* Load[s]: number of other communities s coordinates
    Keep,       \* N2N_MIN_SN_PER_COMM
    RingMax,    \* N2N_EDGE_NUM_SUPERNODES
    MaxComm,    \* N2N_MAX_COMM_PER_SN
    Interval,   \* N2N_SUPER_DISCOVERY_INTERVAL
    IntMax,     \* INT_MAX; the least int is -IntMax - 1
    Epochs,     \* what time() may be when the edge starts
    MaxTime,    \* bound: time since the start
    MaxMsgs     \* bound: datagrams in flight, unless timely; further ones are lost

ASSUME DiscoveryAssumption ==
    /\ IsFiniteSet(Sns)
    /\ Keep \in Nat \ {0} /\ RingMax \in Nat \ {0} /\ MaxComm \in Nat
    /\ Interval \in Nat \ {0} /\ IntMax \in Nat /\ MaxTime \in Nat
    /\ Epochs \subseteq Nat
    /\ Knows \in [Sns -> Seq(Sns)] /\ Load \in [Sns -> Nat]
    /\ \A s \in Sns : IsInjective(Knows[s])
    /\ CmdLines \subseteq Seq(Sns)
    /\ \A l \in CmdLines : l # <<>> /\ Len(l) <= RingMax /\ IsInjective(l)
    /\ Existing \subseteq SUBSET Sns

VARIABLES
    state,   \* snm_discovery_state; "CRASHED" after a NULL pointer was used
    list,    \* supernodes.list_head during discovery, by SNM address
    ring,    \* the addresses in sn_ip_array, whose order matters in EdgeSuper only
    epoch,   \* start_time
    now,     \* time since the start
    up,      \* the supernodes that are running and READY
    coord,   \* the supernodes that coordinate the community
    net,     \* datagrams in flight
    timely,  \* nothing is lost, and responses come before discovery ends
    given,   \* history: the command line
    ranked,  \* history: the list when discovery ended
    asked    \* history: the supernodes asked for an ADV

vars == <<state, list, ring, epoch, now, up, coord, net, timely, given, ranked, asked>>

\* struct sn_info
Entry(s, ts, num) == [sn |-> s, timestamp |-> ts, communities_num |-> num]
Entries == [sn: Sns, timestamp: Nat, communities_num: Nat]

\* A: whether the A flag is set, in a REQ of an edge or in the RSP to one.
Req(s, A) == [type |-> "REQ", sn |-> s, A |-> A]
Rsp(s, A, sns, num) == [type |-> "RSP", sn |-> s, A |-> A, sns |-> sns, num |-> num]
Adv(s) == [type |-> "ADV", sn |-> s]

Datagrams ==
         [type: {"REQ"}, sn: Sns, A: BOOLEAN]
    \cup [type: {"RSP"}, sn: Sns, A: BOOLEAN, sns: Seq(Sns), num: Nat]
    \cup [type: {"ADV"}, sn: Sns]

TypeOK ==
    /\ state \in {"DISCOVERY", "REQ_ADV", "READY", "CRASHED"}
    /\ list \in Seq(Entries) /\ ranked \in Seq(Entries)
    /\ \A i, j \in DOMAIN list : list[i].sn = list[j].sn => i = j
    /\ ring \subseteq Sns /\ Cardinality(ring) <= RingMax
    /\ epoch \in Epochs /\ now \in 0..MaxTime
    /\ up \subseteq Sns /\ coord \subseteq Sns
    /\ net \subseteq Datagrams
    /\ timely \in BOOLEAN
    /\ given \in CmdLines /\ asked \subseteq Sns

Names(l) == {l[i].sn : i \in DOMAIN l}

Transmit(taken, sent) ==
    \E kept \in (IF timely THEN {net \ taken} ELSE {net, net \ taken}),
       out \in (IF timely THEN {sent} ELSE SUBSET sent) :
        /\ timely \/ Cardinality(kept \cup out) <= MaxMsgs
        /\ net' = kept \cup out

---------------------------------------------------------------------------
(* Ranking.  The timestamp of an entry is a response time once the         *)
(* supernode answered, and before that zero, for the command line, or the  *)
(* time it was heard of.  A response to the zero makes it the time of day. *)

\* conversion to int, which keeps the low bits
Int32(x) == ((x + IntMax + 1) % (2 * (IntMax + 1))) - (IntMax + 1)

\* sn_rank
Rank(e) ==
    LET delta == IF MaxComm - e.communities_num < 1 THEN 1 ELSE MaxComm - e.communities_num
    IN  Int32((e.timestamp * 100) \div delta)

\* sn_cmp_rank_asc; a difference too large for an int wraps
CmpRankAsc(l, r) == Int32(Rank(l) - Rank(r))

\* merge, of two lists
Merge[two \in Seq(Entries) \X Seq(Entries)] ==
    LET l == two[1]
        r == two[2]
    IN  IF l = <<>> THEN r ELSE IF r = <<>> THEN l
        ELSE IF CmpRankAsc(Head(l), Head(r)) <= 0
             THEN <<Head(l)>> \o Merge[<<Tail(l), r>>]
             ELSE <<Head(r)>> \o Merge[<<l, Tail(r)>>]

\* sn_list_sort, merge_sort
Sort[l \in Seq(Entries)] ==
    LET middle == Len(l) \div 2
    IN  IF Len(l) < 2 THEN l
        ELSE Merge[<<Sort[SubSeq(l, 1, middle)], Sort[SubSeq(l, middle + 1, Len(l))]>>]

\* Variants: definitions named ...Variant are not part of the specification;
\* each is a plausible mistake in the definition that follows it.
BestVariant(l) == Names(SubSeq(l, 1, IF Len(l) < Keep THEN Len(l) ELSE Keep))

\* supernodes_discovery: the names of the best
Best(l) ==
    LET sorted == Sort[l]
    IN  Names(SubSeq(sorted, 1, IF Len(l) < Keep THEN Len(l) ELSE Keep))

---------------------------------------------------------------------------
(* One iteration of the edge's run_loop.                                   *)

Found == [state |-> state, list |-> list, ring |-> ring]

\* the interval is not awaited
DiscoveryEndsVariant(st) == st.state = "DISCOVERY" /\ st.list # <<>>

\* supernodes_discovery: when a list is cut down to the best
DiscoveryEnds(st) == st.state = "DISCOVERY" /\ now >= Interval /\ st.list # <<>>

\* edge_send_snm_req in DISCOVERY asks for supernodes.  The flags of its header are
\* not initialised: in those to `stray` the A flag happens to be set as well.
Requests(sns, stray) == {Req(s, s \in stray) : s \in ToSet(sns)}

\* the state changes only after the requests
RequestsForAdvVariant(sns) == {Req(s, FALSE) : s \in sns}

\* edge_send_snm_req in REQ_ADV
RequestsForAdv(sns) == {Req(s, TRUE) : s \in sns}

\* The end of an iteration whose handler took the datagrams in `taken`, left
\* st and sent `sent`.  In REQ_ADV nothing is repeated.
EndLoop(st, taken, sent) ==
    /\ ring' = st.ring
    /\ IF DiscoveryEnds(st)
       THEN /\ state' = "REQ_ADV"
            /\ list' = <<>>
            /\ ranked' = st.list
            /\ asked' = Best(st.list)
            /\ Transmit(taken, sent \cup RequestsForAdv(asked'))
       ELSE /\ state' = st.state
            /\ list' = st.list
            /\ UNCHANGED <<ranked, asked>>
            /\ Transmit(taken, sent)
    /\ UNCHANGED <<epoch, now, up, coord, timely, given>>

\* load_supernodes, no file: update_supernodes puts each address at the head
FromCmdLine(l) == [i \in 1..Len(l) |-> Entry(l[Len(l) + 1 - i], 0, 0)]

\* a full ring is not noticed
AcceptedByVariant(m) ==
    [Found EXCEPT !.state = "READY", !.list = <<>>, !.ring = @ \cup ToSet(m.sns)]

\* readFromSNMSocket, RSP with the A flag: the addresses to register with, as
\* many as the ring takes.
AcceptedBy(m) ==
    LET room == RingMax - Cardinality(ring)
    IN  [Found EXCEPT !.state = "READY", !.list = <<>>,
                      !.ring = @ \cup ToSet(SubSeq(m.sns, 1, IF Len(m.sns) < room
                                                             THEN Len(m.sns) ELSE room))]

\* readFromSNMSocket, RSP without it: load and response time of the sender are
\* noted, and supernodes not heard of before are put at the head.
NewIn(m) == Select(m.sns, ToSet(m.sns) \ Names(list))

Noted(m) ==
    [Found EXCEPT !.list =
        Reverse([i \in DOMAIN NewIn(m) |-> Entry(NewIn(m)[i], epoch + now, 0)])
        \o [i \in DOMAIN @ |->
              IF @[i].sn = m.sn
              THEN Entry(m.sn, epoch + now - @[i].timestamp, m.num) ELSE @[i]]]

\* the A flag is not looked at
RecvRspVariant(m) ==
    /\ m \in net /\ m.type = "RSP" /\ state # "CRASHED"
    /\ IF state = "READY" THEN EndLoop(Found, {m}, {})
       ELSE EndLoop(AcceptedBy(m), {m}, {})

\* readFromSNMSocket, RSP.  A sender that is not in the list is looked up all
\* the same, and the edge uses a NULL pointer.
RecvRsp(m) ==
    /\ m \in net
    /\ m.type = "RSP"
    /\ state # "CRASHED"
    /\ IF state = "READY" THEN EndLoop(Found, {m}, {})
       ELSE IF m.A THEN EndLoop(AcceptedBy(m), {m}, {})
       ELSE IF m.sn \in Names(list)
            THEN \E stray \in SUBSET ToSet(NewIn(m)) : EndLoop(Noted(m), {m}, Requests(NewIn(m), stray))
       ELSE EndLoop([Found EXCEPT !.state = "CRASHED"], {m}, {})

\* readFromSNMSocket, ADV: a full ring takes nothing
RecvAdv(m) ==
    /\ m \in net
    /\ m.type = "ADV"
    /\ state # "CRASHED"
    /\ EndLoop(IF Cardinality(ring) = RingMax THEN Found
               ELSE [Found EXCEPT !.state = "READY", !.ring = @ \cup {m.sn}], {m}, {})

\* An iteration without such input, for which select() needs up to ten seconds.
Idle ==
    /\ DiscoveryEnds(Found)
    /\ EndLoop(Found, {}, {})

---------------------------------------------------------------------------
(* The supernodes and time.                                                *)

\* build_snm_info for an edge: a coordinator sends those counterparts it knows
\* (which ones is the matter of the module Snm) and its own address.
Info(s) ==
    IF s \in coord
    THEN {Rsp(s, TRUE, Append(SetToSeq(others), s), 0) : others \in SUBSET (coord \ {s})}
    ELSE {Rsp(s, FALSE, Knows[s], Load[s])}

\* process_sn_msg, REQ of an edge.  With the A flag the supernode becomes a
\* coordinator, if it is not one yet, and advertises itself.
RecvReq(m) ==
    /\ m \in net
    /\ m.type = "REQ"
    /\ m.sn \in up
    /\ IF m.A
       THEN /\ coord' = coord \cup {m.sn}
            /\ Transmit({m}, {Adv(m.sn)})
       ELSE /\ coord' = coord
            /\ \E rsp \in Info(m.sn) : Transmit({m}, {rsp})
    /\ UNCHANGED <<state, list, ring, epoch, now, up, timely, given, ranked, asked>>

\* What is sent to a supernode that is down, or not READY, is gone.
Unheard(m) ==
    /\ m \in net
    /\ m.type = "REQ"
    /\ m.sn \notin up
    /\ net' = net \ {m}
    /\ UNCHANGED <<state, list, ring, epoch, now, up, coord, timely, given, ranked, asked>>

Tick ==
    /\ now < MaxTime
    /\ timely /\ now + 1 >= Interval => net = {}
    /\ now' = now + 1
    /\ UNCHANGED <<state, list, ring, epoch, up, coord, net, timely, given, ranked, asked>>

---------------------------------------------------------------------------
\* load_supernodes and the requests main sends
Init ==
    /\ given \in CmdLines
    /\ state = "DISCOVERY"
    /\ list = FromCmdLine(given)
    /\ ring = {}
    /\ epoch \in Epochs
    /\ now = 0
    /\ up \in SUBSET Sns
    /\ coord \in Existing
    /\ timely \in BOOLEAN
    /\ \E stray \in SUBSET ToSet(given) : net = Requests(given, stray)
    /\ ranked = <<>>
    /\ asked = {}

Next ==
    \/ \E m \in net : RecvRsp(m) \/ RecvAdv(m) \/ RecvReq(m) \/ Unheard(m)
    \/ Idle
    \/ Tick

Spec == Init /\ [][Next]_vars

---------------------------------------------------------------------------
(* Properties.                                                             *)

\* A READY edge has somebody to register with, and registers only with
\* coordinators of its community, whatever datagrams came late or twice.
RegistersWithCoordinators ==
    /\ state = "READY" => ring # {}
    /\ ring \subseteq coord

\* The look-up of a response's sender, whose result is used unchecked
\* (edge.c readFromSNMSocket), never fails as long as no response comes after
\* discovery ended.
TimelyNeverCrashes == timely => state # "CRASHED"

\* Position i of the list is to be preferred to j: lower rank, or earlier.
Preferred(l, i, j) ==
    \/ Rank(l[i]) < Rank(l[j])
    \/ Rank(l[i]) = Rank(l[j]) /\ i < j

\* The supernodes asked to coordinate a new community are the best by rank, the
\* earlier ones among equals, whenever differences of ranks fit in an int.
BestAsked ==
    LET l == ranked
        fits == \A i, j \in DOMAIN l : CmpRankAsc(l[i], l[j]) = Rank(l[i]) - Rank(l[j])
    IN  fits => asked = {l[i].sn : i \in {j \in DOMAIN l :
                            Cardinality({k \in DOMAIN l : Preferred(l, k, j)}) < Keep}}

\* The main loop reads what arrives and ends discovery, supernodes answer.
Fairness ==
    /\ WF_vars(Idle) /\ WF_vars(Tick)
    /\ WF_vars(\E m \in net : RecvRsp(m) \/ RecvAdv(m))
    /\ WF_vars(\E m \in net : RecvReq(m) \/ Unheard(m))

FairSpec == Spec /\ Fairness

\* All supernodes the edge may hear of.
Heard == ToSet(given) \cup UNION {ToSet(Knows[s]) : s \in up}

\* With a timely network an edge becomes READY if one supernode of its command
\* line works, provided that it hears of no supernode that does not work, or of
\* too few for any to be left out.  (Silent ones may rank better than one that
\* answered: they can take all places.)
FindsWorking ==
    timely /\ ToSet(given) \cap up # {} /\ (Heard \subseteq up \/ Cardinality(Heard) <= Keep)
        ~> state = "READY"

=============================================================================
