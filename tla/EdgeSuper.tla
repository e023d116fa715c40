----------------------------- MODULE EdgeSuper -----------------------------
(***************************************************************************)
(* Registration of an edge with the supernodes of its community (build     *)
(* option N2N_MULTIPLE_SUPERNODES).                                        *)
(*                                                                         *)
(* Once discovery brought an ADV or a list the edge registers with one     *)
(* supernode of its ring after the other, one per lifetime, so that all of *)
(* them keep an entry for it; one, the main supernode, relays its frames.  *)
(* An answer carries the cookie of its request and the addresses of backup *)
(* supernodes, which extend the ring.  A request that is not answered is   *)
(* repeated sooner, and after too many the edge moves on.  The ring is     *)
(* kept in a file.                                                         *)
(*                                                                         *)
(* Supernodes crash and come back empty, and forget an edge that stays     *)
(* silent.  Time is counted in units that no iteration of a main loop      *)
(* exceeds; only the time since an event matters, so no clock is kept.     *)
(***************************************************************************)
EXTENDS Integers, SequencesExt

CONSTANTS
    Sns,          \* supernodes of the community
    Advertisers,  \* the supernodes the edge asked, if it has no file
    Answers,      \* their answers: "RSP" of coordinators, "ADV" of new ones
    Files,        \* contents of the edge's file at the start, newest first
    Backups,      \* Backups[s]: counterparts of s, in the order it sends them
    RingMax,      \* N2N_EDGE_NUM_SUPERNODES
    Attempts,     \* N2N_EDGE_SUP_ATTEMPTS
    DflLifetime,  \* REGISTER_SUPER_INTERVAL_DFL
    MinLifetime,  \* REGISTER_SUPER_INTERVAL_MIN
    MaxLifetime,  \* REGISTER_SUPER_INTERVAL_MAX
    Granted,      \* what reg_lifetime of a supernode returns
    RegTimeout,   \* REGISTRATION_TIMEOUT
    Timely,       \* every datagram arrives, once, before time passes
    MaxMsgs,      \* bound: datagrams in flight; a further one is lost
    MaxFlips      \* bound: crashes, returns and restarts

ASSUME RingAssumption ==
    /\ RingMax \in Nat \ {0} /\ Attempts \in Nat
    /\ Advertisers \subseteq Sns /\ Advertisers # {} /\ Answers \subseteq {"ADV", "RSP"}
    /\ Files \subseteq Seq(Sns)
    /\ \A f \in Files : /\ 0 < Len(f) /\ Len(f) <= RingMax
                        /\ IsInjective(f)
    /\ Backups \in [Sns -> Seq(Sns)]

ASSUME LifetimeAssumption ==
    /\ DflLifetime \in Nat \ {0} /\ MinLifetime \in Nat \ {0} /\ MaxLifetime \in Nat
    /\ Granted \in Nat /\ RegTimeout \in Nat
    /\ MinLifetime <= MaxLifetime /\ DflLifetime <= MaxLifetime

ASSUME BoundsAssumption == MaxMsgs \in Nat /\ MaxFlips \in Nat

VARIABLES
    ready,    \* snm_discovery_state = N2N_SNM_STATE_READY (else DISCOVERY or REQ_ADV)
    ring,     \* sn_ip_array, up to sn_num
    list,     \* supernodes.list_head, which is also the file
    idx,      \* sn_idx, counted from 1
    main,     \* supernode, the relay of the edge's frames
    reg,      \* the registration in progress, see Registration
    age,      \* time since last_register_req, or Never
    up,       \* up[s]: supernode s is running
    entry,    \* entry[s]: time since s heard from the edge, Absent, or Lost
    net,      \* datagrams in flight
    looped,   \* the edge's run_loop went round since the last Tick
    flips,    \* crashes, returns and restarts so far
    missed    \* history: missed[s], requests to s since an answer of s counted

edge == <<ready, ring, list, idx, main, reg, age, looped, missed>>
vars == <<ready, ring, list, idx, main, reg, age, up, entry, net, looped, flips, missed>>

NoSn == "none"
ASSUME NoSnAssumption == NoSn \notin Sns

Never == MaxLifetime + 1

\* No entry; Lost: no entry since a crash.
Absent == -1
Lost == -2

\* rand() gives a request a cookie that no datagram under way carries.
Cookies == 0..(MaxMsgs + 1)

\* sn: reg_sn.sn.  answered: reg_sn.timestamp is not before last_register_req.
\* wait: sn_wait.  attempts: sup_attempts.  cookie: last_cookie.
\* lifetime: register_lifetime.
Registration == [sn: Sns \cup {NoSn}, answered: BOOLEAN, wait: BOOLEAN,
                 attempts: 0..Attempts, cookie: Cookies, lifetime: Nat]

Datagram(type, s, c) == [type |-> type, sn |-> s, cookie |-> c]
Datagrams == [type: {"REGISTER_SUPER", "REGISTER_SUPER_ACK", "ADV", "RSP"}, sn: Sns, cookie: Cookies]

TypeOK ==
    /\ ready \in BOOLEAN
    /\ ring \in Seq(Sns) /\ list \in Seq(Sns)
    /\ idx \in 1..RingMax
    /\ main \in Sns \cup {NoSn}
    /\ reg \in Registration
    /\ age \in 0..Never
    /\ up \in [Sns -> BOOLEAN]
    /\ entry \in [Sns -> Nat \cup {Absent, Lost}]
    /\ net \subseteq Datagrams
    /\ looped \in BOOLEAN
    /\ flips \in Nat
    /\ missed \in [Sns -> 0..(Attempts + 1)]

---------------------------------------------------------------------------
(* The network.                                                            *)

Transmit(taken, sent) ==
    \E kept \in (IF Timely THEN {net \ taken} ELSE {net, net \ taken}),
       out \in (IF Timely THEN {sent} ELSE SUBSET sent) :
        /\ Cardinality(kept \cup out) <= MaxMsgs
        /\ net' = kept \cup out

---------------------------------------------------------------------------
(* The ring.  A handler turns the edge it finds into the one it leaves for *)
(* the rest of the iteration.                                              *)

Found == [ready |-> ready, ring |-> ring, list |-> list, main |-> main, reg |-> reg,
          missed |-> missed]

\* Variants: definitions named ...Variant are not part of the specification;
\* each is a plausible mistake in the definition that follows it.
AddSupernodeVariant(st, s) ==
    IF Len(st.ring) = RingMax THEN st
    ELSE [st EXCEPT !.ring = Append(@, s),
                    !.list = IF s \in ToSet(@) THEN @ ELSE <<s>> \o @]

\* add_supernode: a full ring takes nothing; a new address goes to the end of
\* the ring and to the head of the list, which is saved.
AddSupernode(st, s) ==
    IF Len(st.ring) = RingMax \/ s \in ToSet(st.list) THEN st
    ELSE [st EXCEPT !.ring = Append(@, s), !.list = <<s>> \o @]

---------------------------------------------------------------------------
(* One iteration of the edge's run_loop.                                   *)

Clamp(t) == IF t < MinLifetime THEN MinLifetime ELSE IF t > MaxLifetime THEN MaxLifetime ELSE t

Due(g) == (g.wait /\ age > g.lifetime \div 10) \/ age >= g.lifetime

\* the end of the ring is not noticed
GiveUpVariant1(st) ==
    LET next == IF idx + 1 > Len(st.ring) THEN idx ELSE idx + 1
    IN  [idx |-> next, attempts |-> Attempts,
         main |-> IF ~st.reg.answered /\ st.main = st.reg.sn THEN st.ring[next] ELSE st.main]

\* the main supernode stays where it is
GiveUpVariant2(st) ==
    LET next == IF idx + 1 > Len(st.ring) THEN 1 ELSE idx + 1
    IN  [idx |-> next, attempts |-> Attempts, main |-> st.main]

\* whether there was an answer is not looked at
GiveUpVariant3(st) ==
    LET next == IF idx + 1 > Len(st.ring) THEN 1 ELSE idx + 1
    IN  [idx |-> next, attempts |-> Attempts,
         main |-> IF st.main = st.reg.sn THEN st.ring[next] ELSE st.main]

\* update_supernode_reg, no attempts left: on to the next of the ring, which
\* also takes the place of a main supernode that did not answer.
GiveUp(st) ==
    LET next == IF idx + 1 > Len(st.ring) THEN 1 ELSE idx + 1
    IN  [idx |-> next, attempts |-> Attempts,
         main |-> IF ~st.reg.answered /\ st.main = st.reg.sn THEN st.ring[next] ELSE st.main]

\* only an unanswered request makes the edge move on
ChooseVariant(st) ==
    IF st.reg.wait /\ st.reg.attempts = 0
    THEN GiveUp(st)
    ELSE [idx |-> idx, attempts |-> st.reg.attempts - 1, main |-> st.main]

\* update_supernode_reg once it is due: whom the next request goes to
Choose(st) ==
    IF st.reg.attempts = 0
    THEN GiveUp(st)
    ELSE [idx |-> idx, attempts |-> st.reg.attempts - 1, main |-> st.main]

\* update_supernode_reg and send_register_super
Register(st, taken) ==
    LET n == Choose(st)
        to == st.ring[n.idx]
    IN  \E c \in Cookies \ ({m.cookie : m \in net} \cup {st.reg.cookie}) :
            /\ idx' = n.idx
            /\ main' = n.main
            /\ reg' = [st.reg EXCEPT !.sn = to, !.answered = FALSE, !.wait = TRUE,
                                     !.attempts = n.attempts, !.cookie = c]
            /\ age' = 0
            /\ missed' = [st.missed EXCEPT ![to] = IF @ > Attempts THEN @ ELSE @ + 1]
            /\ Transmit(taken, {Datagram("REGISTER_SUPER", to, c)})

\* The end of an iteration whose handler took the datagrams in `taken` and
\* left st: the edge registers, when it is ready and it is time.
EndLoop(st, taken) ==
    /\ ready' = st.ready
    /\ ring' = st.ring
    /\ list' = st.list
    /\ looped' = TRUE
    /\ IF st.ready /\ Due(st.reg)
       THEN Register(st, taken)
       ELSE /\ main' = st.main /\ reg' = st.reg /\ missed' = st.missed
            /\ UNCHANGED <<idx, age>>
            /\ Transmit(taken, {})
    /\ UNCHANGED <<up, entry, flips>>

\* any answer will do while one is awaited
AcceptsVariant(m) == reg.wait

\* readFromIPSocket, REGISTER_SUPER_ACK: the answers that count
Accepts(m) == reg.wait /\ m.cookie = reg.cookie

Answered(m) ==
    [FoldLeft(AddSupernode, Found, Backups[m.sn]) EXCEPT
        !.reg = [@ EXCEPT !.wait = FALSE, !.answered = TRUE, !.attempts = 0,
                          !.lifetime = Clamp(Granted)],
        !.missed[m.sn] = 0]

\* readFromIPSocket, REGISTER_SUPER_ACK
RecvSuperAck(m) ==
    /\ m \in net
    /\ m.type = "REGISTER_SUPER_ACK"
    /\ EndLoop(IF Accepts(m) THEN Answered(m) ELSE Found, {m})

\* readFromSNMSocket, ADV: whatever the state, the address is added and the
\* edge is ready.  With a ring of one that is the main supernode, and its
\* registration starts afresh; with a full ring nothing happens.
RecvAdv(m) ==
    LET added == AddSupernode(Found, m.sn)
        first == [added EXCEPT
                    !.main = added.ring[idx],
                    !.reg = [@ EXCEPT !.sn = added.ring[idx], !.answered = age = Never]]
    IN  /\ m \in net
        /\ m.type = "ADV"
        /\ EndLoop(IF Len(ring) = RingMax THEN Found
                   ELSE [(IF Len(added.ring) = 1 THEN first ELSE added) EXCEPT !.ready = TRUE],
                   {m})

\* readFromSNMSocket, RSP of a coordinator: the counterparts it knows and its own
\* address make up the ring.  Neither the main supernode nor the registration
\* is touched.
RecvRsp(m) ==
    /\ m \in net
    /\ m.type = "RSP"
    /\ EndLoop(IF ready THEN Found
               ELSE [FoldLeft(AddSupernode, [Found EXCEPT !.list = <<>>],
                              Append(Backups[m.sn], m.sn)) EXCEPT !.ready = TRUE],
               {m})

\* The iterations without such input.
Idle ==
    /\ ~looped
    /\ EndLoop(Found, {})

\* The edge ends and is started again: load_supernodes reads the file.
Restart ==
    /\ ready
    /\ flips < MaxFlips
    /\ flips' = flips + 1
    /\ ring' = list
    /\ idx' = 1
    /\ main' = list[1]
    /\ reg' = [sn |-> list[1], answered |-> TRUE, wait |-> FALSE, attempts |-> Attempts,
               cookie |-> 0, lifetime |-> DflLifetime]
    /\ age' = Never
    /\ looped' = FALSE
    /\ missed' = [s \in Sns |-> 0]
    /\ UNCHANGED <<ready, list, up, entry, net>>

---------------------------------------------------------------------------
(* The supernodes and time.                                                *)

\* sn.c process_udp, REGISTER_SUPER, and update_edge: the answer goes back with
\* the cookie of the request.
RecvRegisterSuper(m) ==
    /\ m \in net
    /\ m.type = "REGISTER_SUPER"
    /\ up[m.sn]
    /\ entry' = [entry EXCEPT ![m.sn] = 0]
    /\ Transmit({m}, {Datagram("REGISTER_SUPER_ACK", m.sn, m.cookie)})
    /\ UNCHANGED <<edge, up, flips>>

\* What is sent to a supernode that is down is gone.
Unheard(m) ==
    /\ m \in net
    /\ m.type = "REGISTER_SUPER"
    /\ ~up[m.sn]
    /\ net' = net \ {m}
    /\ UNCHANGED <<edge, up, entry, flips>>

\* sn.c run_loop, purge_expired_registrations
Purge(s) ==
    /\ entry[s] > RegTimeout
    /\ entry' = [entry EXCEPT ![s] = Absent]
    /\ UNCHANGED <<edge, up, net, flips>>

Crash(s) ==
    /\ flips < MaxFlips
    /\ up[s]
    /\ flips' = flips + 1
    /\ up' = [up EXCEPT ![s] = FALSE]
    /\ entry' = [entry EXCEPT ![s] = Lost]
    /\ UNCHANGED <<edge, net>>

ComeBack(s) ==
    /\ flips < MaxFlips
    /\ ~up[s]
    /\ flips' = flips + 1
    /\ up' = [up EXCEPT ![s] = TRUE]
    /\ UNCHANGED <<edge, entry, net>>

\* A unit of time; entries older than RegTimeout are not told apart.
Tick ==
    /\ looped
    /\ Timely => net = {}
    /\ looped' = FALSE
    /\ age' = IF age = Never THEN Never ELSE age + 1
    /\ entry' = [s \in Sns |-> IF entry[s] \in 0..RegTimeout THEN entry[s] + 1 ELSE entry[s]]
    /\ UNCHANGED <<ready, ring, list, idx, main, reg, up, net, flips, missed>>

---------------------------------------------------------------------------
\* The edge has a file, or it has asked for addresses (EdgeDiscovery) and the
\* answers are under way.
Init ==
    /\ list \in Files \cup {<<>>}
    /\ ring = list
    /\ ready = (list # <<>>)
    /\ idx = 1
    /\ main = IF ready THEN list[1] ELSE NoSn
    /\ reg = [sn |-> main, answered |-> TRUE, wait |-> FALSE, attempts |-> Attempts,
              cookie |-> 0, lifetime |-> DflLifetime]
    /\ age = Never
    /\ up = [s \in Sns |-> TRUE]
    /\ entry = [s \in Sns |-> Absent]
    /\ IF ready THEN net = {}
       ELSE \E t \in Answers : net = {Datagram(t, s, 0) : s \in Advertisers}
    /\ looped = FALSE
    /\ flips = 0
    /\ missed = [s \in Sns |-> 0]

Next ==
    \/ \E m \in net : RecvSuperAck(m) \/ RecvAdv(m) \/ RecvRsp(m)
    \/ Idle
    \/ Restart
    \/ \E m \in net : RecvRegisterSuper(m) \/ Unheard(m)
    \/ \E s \in Sns : Purge(s) \/ Crash(s) \/ ComeBack(s)
    \/ Tick

Spec == Init /\ [][Next]_vars

---------------------------------------------------------------------------
(* Properties.                                                             *)

\* The ring has no supernode twice, holds exactly what the file holds, and has
\* a place for the index: restarts, backups and late ADVs never make the edge
\* register with an empty address.  The main supernode, if there is one, is in it.
RingSaved ==
    /\ IsInjective(ring) /\ Len(ring) <= RingMax
    /\ ToSet(ring) = ToSet(list)
    /\ ready => idx <= Len(ring)
    /\ main # NoSn => main \in ToSet(ring)

\* An edge that takes its registration for answered is in the table of the
\* supernode it asked last, since it asked, unless that one crashed: no answer
\* of another supernode, or to an earlier request, passes for it.
AnswerIsCurrent ==
    ready /\ ~reg.wait /\ age # Never =>
        entry[reg.sn] = Lost \/ entry[reg.sn] \in 0..age

\* HACKING:77: frames go to the supernode if the MAC is not found.  An edge whose
\* registration was answered has a supernode to send them to.
RelayKnown ==
    ready /\ ~reg.wait /\ age # Never => main # NoSn

\* n2n_v2: the edge leaves its main supernode only after missing responses.
MainKeptWhileAnswering ==
    [][main' # main /\ main \in ToSet(ring') /\ flips' = flips
          => missed[main] >= Attempts]_vars

\* A running supernode of the ring never forgets the edge, however many others
\* of the ring are down and have to be given up first.
NeverForgotten ==
    [][\A s \in ToSet(ring) : up[s] /\ entry[s] >= 0 => entry'[s] # Absent]_vars

\* Both main loops keep running and read what arrives.
Fairness ==
    /\ WF_vars(Idle) /\ WF_vars(Tick)
    /\ WF_vars(\E m \in net : RecvSuperAck(m) \/ RecvAdv(m) \/ RecvRsp(m))
    /\ WF_vars(\E m \in net : RecvRegisterSuper(m) \/ Unheard(m))

FairSpec == Spec /\ Fairness

\* When one supernode of the ring stays up, the edge does not stay with a main
\* supernode that is down.
FailsOver ==
    \A s, t \in Sns :
        <>[](s \in ToSet(ring) /\ up[s] /\ ~up[t]) => []<>(main # t)

=============================================================================
