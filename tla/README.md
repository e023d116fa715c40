# n2n: specifications of the edge and of the supernode

n2n is a layer-two VPN.  **Edges** give their host a TAP device and carry its
Ethernet frames in UDP datagrams, directly to the edge the frame is for when
that works, and through a **supernode** otherwise.  This fork lets several
supernodes coordinate a community (build option `N2N_MULTIPLE_SUPERNODES`):
the supernodes form a federation of their own (SNM) and an edge registers with
all coordinators of its community.

This directory specifies that program in TLA+, from its state machines down to
the bytes of its datagrams, checks the specifications with TLC and proves
theorems about the peer tables, the supernode's relay, the federation, the edge's
discovery of supernodes, its registration with them, its key schedule, the formats, the
ciphers and the frames with TLAPS.

## 1. Inventory

| Part | State | Operations | Talks to |
|---|---|---|---|
| Peer registration (`edge.c`, `n2n.c`) | `known_peers`, `pending_peers`, `last_purge` | PACKET, REGISTER, REGISTER_ACK received; frame from TAP; purge | other edges, supernode (UDP) |
| Registration with supernodes (`edge.c`) | ring `sn_ip_array`, `sn_idx`, main `supernode`, `reg_sn`, `sup_attempts`, `last_cookie`, `register_lifetime`, the file of supernodes | `update_supernode_reg`, REGISTER_SUPER_ACK, ADV received, `load_supernodes` | supernodes |
| Edge supernode discovery (`edge.c`) | `supernodes` list with ranks, `snm_discovery_state` | RSP received, `supernodes_discovery` | supernodes (SNM socket) |
| Key schedule (`edge.c`, `n2n_keyfile.c`, `transform_*.c`) | a table of keys per transform, `tx_sa`, `tx_transop_idx` | read file, add, tick, encode, decode, reload | key file, operator |
| Supernode registry and relay (`sn.c`) | `edges`, `last_purge` | REGISTER_SUPER, PACKET, REGISTER, purge | edges |
| Supernode federation (`sn.c`, `sn_multiple.c`) | `supernodes`, `communities.list_head`, `communities.persist`, two files, `snm_discovery_state` | REQ, RSP, ADV received; `communities_discovery`; `load_snm_info` | supernodes, edges |
| Wire formats (`wire.c`, `sn_multiple_wire.c`) | none | encode, decode | all of the above |
| Frames (`edge.c`) | the buffers of one call | `send_packet2net`, `handle_PACKET` | TAP device, transforms |
| Ciphers (`twofish.c`, `transform_*.c`) | a Twofish context and an AES vector per direction, kept from packet to packet | fwd, rev | frames |
| Compression, devices, consoles, options, tools | | | |

Edge and supernode are single threads around `select()`: a handler runs to its
end, then lists are purged and timers looked at.  What makes them hard is not
threads but the network and the other processes: datagrams are lost, late,
duplicated and reordered, NATs change public sockets, processes crash and come
back with what their files hold, clocks differ, tables and lists have fixed
sizes.  `PROJECT.json` lists these hazards line by line.

What has to hold, part by part:

* peers: one entry per peer; frames go directly only to a socket that answered;
  a supernode's report never replaces what was seen directly; silent peers are
  forgotten, handshakes that are not disturbed complete;
* registration: ring, list and file agree; an answer counts only for the
  request it answers; a main supernode that is down is left, one that answers
  is not; the supernodes not asked at the moment do not forget the edge;
* discovery: ends with the best supernodes, and ends at all;
* keys: no packet is lost to a rollover, the key in use is current, the last one
  stays when all have expired, nothing is sent in the clear;
* registry and relay: an edge is reached where it registered last; a frame
  reaches its destination and does not come back;
* federation: files keep what memory holds, address lists hold real
  counterparts, fit and only grow, discovery respects the limits, coordinators
  of a community find each other, an edge is told the counterparts of its own
  community;
* wire formats: a receiver gets the very fields the sender filled in, and both
  agree on where a message ends;
* ciphers and frames: what one host wrote the other reads, whatever the ciphers
  remember of packets that were lost, overtaken or sent twice.

## 2. Modules

| Module | Models | Runs | Proofs |
|---|---|---|---|
| `EdgePeers` | peer tables of all edges of a community, relay, NATs | `EdgePeers_safety`, `_live` | `EdgePeers_proofs` |
| `SnRelay` | a supernode's table of edges and its relay, several communities | `SnRelay_frames` | `SnRelay_proofs` |
| `Registry` | what a supernode promises its edges: the specification `SnRelay` implements | (`SnRelay_frames`) | (`SnRelay_proofs`) |
| `EdgeDiscovery` | a new edge looking for the supernodes of its community | `EdgeDiscovery_find` | `EdgeDiscovery_proofs` |
| `EdgeSuper` | one edge and the supernodes of its community | `EdgeSuper_ring`, `_live`, `_relay` | `EdgeSuper_proofs` |
| `Keys` | the key schedules of several edges | `Keys_roll`, `Keys_clear` | `Keys_proofs` |
| `Snm` | the federation of supernodes | `Snm_safety`, `_meet` | `Snm_proofs` |
| `Lists` | the selection from a list that `Keys` and `EdgeDiscovery` share | | `Data_proofs` |
| `Octets` | bytes, their XOR, and words of four bytes (used by `Wire` and `Twofish`) | | `Data_proofs` |
| `Wire` | encoders and decoders, byte by byte | | |
| `Datagrams` | a network of datagrams made of bytes, and what they may say (uses `Wire`) | (`Overlay_end`) | (`Overlay_proofs`) |
| `Twofish` | the Twofish library: rounds, chaining, ciphertext stealing | | (`Overlay_proofs`) |
| `Transforms` | the transforms: null, Twofish, AES (uses `Twofish`) | | (`Overlay_proofs`) |
| `Frames` | a frame from one TAP device to another, and handshakes, in bytes | | (`Overlay_proofs`) |
| `SnComms` | one supernode's lists, messages and files, in bytes | | |
| `Overlay` | `Frames` and `SnComms` on one network of `Datagrams` | `Overlay_end` | `Overlay_proofs` |

`MC<module>` adds the values TLC needs.  In every module one action is one
handler together with everything that runs after it before the loop goes back
to `select()`.  When several descriptors are readable at once the code handles
them in one iteration and the models in several; the difference is only that a
purge, a tick or a registration that is due may come between them.  Variables
marked *history* in their comment exist for a property and influence nothing.
Definitions called `...Variant` are plausible mistakes; the properties are known
to notice them, and no specification uses them.

### EdgePeers

Each edge has sets `known` and `pending` of `[mac, sock, seen]`; the order of the
C lists is never observable.  `RecvPacket`, `RecvRegister`, `RecvRegisterAck`,
`ReadFromTAP` and `Idle` are the iterations of `run_loop`, and all end with
`EndLoop`, which purges both lists with the one `last_purge` they share.
`PurgeExpired` therefore takes and returns that time.  `Relay` and
`RegisterSuper` are what the supernode does, `Rebind` is a NAT, `Restart` a new
process, `Tick` one `select()` timeout, which no edge sleeps through.
`CanReach` says between which sockets a firewall or NAT lets datagrams through.
What is abstracted: payload, cookies (an edge does not look at the cookie of a
REGISTER_ACK), communities other than the edge's own, frames to multicast
addresses dropped by an option (`SnRelay` has both).

* `EdgePeers_safety` (two edges, three sockets of which one pair is blocked, two
  datagrams in flight, one rebind or restart, the clock up to 3 with a purge
  period of 2): a handshake in both directions, a late or doubled
  acknowledgement and a supernode reporting an old socket all fit in.  The clock
  ends before an entry expires, so no purge of this run removes one; a purge that
  does, between any two steps of a handshake, is covered by the theorems
  `OneEntryPerMac`, `KnownPeersAnswered` and `PeersAreKept`, for all times.
  `OneEntry`, `AckProvenance`, `EvictionJustified`, `NoMoveInPlace`.
* `EdgePeers_live` (no loss, no moves, three purge periods): `KnownFresh`, and
  `HandshakeCompletes` under weak fairness of the two receiving actions; the
  main loop reads every datagram that arrived, so a datagram that stays
  receivable is received.

### SnRelay and Registry

`edges` is `sss->edges`, a list with one entry per MAC whatever its community.
`RelayPacket`, `RelayRegister`, `RecvRegisterSuper`, `DropAtSupernode` and `Idle`
are the iterations of the supernode's `run_loop`, each ending with the purge
(`EndLoop`); `Register`, `ReadFromTAP` (with its options for multicast and routed
packets) and `RecvPacket` are the edges.  A NAT may hand the socket one edge had
to another one (`Rebind`), a host may start its edge for another community
(`Rejoin`), datagrams of other implementations may arrive (`Foreign`: used up
TTLs, flags of a supernode), and the supernode may end and start (`Restart`).

`Registry` knows neither lists, purges nor packets: every edge has a *place*, the
community and socket of its last registration, and a *silence*; frames go to the
places as they are when they are routed; and an edge is forgotten, at a time of
the supernode's choosing, after a silence longer than `Timeout` and before it
exceeds `MaxSilence`.  The refinement mapping (`Promise`) reads the place and the
silence off the table, takes the history variable `routed` for what was handled,
and `Timeout + Period` for `MaxSilence`.

* `SnRelay_frames` (two edges, two communities, three sockets, two datagrams in
  flight, one move, `Timeout` and `Period` 1, the clock up to 3): the bounds let an
  edge register, move, have a frame to its old place under way, be purged, and
  register again.  `ImplementsRegistry` is the refinement; what it says of a unicast
  frame is that it goes to its destination's place, in whatever community: the
  supernode does forward across communities, and that the frame gets no further is
  one comparison of the receiving edge, on which no property is spent.  `NotReflected` uses `owners`, the edges a socket ever belonged to:
  only a NAT that gives a socket to a second edge can bring a frame back, the
  case the REVISIT in `try_broadcast` asks about.  `Delivered` under weak fairness
  of relaying and receiving, in the behaviours chosen as `timely`: the loops read
  what has arrived, and a timely datagram arrives before time passes.

### EdgeSuper

`Idle`, `RecvSuperAck` and `RecvAdv` are the edge's iterations, ending with
`update_supernode_reg` (`Due`, `Choose`, `GiveUp`, `Register`).  The list of
supernodes is also the file, since `update_and_save_supernodes` writes it
whenever it changes.  Time appears only as the time since the last request
(`age`) and since a supernode heard of the edge (`entry`), so that the model
needs no clock bound.  `Cookies` holds one value more than may be in flight: the
four random bytes of a cookie are taken not to repeat among the datagrams under
way.  The edge starts with a file, or where `EdgeDiscovery` leaves it: ADVs, or
the RSPs of coordinators, are under way (`Answers`).

* `EdgeSuper_ring`: a ring of two, so that it fills; lost, late and duplicated
  datagrams; one crash, return or restart.  `RingSaved`, `AnswerIsCurrent`.
* `EdgeSuper_live`: three supernodes, two crashes or returns, the intervals of
  the code in units of a minute (the first lifetime 60 s is 1, the granted 120 s is
  2, `REGISTRATION_TIMEOUT` is 20, three attempts; a fast retry, after a tenth of
  a lifetime, is rounded up to the next unit, as no iteration is longer than
  10 s).  Every datagram arrives before time passes.  `NeverForgotten` is the
  reason the intervals fit together: a full round of the ring with the others
  down is shorter than the timeout.  `FailsOver` under weak fairness of the two
  main loops, of time, and of reading what arrived.
  `MainKeptWhileAnswering` needs the timely delivery: an ADV that comes twice
  initialises the main supernode anew.
* `EdgeSuper_relay`: an edge that joins an existing community has no supernode to
  send frames to; see the findings.

### EdgeDiscovery

`RecvRsp`, `RecvAdv` and `Idle` are the edge's iterations, ending with
`supernodes_discovery`; `RecvReq` is what a supernode does with an edge's request.
The list is a sequence, because `Merge` and `Sort` (`sn_multiple.c`) are stable and
ties of ranks are common.  `IntMax` (`INT_MAX`) and `Epochs` scale down `int` and the time of
day together, so that ranks made from a time of day wrap, to either sign, and
differences of ranks may wrap too, as in the program.  A response that finds no
entry for its sender leads to the state `CRASHED`.  `edge_send_snm_req` sets bits
in flags that were never initialised, so that a request may carry others too,
any of them: a first request may already ask for an advertisement.  `timely`,
chosen at the start, says whether this behaviour's network loses, delays and
doubles datagrams.

* `EdgeDiscovery_find` (three supernodes, any of them down, two of them
  possibly coordinating the community, two of three to be kept, a ring of two):
  `RegistersWithCoordinators`, `TimelyNeverCrashes`, `BestAsked`, and
  `FindsWorking` under weak fairness of the main loops and of reading what
  arrived.  Its premise is tight: a supernode of the command line that is silent has
  rank 0, one only heard of has a time of day for its response time, and so has the
  one of the command line that answered: silent ones may rank better, depending on
  how their times are cut to an `int`, and `Keep` of them take all places.

### Keys

A key is its line in the file: number, transform, first and last second.  Each
edge has a table per transform (`priv->sa`), the position it encodes with
(`tx_sa`), and the transform in use.  `ChosenSa` is the first valid entry, or the
old one without any; `Schedule` is `edge_init_keyschedule` with
its two ways to fail, `LoopTick` the tick of `run_loop`, `FindSa` the search by
number when decoding.  Key files are assumed to give every key of a transform a
number of its own (`SaAssumption`).  Clocks differ by `Skew`.

* `Keys_roll`: two edges one second apart, keys of both transforms that overlap,
  a second version of the file that drops a key and ends with a line no transform
  takes, tables that a second reload fills.  `Decodable`, `TxKeyCurrent`,
  `KeepsLastKey`.
* `Keys_clear`: an edge with keys of the future only sends cleartext; see the
  findings.

### Snm

`Start`, `RecvReq`, `RecvRsp`, `RecvAdv`, `EdgeJoin` and `DiscoveryEnd` are the
handlers of `process_sn_msg` and the timer; `Crash` leaves only the two files.
Lists are sets, because an entry is in a list once and the order is not looked
at, except for which of several communities fill the last free places at the end
of discovery: `Volunteers` allows every choice.  A supernode has two addresses,
and discovery and advertisement keep different ones for the same community,
which the model keeps apart.  No community name is a prefix of another one
(`SnComms` has such names).

* `Snm_safety`: two supernodes, two communities, every limit at its smallest
  (one address per community, one community per supernode, two supernodes
  wanted), loss, duplication, one crash.  `SupersSaved`,
  `CounterpartAdvertised`, `BackupListFits`, `ReadyOnlyGrows`,
  `VolunteersWithinLimit`.
* `Snm_meet`: three supernodes of which two know only the first, the real limits,
  no loss: `OneSideKnows`.

### Overlay: the bytes

`Wire` gives every message a *layout*, the sequence of its fields, and derives
encoder and decoder from it the way the code writes them: fields in order,
integers in network byte order and cut to their width, optional sockets written
by their family and read by a flag, counts before what they count, nothing read
past the end.  `Received` is `recvfrom()`: a datagram longer than the buffer
(`PktBuf`, for `N2N_PKT_BUF_SIZE` and `N2N_SN_PKTBUF_SIZE`, both 2048) loses its
end.  `Datagrams` is a network of such bytes; each datagram carries, for
the properties only, what its sender meant (`meant`).  A datagram can be received
at any later time, any number of times or never.

`Twofish` is `twofish.c` without its key schedule: words modulo 2^32 as four
bytes, the rounds, CBC with ciphertext stealing as the code does it with a
context that outlives the call.  `Transforms` adds headers, nonces, padding, the
vector of AES, and what each transform asks of the room it is given (`Fits`):
`transop_encode_aes` asks before it pads, so that what it writes may be longer than
the room.  S-boxes, round keys and one block of AES
are constants: the properties hold of the structure, so any values do, and the
run takes arbitrary ones.  `Octets` has the XOR, by a table of half bytes made bit by bit.

`Frames` takes a frame through transform, header, the supernode's new header, and
back.  No buffer is assumed to be long enough.  The sender's encoder may write past
its buffer (the padding of AES), and so may the supernode, whose new header has 8
bytes of socket more and is followed by the payload unchecked; `Overruns` puts that
on record in `wild`, next to the entry before the table of transforms that a receiver
takes for an unknown number.  What such a write damages is not
modelled further: it goes unnoticed, or ends the process, and a process may take no
further step at any time; an edge that took an entry that is none takes none (`Runs`).
What was written is sent, and the receiver gets as much of it as its buffer holds.

`SnComms` is one supernode with its two lists as they are: in order, with
names one of which is a prefix of another, and with its two files as lines of
text.  `CrashSaving` ends the process while a file is being written; such a file
is then empty (a part of one, when the buffer was flushed in between, is not
modelled, nor is a crash while `load_snm_info` writes).  `Overlay` composes
the two on one network.  It does not decide again what other modules decide: which
way a frame takes (`EdgePeers`, `SnRelay`), which supernodes an edge asks
(`EdgeDiscovery`), which key is used (`Keys`).

* `Overlay_end` (two datagrams that answer nothing and everything they lead to,
  two rounds of Twofish, buffers of 95 bytes and frames at their end, below; one
  crash): with two originals a context has seen
  one packet before another, in either order or the same one twice; all message
  types, with and without sockets, lists of several lengths and empty ones, both kinds of
  discovery and the names `ab`, `abc` and `x` occur.
  `TypeOK` includes `Sayable`: fields fit their bytes, flags and counts agree with
  what follows, and no message but a PACKET is longer than a buffer.
  `Understood` (what is received whole is what was meant), `FramesIntact`,
  `OnlyOversizeBreaks`, `AnswerForCommunity`, `ReadsBack`.  Addresses are IPv4 and names shorter than 16 bytes.

  The frames have 20 bytes (a block and a half with the nonce: the one text whose
  first block is also the last but one, which ciphertext stealing chains to what is before it) and 43, 44
  (three blocks with the nonce), 52, 53 and 61, and
  one of 70 is a broadcast.  A header takes 34 bytes, 42 with the socket, so that
  a buffer of 95 bytes holds

  | | directly | over the supernode |
  |---|---|---|
  | no cipher | 61 | 53 |
  | Twofish (9 more) | 52 | 44 |
  | AES (5 more and whole blocks) | 43 | 43 |

  and every number is the length of a frame of the run, which for another cipher or
  the other way is too long: 44 and 52 pass the check of AES and their padding does not
  fit, 53 fails that check, 70 fits nowhere.  As with the 2048 bytes of the code, the
  longest datagram of AES that fits leaves room for
  the supernode's 8 bytes (here all of it, there one byte more).  `Needs` is the length a frame's datagram has on
  its way, directly or relayed, and `FramesIntact` and `OnlyOversizeBreaks` except
  exactly the frames for which it exceeds `PktBuf`.  For the buffers of the code that
  is frames of more than 2014 bytes without a cipher, 2005 with Twofish and 1995 with
  AES, or 2006, 1997 and 1995 where a supernode relays them.

### Stopping

`CHECK_DEADLOCK FALSE` is set where a run stops by its bounds: the clock of
`EdgePeers`, `SnRelay` and `Keys` ends at `MaxTime`, `Overlay` starts only
`MaxSends` exchanges, in `Snm` nothing is left to do once
all supernodes are up, all communities taken and all messages read, nor in
`EdgeDiscovery` when the edge is READY.  `EdgeSuper`
has no such bound and is checked for deadlock.

## 3. What is proved

### EdgePeers_proofs

For all sets of edges and sockets, all reachability
relations, all purge periods and timeouts, with or without loss; it assumes only
`TimesAssumption` and `AddressAssumption` of `EdgePeers`.

* `TypeCorrect`: `Spec => []TypeOK`, one step per action.  The interesting step
  is that a relayed frame, and only that, carries a socket field.
* `Invariance`: `Spec => []IInv`, with

      IInv == TypeOK /\ OneEntry /\ SentAcks /\ AckProvenance
              /\ \A e \in Edges : PurgeClock(e)

  `AckProvenance` alone is not inductive: a peer becomes known when an
  acknowledgement is *received*, so the history of acknowledgements has to be tied
  to those *in flight* (`SentAcks`).  `KnownFresh` is not inductive either: that
  an entry is recent depends on when the lists were purged last, which
  `PurgeClock` relates to the clock and to whether the loop went round in this
  time unit.
* `OneEntryPerMac`, `KnownPeersAnswered` and `SilentPeersExpire` follow.
* `KnownPeersStay` and `PeersAreKept` prove the two action properties.  They need one
  more invariant, `AnonymousRegisters`: the only REGISTER an edge ever sends
  names no destination, so the branch of `readFromIPSocket` that would
  register back, and could move a peer, is never taken.
* `PendingNeverPurged`: for all timeouts and
  all purge periods, an entry leaves `pending_peers` only with an acknowledgement
  of its peer or with the process.

The lemmas `EndLoopTables`, `CheckPeerTables`, `CheckPeerEntries`,
`RunLoopTables`, `CheckPeerKeeps`, `PurgeKeeps` and `RunLoopKeeps` state what the
operators do to the tables once, so that each step of a proof is short.

### SnRelay_proofs

For all edges, communities, sockets, timeouts and purge periods, from
`RelayAssumption`.

* `TypeCorrect`.
* `NeverReflected`: `Spec => []NotReflected`.  That nobody reads its own frame back
  follows from no single state of the table; `OwnersInv` carries what is known of
  sockets through the network: every entry, and every registration under way, has
  a socket its edge owned, and every datagram from the supernode is for a socket
  some *other* edge owned.  An edge that receives its own frame then holds a
  socket with two owners.
* `KeepsPromise`: `Spec => ImplementsRegistry`, the refinement.  It needs `RelayInv`:
  one entry per MAC (else `Place` is no function of the MAC), no entry older than
  the last purge allows and a purge clock that is read in every iteration (else
  `Registry`'s clock may not tick), and that only registrations are for the supernode
  itself.  `EndLoopCases` and `PurgeForgets` show a purge to be a `Forget` of exactly
  the silent edges, `RecipientsAre` the relay's targets to be `Recipients`,
  `UpdateIsRegister` the update of the table to be a registration, and `RelayStep`
  takes one action after the other to a step of `Registry` or to a stutter.

### Snm_proofs

For all supernodes, communities, command lines and limits, any number of crashes,
with or without loss, from `LimitsAssumption`.

* The invariant is

      IInv == TypeOK /\ ListsRight /\ NetHonest /\ SupersSaved

  `CounterpartAdvertised` alone is not inductive: an address comes out of an
  ADV, so messages in flight must be honest (`NetHonest`), and out of the stored
  list when a discovery ends or a supernode starts, so `persist` and the files
  must be right as well (`ListsRight`).  That advertise addresses are told from
  SNM addresses (`AddressesDiffer`) is what keeps the addresses that responses
  bring from counting as advertised ones.  `Right` also says that lists are finite,
  without which their cardinalities say nothing.
* `TypeCorrect`, `SupernodesSaved`, `AddressListsFit` and `CounterpartsAdvertised`
  follow; `ReadyKeeps` and `WithinLimit` prove the two action properties, the latter
  with `VolunteersFit`: stored and new communities are disjoint, so their numbers add.

* `CoordinatorsMeet` and `MetCoordinatorsListed` are about `OneSideKnows`.  Its invariant,
  `OneSideTold`, says of two coordinators that met that one of them has been `Told` of the other,
  has no place left for it, or has an ADV of it under way: whichever comes to coordinate the community
  last advertises it to all it knew, since no supernode ever forgets whom it knew when it took the
  community up (`KnewKept`, by `SupersSaved` even across a crash).  An ADV may reach its
  receiver in discovery, whose list is then replaced by the stored one; but then the receiver is
  the one that comes last.  `Lossy` must be false.  A full list is the one way out, for any number of supernodes;
  `MetCoordinatorsListed` excludes it by `FullHasAll` where there are no more addresses than
  places, two for each supernode if one may crash, because an ADV in discovery
  saves SNM addresses (section 4).

### Data_proofs: induction, lists, bytes

The induction theorems of the library take a predicate, an operator, as their
parameter, which the provers cannot instantiate.  A *set* can stand for the
predicate: `LeastNatural` is an instance of the well-foundedness of `<`,
`SetInduction` follows from it, and `T == {n \in Nat : ...}` with
`BY SetInduction` is then an induction step by step.  `RecursiveFunction` says that
a function is defined on a set if every value is determined by those of members of
smaller size (the partial functions that satisfy the equation agree and grow); it
is what gives `FoldLeft`, the merge and the merge sort their defining equations.
`Prefix`, `SelectSteps`, `SelectProperties` and `SelectInjective` are about lists.

The rest is about the data the formats and ciphers share: `FoldLeft` and `FlattenSeq` have no
defining equations in the library, and `FlattenSteps` turns the second into a sequence of values;
where a part of a sequence of bytes lies (`PartAt`, `CutAt`, `EndList`); half
bytes as the sum of their bits, and the XOR as the sum of those that differ (`NibbleXors`), from which
`XorBytes`, `XorSeqs` and `XorWords` follow; rotations that undo each other (`RotatedBack`) and
sums modulo 2^32 (`Sums`).

### EdgeSuper_proofs

For all supernodes, rings, files, lists of backups, numbers of attempts and
lifetimes, any number of crashes, returns and restarts, from
`RingAssumption`, `LifetimeAssumption`, `BoundsAssumption`, `NoSnAssumption`.

* The invariant is `TypeOK /\ EdgeInv`.  `EdgeInv` adds to `RingSaved` what the index
  and the registration say of each other (`Asked`: the supernode asked is the one at
  the index, in every iteration), that lifetimes are the configured ones
  and that the age stays below them (`AgeInv`), and that an edge before its
  first answer has an empty ring (`Undecided`).  `Handled` says of all handlers
  what the rest of the iteration needs, so that `EndLoop` is looked at once.
  `FoldSteps` turns `FoldLeft(AddSupernode, ...)` into a sequence of states, along
  which `AddSupernode` is followed by induction over the backups.
* `TypeCorrect` and `RingIsSaved` follow without further hypotheses.
* `AnswersAreCurrent`: `AnswerIsCurrent` needs to know that no supernode purges an
  entry while it counts, hence the hypothesis `EntriesOutlast`: the lifetimes in use do not exceed
  `REGISTRATION_TIMEOUT` (in `edge.c` at most 60 s at the start, 120 s granted by
  `reg_lifetime`; the timeout is 1200 s, in a DEBUG build 120 s).  The invariant
  `Current` ties the cookie of the last request to the requests and answers in flight.
* `SupernodesRemember` and `RememberWithoutRestart`: that no running supernode of the ring
  forgets the edge is a matter of arithmetic.  A place of the ring is left after at most
  `Visit`, its attempts and a lifetime; `Round` is a visit to every place.  `InTurn` says
  that how long a supernode has been silent, together with the visits between it and
  the place asked now (`Between`) and what is left of that one's (`Left`), make no more
  than `Limit(k)`, a round for each of the `k + 1` starts of the edge: a restart goes back to
  the first place, so that the others may have to wait once more.  Every step keeps that
  sum: time takes from one part what it adds to the other, a repeated request pays with an
  attempt, and who is left behind has just been heard.  `Paced` says that the loop repeats no request
  late, `OnlyRing` that only supernodes of the ring know the edge.  The hypothesis is that
  `REGISTRATION_TIMEOUT` is as long as the limit: with units of 10 s, the longest iteration, a
  visit is 18 (three attempts of 2, a lifetime of 12), and 1200 s are enough for six places.
  The run has exactly one round, and restarts too; it shows that its small ring gets by.
* `MainIsKept`: with `Timely`, the hypothesis of the run too.  `Counted` relates
  `missed` to the attempts left: an edge with no attempt and no answer has counted all
  its requests.  `AdvInv` excludes the ADV that comes twice.

### Keys_proofs

For all edges, skews, key files, table sizes and tick intervals, from
`KeysAssumption` and `SaAssumption`.

* `KeysInv` holds for each edge at its own clock (`Kept`): the tables have only keys of their
  transform (`Entries`), every unexpired key of a file read is still in its table
  (`HasRead`), and the key in use was valid at some second since the last tick,
  or the edge is starved (`Ticked`).  No property mentions that last second, and without
  it `TxKeyCurrent` cannot be carried from one tick to the next.
* `AllDecode` has the hypothesis `FilesFit`, that no file has more lines than
  `N2N_NUM_CIPHERSPECS`: `n2n_read_keyfile` reads no more than that.  That the *tables* have room is
  not assumed: a reload that fails half-way has added what fits and removed nothing unexpired.
* `KeyIsCurrent` and `LastKeyIsKept` are the two action properties; `TypeCorrect`
  includes that tables keep to their size.

### EdgeDiscovery_proofs

For every finite set of supernodes, all command lines, lists, loads and epochs, any width of
`int`, from `DiscoveryAssumption`.

* The merge sort is proved to sort: `MergeDefined` and `SortDefined` show that the
  recursive definitions have values (by `RecursiveFunction`, over the sum of the lengths and
  over the length), `MergeProperties` and `SortProperties` that they keep the members,
  the length and that nobody is listed twice, `MergeSorted` and `SortSorted` that the result is in order *if
  the differences of the ranks fit an `int`* (`Fit`), without which the comparison
  is no order.  The first three hold without: a wrapped difference may
  order wrongly, and never loses or doubles a supernode.
* `DiscoveryInv` adds to the properties what is known of responses in flight (`Sound`: a coordinator
  names coordinators and itself), and for timely behaviours when they come
  (`OnTime`, `InTime`): a response is for a supernode in the list as long as discovery lasts.
* `TypeCorrect`, `CoordinatorsOnly`, `NoCrashInTime` and `BestAreAsked` follow, the last one
  from `BestIsBest`: the first `Keep` of the sorted list are those fewer than `Keep` others are
  preferred to.

### Overlay_proofs

It has four parts; the second and the third use the ones before, the last uses the formats.

*The formats.*  For all messages, sockets of both families, lists of every length
and every payload, without an assumption.

* A layout is decoded field by field.  `At(b, i, x)` says that the bytes `x` are in `b`
  after the first `i`; each kind of field is read back from where it is and leaves
  the place of the next one (`NumAt`, `TakeAt`, `SockAt`, `NameAt`, `ManyAt`).
  `LayoutAt` is the induction over the fields: the
  lengths that later fields need are among those already read.  A layout is any one whose
  fields have different names and tell lengths before they are needed, so that a new
  message needs no new induction; `Carried` adds that what a layout leaves out
  is what `memset()` leaves there.
* `FoldIsSequence` turns the fold over the fields into a sequence of values, as `FlattenSteps` does with
  the concatenation.
* `N2NUnderstood` and `SnmUnderstood` follow, one lemma per message type, and
  `SayableUnderstood`: `Sayable => Understood`, each for what a buffer holds.  That `Sayable` holds is left to TLC (`Overlay_end`, in `TypeOK`): it is not an
  invariant without bounds, because numbers of requests and of list entries have 16 bits
  in a datagram and no limit in the lists, so that with enough entries a message
  would be longer than the buffer it is encoded in, which the code does not look at.

*The ciphers.*  For texts of every length, any number of rounds, any tables and round
keys of the right sizes (`TwofishAssumption`, `TransformsAssumption`).

* Rotations undo each other, additions are modulo 2^32 and the same on both sides, and a XOR done
  twice cancels (`Data_proofs`), so a round is undone by the round back (`RoundBack`), and
  `BlockBack` is the induction over the rounds, between the two whitenings.
* A text is `Laid` out in whole blocks and a rest.  The folds over it become sequences of
  contexts (`EncSteps`, `DecSteps`), and `Encryption` and `Decryption` are the inductions along
  them: what the output holds so far, and which blocks the context keeps for the next step.
  `Stealing` is the exchange of bytes between the last block and the one before.
  `CryptBack` says that a text longer than a block comes back, from any two contexts,
  since `ResetCBC` is enough to forget earlier packets.
* `TwofishThere` and `AesThere` are the transforms: header, nonce, padding, room in the buffers.
  Twofish writes no more than it asked the room for.  `AesThere` does not say that of AES: what it
  writes is `AesLen` bytes long, whatever the room, and comes back if a buffer holds it.
  AES itself, of OpenSSL, is external code: `AesInverts` (decryption undoes encryption, and
  encryption makes a block of a block) is a hypothesis of every theorem that needs it, not an
  assumption on the constant, which would have TLC look at 2^128 blocks; the run's AES meets it.
  That the vector is not cleared as a whole costs the first block (`SameTail`: all the others come
  back), of which four bytes are nonce and twelve the MACs.

*The frames.*  For any number of edges, all frames of at least a header, nonces and initial
vectors, over the whole of `Overlay`, from the assumptions of its modules (`PeerAssumption`: the
edge that registers has a socket of its own).

* The invariant is

      FramesInv == Ciphers /\ NetHonest /\ TapHonest /\ WildHonest

  `FramesIntact` speaks only of what was written to a TAP device.  What is
  written depends on a datagram, so `NetHonest` says of every one on its way to an edge or to the
  supernode what a receiver makes of its bytes, and of a PACKET that its payload, given to the
  transform *in any state a cipher can be in*, yields the frame, if the whole datagram fits a
  buffer (`Arrives`) - or that it lost the last byte of its
  header, from a frame the transform refused, and then has transform 0 and one byte of frame
  (`CutMade`).  The state cannot be a certain one, because packets overtake each other.  Of a datagram
  whose end recvfrom cut off, `Tells` keeps that its header is still understood and that what follows
  is no longer than what was sent.  `Ciphers` is what a cipher can be between two packets, those that were cut off
  among them (`RevKeeps`).  `TapHonest` and `WildHonest` are histories.
* How long a header is decides what fits: `HeaderLen` and `RelayedHeader` are the 34 and 42 bytes that `Needs`
  counts, from the layouts; `RegistrationLen` and `GreetingLen` show the other messages to fit every
  buffer that `WireAssumption` allows.
* `FramesStep` takes one action after the other; the supernode writes the header anew and copies the
  rest, past the end of its buffer if need be (`RelayHonest`), handshakes, registrations and the messages of supernodes are no PACKETs
  (`GreetHonest`, `SnmHonest`).
* `FramesHonest` is `Spec => []FramesInv`; `FramesIntactAlways`, `OnlyOversizeBreaksAlways` and `FramesTypes` follow,
  for buffers of every size and frames of every length up to the last one that fits, and not beyond.

*The lists of a supernode.*  For lists of any length and names of any kind, whatever the network
does and wherever the process dies, as long as everything sent fits its fields (`[]Sayable`), from
`CommsAssumption`: the other supernodes have sockets of their own, and the file before the first start
is one that this program has written - each name once, no community with more than `MaxSn`
counterparts.

* The invariant is

      CommsInv == InRange /\ KeptLists /\ SavedLists

  with `SnmNet`, that nobody but an edge sends what is taken for the request of an edge, and an edge
  names a community in it: the handlers read `comm_ptr[1]` without looking.  `KeptLists` says that the
  three lists have every supernode and every community once and no more counterparts than there may be;
  `SavedLists` that each file is the text of what was last saved.  Neither is inductive alone: the lists of
  a start are those of the files, and a file is written from the lists.
* Each of the six folds of `sn_multiple.c` becomes a sequence of lists (as the folds of the ciphers do),
  and an induction along it shows that entries stay different and that the result still ends with the list
  it began with (`AddSnsKeeps`, `LearnedKeeps`, `ToldKeeps`, `FoundKeeps`).
* `SnsBack` and `CommsBack`: what is written is read back, in order, over the two reversals (insertion at
  the head, and the one after the file was read).  The text of an IPv6 socket has no address, so that
  they, and `ReadsBackAlways`, ask for IPv4 sockets in what was saved (`SavedIPv4`).
* `StepFit` looks at everything a step of the overlay sends: an answer to an edge is about the community
  asked for, as far as `comm_find` goes.
* `ListsKept` is `Spec /\ []Sayable => [](SnmNet /\ CommsInv)`; `CommsTypes`, `AnswersForCommunity` and
  `ReadsBackAlways` follow.

### Only model-checked

* Liveness (`HandshakeCompletes`, `Delivered`, `FailsOver`, `FindsWorking`): TLAPS
  does not reason about `ENABLED`.
* `TypeOK` of `Overlay`, in which `Sayable` needs the limits that its lists do not have: on numbers,
  and on what a buffer holds (its parts about the ciphers and the lists are `FramesTypes` and `CommsTypes`).  The theorems about
  the lists of a supernode have it as their hypothesis.

## 4. Findings

Shown by a run that TLC must find violated:

* **Cleartext with a key file** (`Keys_clear`).  Keys that are not valid yet are
  loaded, none is chosen, and the NULL transform set at start-up stays.
* **No relay after joining an existing community** (`EdgeSuper_relay`).  The RSP
  of a coordinator fills the ring and makes the edge READY, but leaves the main
  supernode unset; registration works, frames for peers not known go to the
  zero address.  A restart heals it, because the file is there then.

Other differences between text and code, met while modelling.  The models do what
the code does; no run is made for these:

* `HACKING:105` and `:122-124` have `pending_peers` purged and REGISTER repeated.  One
  static `last_purge` serves both lists, so the second call of an iteration always
  returns early: `PendingNeverPurged` proves that no entry is ever purged, and a
  REGISTER that is lost is never repeated.
* `supernodes-communication.tex:4` has a supernode load its communities from their
  file at startup.  Without another supernode it is READY at once (`sn.c:448`), and the stored
  communities are taken over only when a discovery ends; its next save overwrites them.
* `HACKING:101-102` wants REGISTER sent only for frames addressed to the edge;
  `handle_PACKET` calls `check_peer` for broadcasts too.
* `HACKING:71-72` has the receiver of a REGISTER send one back; `send_register`
  leaves `dstMac` zero and sends directly, so it only acknowledges.
* `HACKING:92` says that a supernode never forwards REGISTER; `process_udp` has
  code that does, but no edge sends one to a supernode.  That code adds the
  sender's socket to datagrams from supernodes and not to those from edges
  (`sn.c:890`), the reverse of what it does for PACKETs.
* `sn.c:778-781` says that a PACKET with an unknown destination is broadcast;
  `try_forward` drops it.
* `n2n_wire.h:27` and `sn.c:800` count the TTL down for what is forwarded; a PACKET
  that already came from a supernode is passed on with the TTL it had.
* `supernode.1:15-16` says that traffic does not cross communities; `try_forward`
  looks a MAC up in the table of all communities, and it is the receiving edge that
  drops the frame.
* `comm_find` compares as many bytes as the name asked for has: a new community whose
  name is the beginning of a listed one's is taken for that one, and never taken up
  (`AnswerForCommunity` allows for it).
* `transform_aes.c:380` and the names around it suggest vectors of zeroes;
  `sizeof(N2N_AES_IVEC_SIZE)` is the size of an `int`, so that a lost or
  overtaken packet garbles 12 bytes of the next frame: its two MACs (`FramesIntact`
  allows for it).
* The transforms ask whether nonce and frame fit (`transform_tf.c:104`, `transform_aes.c:137`); with AES up to 16 bytes of padding follow, up to 7 of them past the end
  of `pktbuf` (frames of 1996 to 2005 bytes; from 2006 on the check fails).  The supernode's `encbuf` is not checked at all
  (`sn.c:844`): a PACKET of more than 2040 bytes, to or from an edge of any cipher, runs over it by up to
  8, even if nobody is to receive it.  The
  -1 of a transform that fails is added to the length of the packet, and an
  unknown transform number passes for an index.  And what is longer than 2048 bytes loses its
  end in `recvfrom()`, unnoticed but with AES, which makes an empty frame of it.  All of it
  takes frames longer than the default MTU; `OnlyOversizeBreaks` and `FramesIntact` say from which
  length on.
* A datagram without data on the supernode's SNM or management socket ends its
  `run_loop`; on the main socket it is ignored, as the comment there asks for.
* `n2n_v2.7:83-85` lets an edge leave its supernode after three missed responses; a
  repeated ADV of the only supernode re-initialises its registration, and
  once the ring grew the edge leaves a supernode that answered.
* `n2n_v2.7:85-86` has the edge cycle through the supernodes until it finds one
  that works, and `edge-supernode-communication.tex` ranks by response time;
  `sn_rank` takes a silent supernode of the command line for the fastest.
* `supernodes-communication.tex:18` has advertisements answered; an ADV for a
  community an edge brought carries no request for an answer, so that only
  one side may learn of the other (hence `OneSideKnows`).
* An ADV that arrives during discovery saves the *queried* list, with SNM
  addresses in it, over the file of communities.
* `edge.c:1550` speaks of the newest valid key; the first in the table is taken,
  and Twofish before AES.

## 5. Plan, and what is not modelled

Done: the state machines in the order of their weight for the system, then the
relay against an abstract registry, then the bytes below them; the safety proofs of
all state machines above the bytes, of the formats, the ciphers, the frames and the
lists and files of one supernode.

Left, in this order:

1. An abstract specification of a peer's life as one edge sees it (unknown,
   pending, known), implemented by `EdgePeers`.
2. `Snm`'s federation with more than one crash and three supernodes at the real
   limits in one run, which takes a reduction beyond symmetry.
3. `Sayable` as a theorem, for which the lists of `SnComms` need limits the code does not have.

Not modelled:

* the key schedule of Twofish, AES and the CBC of OpenSSL, LZO: library code without
  state of n2n; LZO is linked but called for no packet;
* reading and writing TAP devices, sockets, the console's output: I/O; what the
  models need of it are the frames, datagrams and commands that come in;
* options, start-up, logging, daemonising, the Windows port: no interleavings of
  their own; tests and tools;
* DEREGISTER and FEDERATION messages, which have numbers but no code;
* what a write past the end of a buffer, or an entry before a table, does to the process beyond
  going unnoticed or ending it; and lists of supernodes or communities so long that a message does not fit
  the buffer it is encoded in, which `Sayable` excludes;
* the build without `N2N_MULTIPLE_SUPERNODES` where it differs in `EdgeSuper` and `Snm`.

## 6. Running

    tlc -config SnRelay_frames.cfg MCSnRelay
    tlapm SnRelay_proofs.tla

The name of a run is that of its configuration, up to the underscore that of the
module behind `MC`.  Each run ends in less than three minutes with two workers; the
proofs of a module take a few.
