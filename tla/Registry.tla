------------------------------ MODULE Registry ------------------------------
(***************************************************************************)
(* What a supernode promises its edges, without lists, purges or packets:  *)
(* each edge has one place, the community and socket of its last           *)
(* registration, wherever that was; frames go to the places as they are at *)
(* that moment; a place is kept while its edge is not silent for longer    *)
(* than Timeout, and is gone before the silence exceeds MaxSilence.        *)
(***************************************************************************)
EXTENDS Integers

CONSTANTS
    Macs,        \* edges, by MAC
    Comms,       \* communities
    Socks,       \* sockets of edges
    Timeout,     \* silence an edge may keep
    MaxSilence   \* and the one after which it is forgotten for sure

VARIABLES
    place,   \* place[m]: where m registered last, or Nowhere
    silent,  \* silent[m]: time since then
    handled  \* what was done last: frames sent, with the sockets they went to, or
             \* a registration, with the socket it came from

vars == <<place, silent, handled>>

Places == [comm: Comms, sock: Socks]
Nowhere == [comm |-> "none", sock |-> "none"]

Registered(m) == place[m] # Nowhere

\* A frame for one edge goes to its place, any other one to the rest of the
\* community it was sent in.
Recipients(f) ==
    IF f.dst \in Macs
    THEN {place[m].sock : m \in {k \in Macs : k = f.dst /\ Registered(k)}}
    ELSE {place[m].sock : m \in {k \in Macs \ {f.src} : place[k].comm = f.comm}}

\* Edges that were silent too long may be forgotten at the end of any step,
\* given the places and silences it led to.
Forget(pl, si) ==
    \E gone \in SUBSET {m \in Macs : pl[m] # Nowhere /\ si[m] > Timeout} :
        /\ place' = [m \in Macs |-> IF m \in gone THEN Nowhere ELSE pl[m]]
        /\ silent' = [m \in Macs |-> IF m \in gone THEN 0 ELSE si[m]]

Register(m, p) ==
    /\ handled' = {<<[comm |-> p.comm, src |-> m, dst |-> "supernode"], p.sock>>}
    /\ Forget([place EXCEPT ![m] = p], [silent EXCEPT ![m] = 0])

Route(f) ==
    /\ handled' = {<<f, s>> : s \in Recipients(f)}
    /\ Forget(place, silent)

Idle == handled' = {} /\ Forget(place, silent)

Restart ==
    /\ place' = [m \in Macs |-> Nowhere]
    /\ silent' = [m \in Macs |-> 0]
    /\ handled' = {}

Tick ==
    /\ \A m \in Macs : Registered(m) => silent[m] < MaxSilence
    /\ silent' = [m \in Macs |-> IF Registered(m) THEN silent[m] + 1 ELSE 0]
    /\ handled' = {}
    /\ UNCHANGED place

Init ==
    /\ place = [m \in Macs |-> Nowhere]
    /\ silent = [m \in Macs |-> 0]
    /\ handled = {}

\* Frames as the supernode sees them: community, sender and destination.
Next ==
    \/ Idle
    \/ \E m \in Macs, p \in Places : Register(m, p)
    \/ \E c \in Comms, m \in Macs, d \in Macs \cup {"broadcast", "multicast"} :
          Route([comm |-> c, src |-> m, dst |-> d])
    \/ Restart
    \/ Tick

Spec == Init /\ [][Next]_vars

=============================================================================
