-------------------------- MODULE MCEdgeDiscovery ---------------------------
(* A small instance of EdgeDiscovery for TLC. *)
EXTENDS EdgeDiscovery

CONSTANTS A, B, C

Lines == {<<A>>, <<B, A>>}
Neighbours == [s \in Sns |-> IF s = A THEN <<B, C>> ELSE IF s = B THEN <<A>> ELSE <<>>]
Loads == [s \in Sns |-> IF s = B THEN 2 ELSE 0]
Coordinators == {{}, {B}, {B, C}}

=============================================================================
