---------------------------- MODULE MCEdgeSuper ----------------------------
(* Small instances of EdgeSuper for TLC. *)
EXTENDS EdgeSuper

CONSTANTS Sn1, Sn2, Sn3

\* A community coordinated by Sn1 and Sn2, later also by Sn3.
Counterparts == [s \in Sns |-> IF s = Sn1 THEN <<Sn2>> ELSE IF s = Sn2 THEN <<Sn1, Sn3>> ELSE <<Sn1>>]

\* Sn1 does not know its counterparts yet, as in a new community.
NewCommunity == [s \in Sns |-> IF s = Sn1 THEN <<>> ELSE IF s = Sn2 THEN <<Sn1, Sn3>> ELSE <<Sn1>>]

OneFile == {<<Sn2, Sn1>>}
FullFile == {<<Sn3, Sn2, Sn1>>}

=============================================================================
