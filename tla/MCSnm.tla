------------------------------- MODULE MCSnm -------------------------------
(* Small instances of Snm for TLC. *)
EXTENDS Snm, TLC

CONSTANTS Sn1, Sn2, Sn3

\* Sn1 is the first supernode; the others are started with its address.
AskFirst == [s \in SNs |-> IF s = Sn1 THEN {} ELSE {Sn1}]

\* Every supernode is started with the addresses of all others.
AskAll == [s \in SNs |-> SNs \ {s}]

CommSymmetry == Permutations(Comms)

=============================================================================
