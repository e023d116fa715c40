---------------------------- MODULE MCEdgePeers ----------------------------
(* Small instances of EdgePeers for TLC. *)
EXTENDS EdgePeers, TLC

CONSTANTS Edge1, Edge2, Sock1, Sock2, Sock3

AllPairs == Socks \X Socks

\* Everybody reaches everybody, but no datagram of Sock3 gets to Sock2.
OneBlocked == AllPairs \ {<<Sock3, Sock2>>}

Symmetry == Permutations(Edges)

=============================================================================
