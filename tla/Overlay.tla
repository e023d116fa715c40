------------------------------ MODULE Overlay ------------------------------
(***************************************************************************)
(* Everything edges and a supernode tell each other, on one network: the   *)
(* frames and handshakes of Frames, the registrations, discoveries and the *)
(* exchange with other supernodes of SnComms.                              *)
(***************************************************************************)
EXTENDS Frames, SnComms

\* The edge that registers with the supernode is none of those with the frames.
ASSUME PeerAssumption == Peer.sock \notin {SnSock} \cup {Sock[e] : e \in Edges}

vars == <<net, sends, framesVars, commsVars>>

Init ==
    /\ net = {} /\ sends = 0
    /\ FramesInit
    /\ CommsInit

Next ==
    \/ FramesNext /\ UNCHANGED commsVars
    \/ CommsNext /\ UNCHANGED framesVars

Spec == Init /\ [][Next]_vars

TypeOK == DatagramsTypeOK /\ FramesTypeOK /\ CommsTypeOK

=============================================================================
