----------------------------- MODULE MCSnRelay -----------------------------
(* Small instances of SnRelay for TLC. *)
EXTENDS SnRelay

CONSTANTS m1, m2, m3, c1, c2, s1, s2, s3

\* Two edges of one community and a third one of another.
TwoCommunities ==
    [m \in Macs |-> IF m = m1 THEN [comm |-> c1, sock |-> s1]
                    ELSE IF m = m2 THEN [comm |-> c1, sock |-> s2]
                    ELSE [comm |-> c2, sock |-> s3]]

=============================================================================
