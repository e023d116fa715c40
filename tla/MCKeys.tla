------------------------------- MODULE MCKeys -------------------------------
(* Small instances of Keys for TLC. *)
EXTENDS Keys, TLC

CONSTANTS Edge1, Edge2

Key(sa, t, from, until) == [sa |-> sa, t |-> t, from |-> from, until |-> until]

\* Overlapping keys of both transforms; the second version of the file drops
\* the first key and ends with a line no table exists for.
Versions ==
    << <<Key(1, "TF", 2, 3), Key(1, "AES", 2, 4), Key(2, "TF", 4, 5)>>,
       <<Key(2, "TF", 4, 5), Key(3, "TF", 5, 6), Key(4, "other", 5, 6)>> >>

\* A schedule whose only key is not valid yet.
NextWeek == << <<Key(1, "TF", 6, 8)>> >>

\* The second edge is one second ahead.
OneAhead == [e \in Edges |-> IF e = Edge2 THEN 1 ELSE 0]

=============================================================================
