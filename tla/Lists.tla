------------------------------- MODULE Lists -------------------------------
(* What of a list is kept, as a first-order definition for the proofs.     *)
EXTENDS Integers, Sequences

\* The members of a list that are in T, in their order: SelectSeq, whose test
\* is an operator, is not expanded by the provers.
Select(s, T) ==
    LET kept[i \in 0..Len(s)] ==
            IF i = 0 THEN <<>>
            ELSE IF s[i] \in T THEN Append(kept[i - 1], s[i]) ELSE kept[i - 1]
    IN  kept[Len(s)]

=============================================================================
