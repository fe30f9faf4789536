------------------------------ MODULE Filters -------------------------------
(* filter() of an array by membership in a set, as a recursive function:   *)
(* what it returns can then be proved (SequenceLemmas), which the prover   *)
(* does not allow for SelectSeq, whose definition it does not expand.      *)
EXTENDS Naturals, Sequences

(* The entries of q that are in S, in their order.                         *)
Kept(q, S) ==
    LET kept[n \in 0..Len(q)] ==
            IF n = 0 THEN <<>>
            ELSE IF q[n] \in S THEN Append(kept[n - 1], q[n])
            ELSE kept[n - 1]
    IN  kept[Len(q)]
=============================================================================
