------------------------------- MODULE Sublist -------------------------------
(***************************************************************************)
(* What is left of a sequence.                                             *)
(***************************************************************************)
EXTENDS Integers, Sequences

\* The elements that are not in a set, in their order
Without(seq, set) ==
    LET kept[i \in 0 .. Len(seq)] ==
            IF i = 0 THEN <<>>
            ELSE IF seq[i] \in set THEN kept[i - 1] ELSE Append(kept[i - 1], seq[i])
    IN  kept[Len(seq)]
=============================================================================
