------------------------------ MODULE Filters ------------------------------
(* Taking the elements of a set out of a sequence. *)
EXTENDS Integers, Sequences

\* The elements of s that are in S, in their order: SelectSeq for a set, as a
\* function that proofs can expand.
Keep(s, S) ==
  LET kept[n \in 0 .. Len(s)] ==
        IF n = 0 THEN <<>>
        ELSE IF s[n] \in S THEN Append(kept[n - 1], s[n])
        ELSE kept[n - 1]
  IN  kept[Len(s)]
=============================================================================
