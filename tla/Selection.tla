------------------------------ MODULE Selection ------------------------------
(***************************************************************************)
(* The elements of a sequence that are in a set, in their order: what the  *)
(* iterators of the source keep with `filter`.  It stands for SelectSeq,   *)
(* which the provers have no definition of.                                *)
(***************************************************************************)
EXTENDS Integers, Sequences

\* What is kept of the first n elements of s.
Kept(s, S) ==
  LET kept[n \in 0 .. Len(s)] ==
        IF n = 0 THEN <<>>
        ELSE IF s[n] \in S THEN Append(kept[n - 1], s[n]) ELSE kept[n - 1]
  IN  kept

Filter(s, S) == Kept(s, S)[Len(s)]

\* The elements of a sequence.
Elements(s) == {s[x] : x \in DOMAIN s}
=============================================================================
