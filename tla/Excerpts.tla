------------------------------ MODULE Excerpts ------------------------------
(***************************************************************************)
(* What the code selects from a list by a condition on its elements.       *)
(***************************************************************************)
EXTENDS Naturals, Sequences

\* The elements of s at the positions in K, in order.
Kept(s, K) ==
  LET kept[n \in 0 .. Len(s)] ==
        IF n = 0 THEN <<>> ELSE kept[n - 1] \o (IF n \in K THEN <<s[n]>> ELSE <<>>)
  IN kept[Len(s)]
=============================================================================
