-------------------------------- MODULE Lists --------------------------------
(***************************************************************************)
(* Array.prototype.filter: what is left of a list.                         *)
(***************************************************************************)
EXTENDS Naturals, Sequences

\* The elements at the places P, in their order.
Keep(s, P) ==
  LET Kept[n \in 0..Len(s)] ==
        IF n = 0 THEN << >> ELSE IF n \in P THEN Append(Kept[n - 1], s[n]) ELSE Kept[n - 1]
  IN  Kept[Len(s)]
=============================================================================
