------------------------------ MODULE Selection ------------------------------
(***************************************************************************)
(* Lists filtered by a condition, which several components do.  The        *)
(* condition is given as the set of positions that fulfil it, and the      *)
(* recursion is that of a function: both for the sake of the proofs, which *)
(* cannot look into SelectSeq.                                             *)
(***************************************************************************)
EXTENDS Integers, Sequences

(* The elements of s at the positions in I, in their order.                *)
At(s, I) ==
  LET upTo[i \in 0 .. Len(s)] ==
        IF i = 0 THEN <<>>
        ELSE IF i \in I THEN Append(upTo[i - 1], s[i]) ELSE upTo[i - 1]
  IN  upTo[Len(s)]
==============================================================================
