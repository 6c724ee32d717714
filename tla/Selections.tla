------------------------------ MODULE Selections ------------------------------
(***************************************************************************)
(* The members of a sequence at some of its indices, in their order: what  *)
(* a filter keeps, a query finds or an eviction leaves of a table.  A      *)
(* recursive function, so that proofs can use its definition.              *)
(***************************************************************************)
EXTENDS Naturals, Sequences

Picked(s, indices) ==
    LET prefix[n \in 0..Len(s)] ==
          IF n = 0 THEN << >>
          ELSE IF n \in indices THEN Append(prefix[n - 1], s[n]) ELSE prefix[n - 1]
    IN prefix[Len(s)]
=============================================================================
