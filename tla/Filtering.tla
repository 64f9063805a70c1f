------------------------------- MODULE Filtering -------------------------------
(***************************************************************************)
(* The elements of a sequence that belong to a set, in their order.  This  *)
(* is SelectSeq with a set for its test, defined as a recursive function   *)
(* over the positions: a proof can expand it, and cannot expand SelectSeq. *)
(***************************************************************************)
EXTENDS Integers, Sequences

Filtered(s, S) ==
  LET taken[i \in 0 .. Len(s)] ==
        IF i = 0 THEN <<>>
        ELSE IF s[i] \in S THEN Append(taken[i - 1], s[i]) ELSE taken[i - 1]
  IN taken[Len(s)]
================================================================================
