------------------------------- MODULE Totals -------------------------------
(***************************************************************************)
(* The sum of a sequence of numbers, as a recursive function: a proof can  *)
(* go through it from the front, which the folds over sets leave open.     *)
(***************************************************************************)
EXTENDS Integers, Sequences

Total(s) ==
    LET upTo[i \in 0 .. Len(s)] == IF i = 0 THEN 0 ELSE upTo[i - 1] + s[i]
    IN upTo[Len(s)]
=============================================================================
