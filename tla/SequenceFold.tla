---------------------------- MODULE SequenceFold ----------------------------
(***************************************************************************)
(* Going through a sequence from its first element to its last.            *)
(*                                                                         *)
(* The turn is a function of what has been made so far, whose value is a   *)
(* function of the next element: a value, where the community module's     *)
(* FoldLeft takes an operator.  The provers reason about values.           *)
(***************************************************************************)
EXTENDS Naturals, Sequences

\* What the turns make of first and the elements of seq.
Fold(turn, first, seq) ==
  LET upTo[n \in 0..Len(seq)] == IF n = 0 THEN first ELSE turn[upTo[n - 1]][seq[n]]
  IN  upTo[Len(seq)]
=============================================================================
