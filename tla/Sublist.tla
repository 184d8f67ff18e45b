------------------------------- MODULE Sublist -------------------------------
(***************************************************************************)
(* The elements of a sequence that a loop or a comprehension of the code   *)
(* keeps, in their order.                                                  *)
(***************************************************************************)
EXTENDS Integers, SequencesExt

\* The elements of s at the places in kept.
Only(s, kept) == FlattenSeq([i \in 1..Len(s) |-> IF i \in kept THEN <<s[i]>> ELSE <<>>])
=============================================================================
