------------------------------ MODULE MCFiles ------------------------------
(***************************************************************************)
(* A line feed is 10, a carriage return 13.                                *)
(***************************************************************************)
EXTENDS Files, TLC

CONSTANT EndsInCR \* does a program write texts that end in a carriage return?

MCTexts == {<<10>>, <<65, 13, 10>>} \cup (IF EndsInCR THEN {<<65, 10, 13>>} ELSE {})
MCOffsets == {-1, 0}
Symmetry == Permutations(Paths) \cup Permutations(Handles)
=============================================================================
