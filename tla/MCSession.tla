----------------------------- MODULE MCSession -----------------------------
(***************************************************************************)
(* Two files that may import each other, two names, and the script.        *)
(***************************************************************************)
EXTENDS Session, TLC

Symmetry == Permutations(File) \cup Permutations(Name)
=============================================================================
