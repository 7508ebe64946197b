----------------------------- MODULE MCUpvalues -----------------------------
(***************************************************************************)
(* Two closures of up to two upvalues each, three variables, two frames.   *)
(* Closures, upvalues and variables are interchangeable names.             *)
(***************************************************************************)
EXTENDS Upvalues, TLC

Symmetry == Permutations(Closure) \cup Permutations(Upvalue)
            \cup Permutations(Variable)
=============================================================================
