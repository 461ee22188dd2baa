---------------------------- MODULE MCPseudoEvnt ----------------------------
(* Instance of PseudoEvnt for TLC. *)
EXTENDS PseudoEvnt

Symmetry == Permutations(Object) \cup Permutations(Code)
=============================================================================
