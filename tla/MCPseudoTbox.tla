---------------------------- MODULE MCPseudoTbox ----------------------------
(* Instances of PseudoTbox for TLC. *)
EXTENDS PseudoTbox

Symmetry == Permutations(ObjectId) \cup Permutations(Template)
=============================================================================
