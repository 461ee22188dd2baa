---------------------------- MODULE MCPseudoPoll ----------------------------
(* Instance of PseudoPoll for TLC. *)
EXTENDS PseudoPoll
=============================================================================
