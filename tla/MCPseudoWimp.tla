--------------------------- MODULE MCPseudoWimp ---------------------------
(* Instances of PseudoWimp for TLC. *)
EXTENDS PseudoWimp

\* One event of each kind, with data where a message has its header words.
MCEvent(code, handle) ==
  [code |-> code, block |-> [sender |-> 1, ref |-> 0, data |-> 1], handle |-> handle]
MCSends == {MCEvent("user", 1), MCEvent("user_recorded", 0),
            MCEvent("user_acknowledge", 1), MCEvent("null", 0), MCEvent("other", 1)}
=============================================================================
