------------------------------ MODULE MCDebug ------------------------------
(* Instance of Debug for TLC. *)
EXTENDS Debug

\* The letters of "BAD" and the dots of a string cut to size.
MCChar == {"B", "A", "D", "."}

\* Strings that fit, that just fit and that do not, with line feeds anywhere.
MCText == BoundedSeq({"A", LF}, FormatSize)
=============================================================================
