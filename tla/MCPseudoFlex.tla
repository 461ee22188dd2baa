--------------------------- MODULE MCPseudoFlex ---------------------------
(* Instances of PseudoFlex for TLC. *)
EXTENDS PseudoFlex, TLC

CONSTANTS a1, a2, p1, p2, p3, x, junk

MCAnchor == {a1, a2}
MCAddr == {p1, p2, p3}
MCByte == {x, junk}
MCJunk == junk
MCRates == {0, 50}
\* Enough where contents do not matter.
MCOneByte == {junk}
\* The heap runs out all the same.
MCNoRates == {}

\* Anchors are interchangeable, and so are addresses.
Symmetry == Permutations(Anchor) \cup Permutations(Addr)
=============================================================================
