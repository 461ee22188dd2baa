\* Any client at all, with assertions compiled out (NDEBUG).
SPECIFICATION Spec
CONSTANTS
  a1 = a1  a2 = a2
  p1 = p1  p2 = p2  p3 = p3
  x = x  junk = junk
  Anchor <- MCAnchor
  Addr <- MCAddr
  Byte <- MCOneByte
  Junk <- MCJunk
  Rates <- MCNoRates
  NULL = NULL
  NoBlock = NoBlock
  MaxSize = 1
  OddStates = {2}
  Asserts = FALSE
  Disciplined = FALSE
SYMMETRY Symmetry
\* A copy that leaves its block is undefined behaviour: the model stops there.
CHECK_DEADLOCK FALSE
INVARIANTS AnchorsSound
