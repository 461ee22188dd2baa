\* A client that keeps to the rules of flex, with assertions compiled in;
\* PseudoFlex implements FlexStore for it.
SPECIFICATION Spec
CONSTANTS
  a1 = a1  a2 = a2
  p1 = p1  p2 = p2  p3 = p3
  x = x  junk = junk
  Anchor <- MCAnchor
  Addr <- MCAddr
  Byte <- MCByte
  Junk <- MCJunk
  Rates <- MCRates
  NULL = NULL
  NoBlock = NoBlock
  MaxSize = 3
  OddStates = {}
  Asserts = TRUE
  Disciplined = TRUE
SYMMETRY Symmetry
INVARIANTS TypeOK NoLeak BooksAgree NoFault
PROPERTY StoreSpec
