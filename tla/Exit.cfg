\* A test that stays in the frame it armed; ints of 3 bits.
SPECIFICATION Spec
CONSTANTS
  MaxDepth = 4
  INT_MAX = 3
  Disciplined = TRUE
\* exit ends the program.
CHECK_DEADLOCK FALSE
INVARIANTS NoStaleJump StatusRecovered
PROPERTIES ExitLeaves
