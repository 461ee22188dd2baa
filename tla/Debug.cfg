\* Changes of output mode and line assembly.
SPECIFICATION Spec
CONSTANTS
  Char <- MCChar
  Name = {n1}
  FILE = {f1, f2}
  Handle = {h1, h2}
  NULL = NULL
  LineSize = 4
  FormatSize = 5
  MaxFed = 8
  Text <- MCText
\* The program may exit.
CHECK_DEADLOCK FALSE
INVARIANTS LinesFaithful NothingLeftOpen NoStaleSession ReasonOut
PROPERTY OutputReturns
