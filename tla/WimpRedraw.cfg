\* A redraw without a 'more' flag.
SPECIFICATION Spec
CONSTANTS
  NoError = NoError
  SimulatedError = SimulatedError
  WimpError = WimpError
  MaxMsgs = 2
  MaxRef = 3
  MaxHistory = 3
  MaxRects = 2
  Words = {0, 1}
  Task = 7
  Sends <- MCSends
  Asserts = TRUE
\* A failed assertion ends the program.
CHECK_DEADLOCK FALSE
INVARIANT RedrawCompleted
