\* Two objects, two codes: equal handlers, groups of handlers and both.
\* The program stops where the assertion that a record is found fails.
SPECIFICATION Spec
CONSTANTS
  NoError = NoError
  SimulatedError = SimulatedError
  EventError = EventError
  Object = {o1, o2}
  Code = {c1, c2}
  NoObject = NoObject
  MaxHandlers = 3
SYMMETRY Symmetry
INVARIANTS ListsAreOwed BlocksAreOwed LibraryAgrees AlwaysFound
CHECK_DEADLOCK FALSE
