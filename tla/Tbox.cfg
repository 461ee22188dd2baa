\* Objects with their events and records, and the SaveAs calls.
SPECIFICATION Spec
CONSTANTS
  NoError = NoError
  SimulatedError = SimulatedError
  ToolboxError = ToolboxError
  NULL_ObjectId = NULL_ObjectId
  ObjectId = {o1, o2}
  Template = {t1, t2}
  MaxEvents = 3
  MaxSent = 2
  MaxLoad = 3
  MaxData = 2
  BufferSize = 1
  NameSize = 1
  Asserts = TRUE
\* A failed assertion ends the program.
CHECK_DEADLOCK FALSE
SYMMETRY Symmetry
INVARIANTS TypeOK RecordsFollowObjects FindSound ShowingSound SavesAccounted
