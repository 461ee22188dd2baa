\* Polls, nested polls and the wait for idle, with the object records.
SPECIFICATION PollSpec
CONSTANTS
  ObjectId = {o1}
  NULL_ObjectId = NULL_ObjectId
  Template = {t1}
  NoError = NoError
  SimulatedError = SimulatedError
  ToolboxError = ToolboxError
  MaxEvents = 1
  MaxSent = 0
  MaxLoad = 2
  MaxData = 0
  BufferSize = 0
  NameSize = 0
  Asserts = TRUE
  MaxRecords = 2
  Masks = {{}, {"null"}, {"message"}, {"null", "message"}}
  Autos = {o1}
  Owned = {o1}
  MaxNest = 2
  MaxMessages = 1
  IdleCount = 1
\* The program may end, and a poll may wait for ever.
CHECK_DEADLOCK FALSE

PROPERTY IdleMeansDelivered
