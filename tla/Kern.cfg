SPECIFICATION KernSpec
CONSTANTS
  NoError = NoError
  SimulatedError = SimulatedError
  OSError = OSError
  MaxCalls = 6
\* The bound on the calls, and SIGOSERROR, end a behaviour.
CHECK_DEADLOCK FALSE
INVARIANTS RefusedOrPerformed ErrorExplained
