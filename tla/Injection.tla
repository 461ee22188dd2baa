----------------------------- MODULE Injection -----------------------------
(***************************************************************************)
(* The gate every veneer of the library passes through first.  Fortify may *)
(* refuse the allocation it is asked about at any call - the test program  *)
(* can change the failure rate between any two calls - so the gate is a    *)
(* free choice between letting the call through and a simulated error.     *)
(***************************************************************************)

CONSTANTS NoError,         \* the null _kernel_oserror pointer
          SimulatedError   \* the "NoMem" error of pseudokern_fail

ASSUME ErrorAssumption == NoError # SimulatedError

pseudokern_fail == {NoError, SimulatedError}
=============================================================================
