----------------------------- MODULE PseudoKern -----------------------------
(***************************************************************************)
(* PseudoKern.c: the veneers to the C library kernel.  A call is refused   *)
(* at the gate or passed on, and the error a caller can look up afterwards *)
(* must be the one it was given.  The kernel, its last-error pointer and   *)
(* the operating system are external.                                      *)
(***************************************************************************)
EXTENDS Injection, Naturals

CONSTANTS OSError,    \* an error of the operating system
          MaxCalls    \* bound: calls made in one behaviour

ASSUME OSErrorAssumption == OSError \notin {NoError, SimulatedError}
ASSUME CallsAssumption == MaxCalls \in Nat

VARIABLES lastError,  \* what _kernel_last_oserror would return, and the call that left it
          cause,      \* the error the gate or the system gave in the last call, if any
          reached,    \* calls the operating system has performed or refused
          made,       \* calls the client has made
          refused,    \* calls the client was told were refused by Fortify
          result,     \* the kind of call that returned last and what it returned
          status      \* "running", or "raised" after SIGOSERROR

kern_vars == <<lastError, cause, reached, made, refused, result, status>>

\* Results of the int-valued calls.
Done == "done"
KernelERROR == "_kernel_ERROR"

Nothing == [kind |-> "none", val |-> NoError]

KernInit ==
  /\ lastError = [err |-> NoError, call |-> 0]
  /\ cause = NoError
  /\ reached = 0 /\ made = 0 /\ refused = 0
  /\ result = Nothing
  /\ status = "running"

KernTypeOK ==
  /\ lastError \in [err : {NoError, SimulatedError, OSError}, call : 0..MaxCalls]
  /\ cause \in {NoError, SimulatedError, OSError}
  /\ reached \in 0..MaxCalls /\ made \in 0..MaxCalls /\ refused \in 0..MaxCalls
  /\ result \in [kind : {"none", "error", "nonx"}, val : {NoError, SimulatedError, OSError}]
                \cup [kind : {"int"}, val : {Done, KernelERROR}]
  /\ status \in {"running", "raised"}

Calls == /\ status = "running"
         /\ made < MaxCalls
         /\ made' = made + 1

\* The operating system performs the call or returns an error.
OS == {NoError, OSError}

\* A call of the C library that fails leaves its error for _kernel_last_oserror.
Sets(e) ==
  /\ cause' = e
  /\ lastError' = IF e = NoError THEN lastError ELSE [err |-> e, call |-> made']

\* Mutation: the error is returned without the look-up.
RefusesSilently(e) ==
  e # NoError /\ cause' = e /\ refused' = refused + 1 /\ UNCHANGED <<reached, lastError>>

\* The simulated error is looked up with MessageTrans_ErrorLookup, a call that
\* returns it as its own error.
Refuses(e) == e # NoError /\ Sets(e) /\ refused' = refused + 1 /\ UNCHANGED reached

Performs(e) == Sets(e) /\ reached' = reached + 1 /\ UNCHANGED refused

SwiKind(nonx) == IF nonx THEN "nonx" ELSE "error"

\* pseudokern_swi and pseudokern_swi_c: the gate is asked only when the call
\* can return an error; otherwise an error raises SIGOSERROR.
pseudokern_swi(nonx) ==
  /\ Calls
  /\ \E g \in (IF nonx THEN {NoError} ELSE pseudokern_fail) :
       \/ /\ Refuses(g)
          /\ result' = [kind |-> SwiKind(nonx), val |-> g]
          /\ UNCHANGED status
       \/ /\ g = NoError
          /\ \E e \in OS :
               /\ Performs(e)
               /\ IF nonx /\ e # NoError
                  THEN status' = "raised" /\ result' = Nothing
                  ELSE UNCHANGED status /\ result' = [kind |-> SwiKind(nonx), val |-> e]

\* pseudokern_getenv and pseudokern_setenv.
pseudokern_env ==
  /\ Calls
  /\ \E g \in pseudokern_fail :
       \/ Refuses(g) /\ result' = [kind |-> "error", val |-> g]
       \/ g = NoError /\ \E e \in OS : Performs(e) /\ result' = [kind |-> "error", val |-> e]
  /\ UNCHANGED status

\* Mutation: the real call is made although the gate refused.
OsCallAlways ==
  /\ Calls
  /\ \E g \in pseudokern_fail, e \in OS :
       /\ Sets(IF e # NoError THEN e ELSE g)
       /\ reached' = reached + 1
       /\ refused' = refused + (IF g = NoError THEN 0 ELSE 1)
       /\ result' = [kind |-> "int", val |-> IF g = NoError /\ e = NoError THEN Done ELSE KernelERROR]
  /\ UNCHANGED status

\* pseudokern_osbyte, osrdch, oswrch, osbget, osbput, osgbpb, osword, osfind,
\* osfile, osargs, oscli and system: _kernel_ERROR stands for any error.
pseudokern_os ==
  /\ Calls
  /\ \E g \in pseudokern_fail :
       \/ Refuses(g) /\ result' = [kind |-> "int", val |-> KernelERROR]
       \/ /\ g = NoError
          /\ \E e \in OS :
               /\ Performs(e)
               /\ result' = [kind |-> "int", val |-> IF e = NoError THEN Done ELSE KernelERROR]
  /\ UNCHANGED status

KernNext ==
  \/ \E nonx \in BOOLEAN : pseudokern_swi(nonx)
  \/ pseudokern_env
  \/ pseudokern_os

KernSpec == KernInit /\ [][KernNext]_kern_vars

\* Every call reaches the operating system exactly once or is refused, never
\* both and never neither; and a SWI without the X flag, whose callers check no
\* error, returns to its caller only when it has been performed
\* (PseudoKern.c:78-79).
RefusedOrPerformed ==
  /\ made = reached + refused
  /\ result.kind = "nonx" => result.val = NoError

\* A call that fails, in whichever of the two ways a veneer reports it, leaves
\* its own error for _kernel_last_oserror: the one that this very call met at the
\* gate or in the system, and none that an earlier call left there
\* (PseudoKern.c:52-53).
ErrorExplained ==
  result.val \notin {NoError, Done} =>
    /\ lastError = [err |-> cause, call |-> made]
    /\ result.kind = "error" => result.val = cause
=============================================================================
