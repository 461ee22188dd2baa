----------------------------- MODULE PseudoExit -----------------------------
(***************************************************************************)
(* PseudoExit.c: an exit() that a test can intercept.  The saved state is  *)
(* a point on the call stack, so the stack is modelled: a frame is its     *)
(* depth, and a saved state is good while the frame that called setjmp has *)
(* not returned.  longjmp to a state that is not good is undefined         *)
(* behaviour, where the model stops.                                       *)
(***************************************************************************)
EXTENDS Integers

CONSTANTS MaxDepth,      \* bound: frames on the call stack
          INT_MAX,
          Disciplined    \* does the client keep to the rules below?

ASSUME DepthAssumption == MaxDepth \in Nat \ {0}
ASSUME IntAssumption == INT_MAX \in Nat \ {0}

\* The values of an int, in two's complement.
Int32 == (-INT_MAX - 1)..INT_MAX

VARIABLES depth,         \* frames on the stack
          env,           \* the jmp_buf of the client: the state last saved
          exit_target,   \* the copy made by pseudo_exit_set_target
          exit_pending,
          armed,         \* calls of set_target not yet answered by an exit
          ret,           \* the result of the setjmp that returned last, and
                         \* the status whose interception it reports
          status         \* "running", "exited" or "undefined"

vars == <<depth, env, exit_target, exit_pending, armed, ret, status>>

\* A jmp_buf: the frame of the setjmp, and whether that frame is still there.
\* Until the first setjmp a jmp_buf holds nothing to jump to.
JmpBuf == [frame : 0..MaxDepth, good : BOOLEAN]
Unset == [frame |-> 0, good |-> FALSE]
Direct == [val |-> 0, exit |-> {}]

TypeOK ==
  /\ depth \in 1..MaxDepth
  /\ env \in JmpBuf /\ exit_target \in JmpBuf
  /\ exit_pending \in BOOLEAN
  /\ armed \in {0, 1}
  /\ ret \in [val : Int32, exit : {{}} \cup {{s} : s \in Int32}]
  /\ status \in {"running", "exited", "undefined"}

Init ==
  /\ depth = 1
  /\ env = Unset /\ exit_target = Unset
  /\ exit_pending = FALSE
  /\ armed = 0
  /\ ret = Direct
  /\ status = "running"

Running == status = "running"

-----------------------------------------------------------------------------
(* The program around the interceptor. *)

Call ==
  /\ Running /\ depth < MaxDepth
  /\ depth' = depth + 1
  /\ UNCHANGED <<env, exit_target, exit_pending, armed, ret, status>>

\* A state saved by the frame that returns is lost with it.
Lost(buf) == [buf EXCEPT !.good = @ /\ buf.frame < depth]

\* A disciplined client does not return from the frame it armed while an exit
\* can still be intercepted.
Return ==
  /\ Running /\ depth > 1
  /\ Disciplined => ~(exit_pending /\ exit_target.frame = depth)
  /\ depth' = depth - 1
  /\ env' = Lost(env)
  /\ exit_target' = Lost(exit_target)
  /\ UNCHANGED <<exit_pending, armed, ret, status>>

setjmp ==
  /\ Running
  /\ env' = [frame |-> depth, good |-> TRUE]
  /\ ret' = Direct
  /\ UNCHANGED <<depth, exit_target, exit_pending, armed, status>>

\* longjmp unwinds the stack to the frame of the setjmp, which returns again:
\* with the value given, or with 1 when that is 0.
longjmp(buf, val, code) ==
  IF buf.good
  THEN /\ depth' = buf.frame
       /\ env' = [env EXCEPT !.good = @ /\ env.frame <= buf.frame]
       /\ ret' = [val |-> IF val = 0 THEN 1 ELSE val, exit |-> {code}]
       /\ UNCHANGED status
  ELSE /\ status' = "undefined"
       /\ UNCHANGED <<depth, env, ret>>

-----------------------------------------------------------------------------
(* The interceptor. *)

\* Mutation: the jmp_buf is not copied.
SetTargetKeeping ==
  /\ Running
  /\ Disciplined => env.good
  /\ exit_pending' = TRUE
  /\ armed' = 1
  /\ UNCHANGED <<depth, env, exit_target, ret, status>>

\* A disciplined client passes a state it has saved and that is still good.
pseudo_exit_set_target ==
  /\ Running
  /\ Disciplined => env.good
  /\ exit_pending' = TRUE
  /\ exit_target' = env
  /\ armed' = 1
  /\ UNCHANGED <<depth, env, ret, status>>

\* Mutation: the status is passed on as it is.
ExitSameStatus(code) ==
  /\ Running
  /\ \/ /\ exit_pending
        /\ exit_pending' = FALSE
        /\ armed' = armed - 1
        /\ longjmp(exit_target, code, code)
     \/ /\ ~exit_pending
        /\ status' = "exited"
        /\ UNCHANGED <<depth, env, exit_pending, armed, ret>>
  /\ UNCHANGED exit_target

\* Mutation: a pointer to the client's jmp_buf is kept in place of a copy.
ExitToClientBuf(code) ==
  /\ Running
  /\ \/ /\ exit_pending
        /\ exit_pending' = FALSE
        /\ armed' = armed - 1
        /\ longjmp(env, code + 1, code)
     \/ /\ ~exit_pending
        /\ status' = "exited"
        /\ UNCHANGED <<depth, env, exit_pending, armed, ret>>
  /\ UNCHANGED exit_target

\* status+1 overflows for INT_MAX: undefined.
pseudo_exit(code) ==
  /\ Running
  /\ \/ /\ exit_pending
        /\ exit_pending' = FALSE
        /\ armed' = armed - 1
        /\ IF code = INT_MAX
           THEN status' = "undefined" /\ UNCHANGED <<depth, env, ret>>
           ELSE longjmp(exit_target, code + 1, code)
     \/ /\ ~exit_pending
        /\ status' = "exited"
        /\ UNCHANGED <<depth, env, exit_pending, armed, ret>>
  /\ UNCHANGED exit_target

\* The statuses programs exit with; a disciplined client keeps off INT_MAX.
Codes == IF Disciplined THEN Int32 \ {INT_MAX} ELSE Int32

Next ==
  \/ Call \/ Return \/ setjmp
  \/ pseudo_exit_set_target
  \/ \E code \in Codes : pseudo_exit(code)

Spec == Init /\ [][Next]_vars

-----------------------------------------------------------------------------
(* Properties. *)

\* An interceptor is used once: every exit that was intercepted answers one
\* call of pseudo_exit_set_target, and an exit is never intercepted after it.
OneShot == exit_pending <=> armed = 1

\* An intercepted exit never jumps into a frame that has returned, although
\* the client may save other states and leave other frames in between.
NoStaleJump == status # "undefined"

\* pseudo_exit does not return to its caller: the stack is unwound to the
\* frame armed, or the program ends.
ExitLeaves ==
  [][armed' < armed \/ status' = "exited"
       => status' # "running" \/ (depth' = exit_target.frame /\ ret'.exit # {})]_vars

\* The result of setjmp tells an intercepted exit from the direct call, and each
\* status but one from every other: it is one greater than the status.  Status -1
\* arrives as 1, not as 0, so that it cannot be told from 0 (PseudoExit.c:46;
\* PseudoExit.h:47-48 makes no such exception).
StatusRecovered ==
  /\ ret.exit # {} <=> ret.val # 0
  /\ \A code \in ret.exit : ret.val = IF code = -1 THEN 1 ELSE code + 1
=============================================================================
