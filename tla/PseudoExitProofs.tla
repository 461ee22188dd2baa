-------------------------- MODULE PseudoExitProofs --------------------------
(***************************************************************************)
(* What is proved of PseudoExit for every depth of the stack and every     *)
(* width of an int.                                                        *)
(***************************************************************************)
EXTENDS PseudoExit, TLAPS

\* A saved state that is good belongs to a frame still on the stack.
FramesLive ==
  /\ env.good => env.frame \in 1..depth
  /\ exit_target.good => exit_target.frame \in 1..depth

\* While the client keeps to the rules, an exit that can be intercepted has a
\* frame to jump to.  NoStaleJump alone is not inductive without it.
TargetLive == Disciplined => NoStaleJump /\ (exit_pending => exit_target.good)

IInv == TypeOK /\ OneShot /\ StatusRecovered /\ FramesLive /\ TargetLive

\* What a jmp_buf becomes when its state is lost or kept.
LEMMA BufFacts ==
  ASSUME NEW buf \in JmpBuf, NEW kept \in BOOLEAN
  PROVE  LET b == [buf EXCEPT !.good = kept] IN
         b \in JmpBuf /\ b.frame = buf.frame /\ b.good = kept
  BY DEF JmpBuf

LEMMA InitInv == Init => IInv
<1> SUFFICES ASSUME Init PROVE IInv
  OBVIOUS
<1>1. depth \in 1..MaxDepth
  BY DepthAssumption DEF Init
<1>2. Unset \in JmpBuf /\ ~Unset.good
  BY DepthAssumption DEF Unset, JmpBuf
<1>3. 0 \in Int32
  BY IntAssumption DEF Int32
<1>4. TypeOK
  BY <1>1, <1>2, <1>3 DEF Init, TypeOK, Direct
<1>5. OneShot /\ StatusRecovered
  BY DEF Init, OneShot, StatusRecovered, Direct
<1>6. FramesLive /\ TargetLive
  BY <1>2 DEF Init, FramesLive, TargetLive, NoStaleJump
<1>7. QED
  BY <1>4, <1>5, <1>6 DEF IInv

\* A frame that returns takes its own saved states with it and leaves the
\* others as they are.
LEMMA LostFacts ==
  ASSUME TypeOK, NEW buf \in JmpBuf, buf.good => buf.frame \in 1..depth
  PROVE  /\ Lost(buf) \in JmpBuf
         /\ Lost(buf).good <=> buf.good /\ buf.frame # depth
         /\ Lost(buf).good => Lost(buf).frame \in 1..(depth - 1)
<1> DEFINE kept == buf.good /\ buf.frame < depth
<1>1. kept \in BOOLEAN
  BY DEF JmpBuf
<1>2. Lost(buf) = [buf EXCEPT !.good = kept]
  BY DEF Lost
<1>3. Lost(buf) \in JmpBuf /\ Lost(buf).frame = buf.frame /\ Lost(buf).good = kept
  BY <1>1, <1>2, BufFacts
<1>4. depth \in Nat
  BY DepthAssumption DEF TypeOK
<1>5. kept <=> buf.good /\ buf.frame # depth
  BY <1>4
<1>6. kept => buf.frame \in 1..(depth - 1)
  BY <1>4
<1> HIDE DEF kept
<1>7. QED
  BY <1>3, <1>5, <1>6

\* A jump to a good state unwinds the stack to its frame, and the result of the
\* setjmp is never 0.
LEMMA JumpFacts ==
  ASSUME IInv, exit_target.good, NEW code \in Int32 \ {INT_MAX},
         longjmp(exit_target, code + 1, code)
  PROVE  /\ depth' = exit_target.frame /\ depth' \in 1..MaxDepth
         /\ status' = status
         /\ env' \in JmpBuf /\ (env'.good => env'.frame \in 1..depth')
         /\ ret' = [val |-> IF code + 1 = 0 THEN 1 ELSE code + 1, exit |-> {code}]
         /\ ret'.val \in Int32 \ {0}
<1>1. /\ depth' = exit_target.frame
      /\ env' = [env EXCEPT !.good = @ /\ env.frame <= exit_target.frame]
      /\ ret' = [val |-> IF code + 1 = 0 THEN 1 ELSE code + 1, exit |-> {code}]
      /\ status' = status
  BY DEF longjmp
<1>2. depth' \in 1..depth /\ depth' \in 1..MaxDepth
  BY <1>1, DepthAssumption DEF IInv, FramesLive, TypeOK
<1>3. env' \in JmpBuf /\ (env'.good => env'.frame \in 1..depth')
  <2> DEFINE kept == env.good /\ env.frame <= exit_target.frame
  <2>1. kept \in BOOLEAN /\ env \in JmpBuf
    BY DEF IInv, TypeOK, JmpBuf
  <2>2. env' \in JmpBuf /\ env'.frame = env.frame /\ env'.good = kept
    BY <1>1, <2>1, BufFacts
  <2>3. kept => env.frame \in 1..depth'
    BY <1>1, <1>2, DepthAssumption DEF IInv, FramesLive, TypeOK
  <2> HIDE DEF kept
  <2>4. QED
    BY <2>2, <2>3
<1>4. ret'.val \in Int32 \ {0}
  BY <1>1, IntAssumption DEF Int32
<1>5. QED
  BY <1>1, <1>2, <1>3, <1>4

\* An undefined jump, which only an undisciplined client makes, ends the
\* behaviour with the rest of the state in order.
LEMMA UndefinedInv ==
  ASSUME IInv, ~Disciplined, exit_pending' = FALSE, armed' = 0,
         status' = "undefined", UNCHANGED <<depth, env, exit_target, ret>>
  PROVE  IInv'
<1>1. TypeOK'
  BY DEF IInv, TypeOK
<1>2. OneShot' /\ StatusRecovered' /\ FramesLive'
  BY DEF IInv, OneShot, StatusRecovered, FramesLive
<1>3. TargetLive'
  BY DEF TargetLive
<1>4. QED
  BY <1>1, <1>2, <1>3 DEF IInv

LEMMA ExitInv ==
  ASSUME IInv, NEW code \in Codes, pseudo_exit(code)
  PROVE  IInv'
<1>1. /\ code \in Int32 /\ (Disciplined => code # INT_MAX)
      /\ Running /\ exit_target' = exit_target
  BY DEF Codes, pseudo_exit
<1>2. CASE ~exit_pending
  <2>1. /\ status' = "exited"
        /\ UNCHANGED <<depth, env, exit_pending, armed, ret>>
    BY <1>2 DEF pseudo_exit
  <2>2. QED
    BY <1>1, <2>1
       DEF IInv, TypeOK, OneShot, StatusRecovered, FramesLive, TargetLive, NoStaleJump
<1>3. CASE exit_pending
  <2>1. exit_pending' = FALSE /\ armed' = 0
    BY <1>3 DEF pseudo_exit, IInv, OneShot, TypeOK
  <2>2. CASE code = INT_MAX
    <3>1. status' = "undefined" /\ UNCHANGED <<depth, env, ret>> /\ ~Disciplined
      BY <1>1, <1>3, <2>2 DEF pseudo_exit
    <3>2. QED
      BY <1>1, <2>1, <3>1, UndefinedInv
  <2>3. CASE code # INT_MAX /\ ~exit_target.good
    <3>1. status' = "undefined" /\ UNCHANGED <<depth, env, ret>> /\ ~Disciplined
      BY <1>1, <1>3, <2>3 DEF pseudo_exit, longjmp, IInv, TargetLive
    <3>2. QED
      BY <1>1, <2>1, <3>1, UndefinedInv
  <2>4. CASE code # INT_MAX /\ exit_target.good
    <3>1. longjmp(exit_target, code + 1, code)
      BY <1>3, <2>4 DEF pseudo_exit
    <3>2. /\ depth' = exit_target.frame /\ depth' \in 1..MaxDepth
          /\ status' = status
          /\ env' \in JmpBuf /\ (env'.good => env'.frame \in 1..depth')
          /\ ret' = [val |-> IF code + 1 = 0 THEN 1 ELSE code + 1, exit |-> {code}]
          /\ ret'.val \in Int32 \ {0}
      BY <1>1, <2>4, <3>1, JumpFacts
    <3>3. TypeOK'
      BY <1>1, <2>1, <3>2 DEF IInv, TypeOK
    <3>4. StatusRecovered'
      BY <1>1, <3>2, IntAssumption DEF StatusRecovered, Int32
    <3>5. FramesLive' /\ OneShot' /\ TargetLive'
      BY <1>1, <2>1, <3>2, DepthAssumption
         DEF IInv, FramesLive, OneShot, TargetLive, NoStaleJump, Running
    <3>6. QED
      BY <3>3, <3>4, <3>5 DEF IInv
  <2>5. QED
    BY <2>2, <2>3, <2>4
<1>4. QED
  BY <1>2, <1>3

LEMMA NextInv == IInv /\ [Next]_vars => IInv'
<1> SUFFICES ASSUME IInv, [Next]_vars PROVE IInv'
  OBVIOUS
<1> USE DepthAssumption
<1>1. CASE Call
  BY <1>1
     DEF Call, Running, IInv, TypeOK, OneShot, StatusRecovered, FramesLive, TargetLive,
         NoStaleJump, JmpBuf
<1>2. CASE Return
  <2>1. /\ depth > 1 /\ depth' = depth - 1
        /\ Disciplined => ~(exit_pending /\ exit_target.frame = depth)
        /\ env' = Lost(env) /\ exit_target' = Lost(exit_target)
        /\ UNCHANGED <<exit_pending, armed, ret, status>>
    BY <1>2 DEF Return
  <2>2. /\ env' \in JmpBuf /\ exit_target' \in JmpBuf
        /\ exit_target'.good <=> exit_target.good /\ exit_target.frame # depth
        /\ env'.good => env'.frame \in 1..(depth - 1)
        /\ exit_target'.good => exit_target'.frame \in 1..(depth - 1)
    BY <2>1, LostFacts DEF IInv, FramesLive, TypeOK
  <2>3. TypeOK' /\ FramesLive'
    BY <2>1, <2>2 DEF IInv, TypeOK, FramesLive
  <2>4. OneShot' /\ StatusRecovered' /\ TargetLive'
    BY <2>1, <2>2 DEF IInv, OneShot, StatusRecovered, TargetLive, NoStaleJump
  <2>5. QED
    BY <2>3, <2>4 DEF IInv
<1>3. CASE setjmp
  BY <1>3, IntAssumption
     DEF setjmp, Running, IInv, TypeOK, OneShot, StatusRecovered, FramesLive, TargetLive,
         NoStaleJump, JmpBuf, Direct, Int32
<1>4. CASE pseudo_exit_set_target
  BY <1>4
     DEF pseudo_exit_set_target, Running, IInv, TypeOK, OneShot, StatusRecovered,
         FramesLive, TargetLive, NoStaleJump
<1>5. ASSUME NEW code \in Codes, pseudo_exit(code)
      PROVE  IInv'
  BY <1>5, ExitInv
<1>6. CASE UNCHANGED vars
  BY <1>6
     DEF vars, IInv, TypeOK, OneShot, StatusRecovered, FramesLive, TargetLive, NoStaleJump
<1>7. QED
  BY <1>1, <1>2, <1>3, <1>4, <1>5, <1>6 DEF Next

LEMMA SpecInv == Spec => []IInv
  BY InitInv, NextInv, PTL DEF Spec

\* Every variable keeps its type, an interceptor is used once, and the result of
\* setjmp tells each status of an intercepted exit but -1, which looks like 0,
\* whether or not the client keeps to the rules (PseudoExit.c:36-50).
THEOREM InterceptorSound == Spec => [](TypeOK /\ OneShot /\ StatusRecovered)
<1>1. IInv => TypeOK /\ OneShot /\ StatusRecovered
  BY DEF IInv
<1>2. QED
  BY SpecInv, <1>1, PTL

\* A client that does not return from the frame it armed, arms only a state it
\* has saved and keeps off INT_MAX never makes an intercepted exit jump to a
\* frame that has gone (PseudoExit.c:43-46).
THEOREM NeverStale ==
  ASSUME Disciplined
  PROVE  Spec => []NoStaleJump
<1>1. IInv => NoStaleJump
  BY DEF IInv, TargetLive
<1>2. QED
  BY SpecInv, <1>1, PTL

\* pseudo_exit never returns to its caller (PseudoExit.c:41-50).
THEOREM ExitAlwaysLeaves == Spec => ExitLeaves
<1> DEFINE Leaves == armed' < armed \/ status' = "exited"
                       => status' # "running" \/ (depth' = exit_target.frame /\ ret'.exit # {})
<1>1. ASSUME IInv, Next
      PROVE  Leaves
  <2>1. armed \in {0, 1} /\ (exit_pending <=> armed = 1)
    BY <1>1 DEF IInv, TypeOK, OneShot
  <2>2. CASE Call \/ Return \/ setjmp \/ pseudo_exit_set_target
    BY <2>1, <2>2 DEF Call, Return, setjmp, pseudo_exit_set_target, Running
  <2>3. ASSUME NEW code \in Codes, pseudo_exit(code)
        PROVE  Leaves
    BY <2>1, <2>3 DEF pseudo_exit, longjmp
  <2>4. QED
    BY <1>1, <2>2, <2>3 DEF Next
<1>2. IInv /\ [Next]_vars => [Leaves]_vars
  BY <1>1
<1>3. QED
  BY SpecInv, <1>2, PTL DEF Spec, ExitLeaves
=============================================================================
