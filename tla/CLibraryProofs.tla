-------------------------- MODULE CLibraryProofs --------------------------
(***************************************************************************)
(* What is proved of the veneers of the C library: of its kernel           *)
(* (PseudoKern) for every number of calls, and of its streams (PseudoIO)   *)
(* for every set of streams and number of items.  The two share no state.  *)
(***************************************************************************)
EXTENDS PseudoKern, PseudoIO, TLAPS

-----------------------------------------------------------------------------
(* The kernel.                                                               *)

\* The conjunction that a step preserves: the counts need the balance of
\* RefusedOrPerformed to stay below MaxCalls.
KernInv == KernTypeOK /\ RefusedOrPerformed /\ ErrorExplained

LEMMA KernInitInv == KernInit => KernInv
  BY CallsAssumption
     DEF KernInit, KernInv, KernTypeOK, RefusedOrPerformed, ErrorExplained, Nothing

\* A call that the gate refuses, whatever shape its result has.
LEMMA RefusesInv ==
  ASSUME KernInv, Calls, NEW g \in pseudokern_fail, Refuses(g),
         \/ result' = [kind |-> "error", val |-> g]
         \/ result' = [kind |-> "int", val |-> KernelERROR],
         UNCHANGED status
  PROVE  KernInv'
<1>1. /\ g = SimulatedError /\ g # NoError
      /\ cause' = g /\ lastError' = [err |-> g, call |-> made']
      /\ reached' = reached /\ refused' = refused + 1
      /\ made' = made + 1 /\ made < MaxCalls
  BY DEF pseudokern_fail, Refuses, Sets, Calls
<1>2. KernTypeOK'
  BY <1>1, CallsAssumption
     DEF KernInv, KernTypeOK, RefusedOrPerformed, KernelERROR, Done
<1>3. RefusedOrPerformed'
  BY <1>1, CallsAssumption DEF KernInv, KernTypeOK, RefusedOrPerformed, KernelERROR
<1>4. ErrorExplained'
  BY <1>1 DEF ErrorExplained
<1>5. QED
  BY <1>2, <1>3, <1>4 DEF KernInv

\* A call that reaches the operating system.
LEMMA PerformsInv ==
  ASSUME KernInv, Calls, NEW e \in OS, Performs(e),
         \/ /\ result' = [kind |-> "nonx", val |-> e] /\ e = NoError
         \/ result' = Nothing
         \/ result' = [kind |-> "error", val |-> e]
         \/ result' = [kind |-> "int", val |-> IF e = NoError THEN Done ELSE KernelERROR],
         status' \in {"running", "raised"}
  PROVE  KernInv'
<1>1. /\ e \in {NoError, OSError}
      /\ cause' = e /\ lastError' = IF e = NoError THEN lastError ELSE [err |-> e, call |-> made']
      /\ refused' = refused /\ reached' = reached + 1
      /\ made' = made + 1 /\ made < MaxCalls
  BY DEF OS, Performs, Sets, Calls
<1>2. result' \in [kind : {"none", "error", "nonx"}, val : {NoError, SimulatedError, OSError}]
               \cup [kind : {"int"}, val : {Done, KernelERROR}]
  BY <1>1 DEF Nothing
<1>3. KernTypeOK'
  BY <1>1, <1>2, CallsAssumption DEF KernInv, KernTypeOK, RefusedOrPerformed
<1>4. RefusedOrPerformed'
  BY <1>1, CallsAssumption DEF KernInv, KernTypeOK, RefusedOrPerformed, Nothing
<1>5. ErrorExplained'
  BY <1>1, OSErrorAssumption DEF ErrorExplained, KernelERROR, Done, Nothing
<1>6. QED
  BY <1>3, <1>4, <1>5 DEF KernInv

LEMMA KernNextInv == KernInv /\ [KernNext]_kern_vars => KernInv'
<1> SUFFICES ASSUME KernInv, [KernNext]_kern_vars PROVE KernInv'
  OBVIOUS
<1>1. ASSUME NEW nonx \in BOOLEAN, pseudokern_swi(nonx)
      PROVE  KernInv'
  <2>1. PICK g \in (IF nonx THEN {NoError} ELSE pseudokern_fail) :
           \/ /\ Refuses(g)
              /\ result' = [kind |-> SwiKind(nonx), val |-> g]
              /\ UNCHANGED status
           \/ /\ g = NoError
              /\ \E e \in OS :
                   /\ Performs(e)
                   /\ IF nonx /\ e # NoError
                      THEN status' = "raised" /\ result' = Nothing
                      ELSE UNCHANGED status /\ result' = [kind |-> SwiKind(nonx), val |-> e]
    BY <1>1 DEF pseudokern_swi
  <2>2. Calls
    BY <1>1 DEF pseudokern_swi
  <2>3. CASE Refuses(g) /\ result' = [kind |-> SwiKind(nonx), val |-> g] /\ UNCHANGED status
    <3>1. ~nonx /\ g \in pseudokern_fail
      BY <2>3 DEF Refuses
    <3>2. QED
      BY <2>2, <2>3, <3>1, RefusesInv DEF SwiKind
  <2>4. CASE \E e \in OS :
               /\ Performs(e)
               /\ IF nonx /\ e # NoError
                  THEN status' = "raised" /\ result' = Nothing
                  ELSE UNCHANGED status /\ result' = [kind |-> SwiKind(nonx), val |-> e]
    <3>1. PICK e \in OS :
               /\ Performs(e)
               /\ IF nonx /\ e # NoError
                  THEN status' = "raised" /\ result' = Nothing
                  ELSE UNCHANGED status /\ result' = [kind |-> SwiKind(nonx), val |-> e]
      BY <2>4
    <3>2. status \in {"running", "raised"}
      BY DEF KernInv, KernTypeOK
    <3>3. QED
      BY <2>2, <3>1, <3>2, PerformsInv DEF SwiKind
  <2>5. QED
    BY <2>1, <2>3, <2>4
<1>2. CASE pseudokern_env
  <2>1. ASSUME NEW g \in pseudokern_fail, Refuses(g),
               result' = [kind |-> "error", val |-> g]
        PROVE  KernInv'
    BY <1>2, <2>1, RefusesInv DEF pseudokern_env
  <2>2. ASSUME NEW e \in OS, Performs(e), result' = [kind |-> "error", val |-> e]
        PROVE  KernInv'
    BY <1>2, <2>2, PerformsInv DEF pseudokern_env, KernInv, KernTypeOK
  <2>3. QED
    BY <1>2, <2>1, <2>2 DEF pseudokern_env
<1>3. CASE pseudokern_os
  <2>1. ASSUME NEW g \in pseudokern_fail, Refuses(g),
               result' = [kind |-> "int", val |-> KernelERROR]
        PROVE  KernInv'
    BY <1>3, <2>1, RefusesInv DEF pseudokern_os
  <2>2. ASSUME NEW e \in OS, Performs(e),
               result' = [kind |-> "int", val |-> IF e = NoError THEN Done ELSE KernelERROR]
        PROVE  KernInv'
    BY <1>3, <2>2, PerformsInv DEF pseudokern_os, KernInv, KernTypeOK
  <2>3. QED
    BY <1>3, <2>1, <2>2 DEF pseudokern_os
<1>4. CASE UNCHANGED kern_vars
  BY <1>4 DEF KernInv, kern_vars, KernTypeOK, RefusedOrPerformed, ErrorExplained
<1>5. QED
  BY <1>1, <1>2, <1>3, <1>4 DEF KernNext

\* Every call reaches the operating system or is refused, once, and a SWI
\* without the X flag returns only when performed (PseudoKern.c:78-79), for any
\* number of calls in any order; and the state keeps its types.
THEOREM AlwaysRefusedOrPerformed == KernSpec => [](KernTypeOK /\ RefusedOrPerformed)
<1>1. KernInv => KernTypeOK /\ RefusedOrPerformed
  BY DEF KernInv
<1>2. QED
  BY KernInitInv, KernNextInv, <1>1, PTL DEF KernSpec

\* A call that fails leaves for _kernel_last_oserror the error that it met itself,
\* and none of an earlier call (PseudoKern.c:52-53), for any number of calls in any
\* order.
THEOREM AlwaysErrorExplained == KernSpec => []ErrorExplained
<1>1. KernInv => ErrorExplained
  BY DEF KernInv
<1>2. QED
  BY KernInitInv, KernNextInv, <1>1, PTL DEF KernSpec

-----------------------------------------------------------------------------
(* Streams.                                                                  *)

\* The properties support each other: a count can be compared for the streams
\* the client owns only while those are the open ones.
IOInv == TypeOK /\ NoHandleLeak /\ ReportsExact /\ FailureSticks /\ ErrnoExplained

LEMMA InitInv == Init => IOInv
  BY StreamAssumption, ItemsAssumption
     DEF Init, Standard, IOInv, TypeOK, NoHandleLeak, ReportsExact, FailureSticks,
         ErrnoExplained

\* However a call ends, errno and the failure it stands for stay in step.
Ends == Succeeds \/ Fails \/ Refused

LEMMA EndFacts ==
  ASSUME IOInv, Ends
  PROVE  /\ errno' \in {"none", "ERANGE", "other"}
         /\ blame' \in {"none", "refused", "failed"}
         /\ ErrnoExplained'
  BY DEF Ends, Succeeds, Fails, Refused, IOInv, TypeOK, ErrnoExplained

\* A call that moves no data and marks no stream.
LEMMA ControlInv ==
  ASSUME IOInv, Ends \/ (errno' = "none" /\ blame' = "none"),
         UNCHANGED <<open, owned, moved, told>>,
         UNCHANGED <<flags, failed>> \/ \E s \in Stream : Forget(s)
  PROVE  IOInv'
<1>1. /\ errno' \in {"none", "ERANGE", "other"}
      /\ blame' \in {"none", "refused", "failed"}
      /\ ErrnoExplained'
  BY EndFacts DEF ErrnoExplained
<1>2. failed' \subseteq failed /\ flags' \subseteq flags
  BY DEF Forget
<1>3. TypeOK'
  BY <1>1, <1>2 DEF IOInv, TypeOK
<1>4. FailureSticks'
  BY DEF IOInv, FailureSticks, Forget
<1>5. NoHandleLeak' /\ ReportsExact'
  BY DEF IOInv, NoHandleLeak, ReportsExact
<1>6. QED
  BY <1>1, <1>3, <1>4, <1>5 DEF IOInv

\* A transfer, refused or performed, of which the client is told as much as
\* was moved, and which marks the stream if it fails, unless it is a refused puts.
LEMMA MoveInv ==
  ASSUME IOInv, NEW s \in owned, NEW k \in Nat, moved[s] + k <= MaxItems, Ends,
         UNCHANGED <<open, owned>>,
         moved' = [moved EXCEPT ![s] = @ + k],
         told' = [told EXCEPT ![s] = @ + k],
         \/ UNCHANGED <<flags, failed>>
         \/ /\ flags' = flags \cup {s}
            /\ failed' = failed \cup {[stream |-> s, by |-> "transfer"]}
         \/ /\ flags' = flags
            /\ failed' = failed \cup {[stream |-> s, by |-> "refused_puts"]}
  PROVE  IOInv'
<1>1. /\ s \in Stream /\ s \in open /\ told[s] = moved[s]
      /\ moved \in [Stream -> 0..MaxItems] /\ told \in [Stream -> 0..MaxItems]
  BY DEF IOInv, TypeOK, NoHandleLeak, ReportsExact
<1>2. moved[s] + k \in 0..MaxItems
  BY <1>1, ItemsAssumption
<1>3. moved' \in [Stream -> 0..MaxItems] /\ told' \in [Stream -> 0..MaxItems]
  BY <1>1, <1>2
<1>4. /\ flags' \subseteq open'
      /\ failed' \subseteq Failure /\ \A f \in failed' : f.stream \in owned'
  BY <1>1 DEF IOInv, TypeOK, Failure
<1>5. TypeOK'
  BY <1>3, <1>4, EndFacts DEF IOInv, TypeOK
<1>6. FailureSticks'
  <2>1. CASE UNCHANGED <<flags, failed>>
    BY <2>1 DEF IOInv, FailureSticks
  <2>2. CASE /\ flags' = flags \cup {s}
             /\ failed' = failed \cup {[stream |-> s, by |-> "transfer"]}
    <3> DEFINE new == [stream |-> s, by |-> "transfer"]
    <3>1. new.stream = s /\ new.by = "transfer"
      OBVIOUS
    <3>2. flags' = flags \cup {s} /\ failed' = failed \cup {new}
      BY <2>2
    <3> HIDE DEF new
    <3>3. QED
      BY <3>1, <3>2 DEF IOInv, FailureSticks
  <2>3. CASE /\ flags' = flags
             /\ failed' = failed \cup {[stream |-> s, by |-> "refused_puts"]}
    <3> DEFINE new == [stream |-> s, by |-> "refused_puts"]
    <3>1. new.stream = s /\ new.by = "refused_puts"
      OBVIOUS
    <3>2. flags' = flags /\ failed' = failed \cup {new}
      BY <2>3
    <3> HIDE DEF new
    <3>3. QED
      BY <3>1, <3>2 DEF IOInv, FailureSticks
  <2>4. QED
    BY <2>1, <2>2, <2>3
<1>7. NoHandleLeak'
  BY DEF IOInv, NoHandleLeak
<1>8. ReportsExact'
  BY <1>1 DEF IOInv, TypeOK, ReportsExact
<1>9. QED
  BY <1>5, <1>6, <1>7, <1>8, EndFacts DEF IOInv

\* Adding nothing to an entry changes no count.
LEMMA AddNothing ==
  ASSUME NEW f \in [Stream -> 0..MaxItems], NEW s \in Stream
  PROVE  f = [f EXCEPT ![s] = @ + 0]
  BY ItemsAssumption

\* A refused transfer: that of puts, or another.
LEMMA RefuseInv ==
  ASSUME IOInv, NEW s \in owned, UNCHANGED <<open, owned>>,
         \/ Refuse(s)
         \/ /\ Refused /\ UNCHANGED <<flags, moved, told>>
            /\ failed' = failed \cup {[stream |-> s, by |-> "refused_puts"]}
  PROVE  IOInv'
<1>1. /\ s \in Stream /\ moved[s] \in 0..MaxItems
      /\ moved \in [Stream -> 0..MaxItems] /\ told \in [Stream -> 0..MaxItems]
  BY DEF IOInv, TypeOK
<1>2. /\ moved' = [moved EXCEPT ![s] = @ + 0]
      /\ told' = [told EXCEPT ![s] = @ + 0]
  BY <1>1, AddNothing DEF Refuse
<1>3. moved[s] + 0 <= MaxItems
  <2> DEFINE m == moved[s]
  <2>1. m \in 0..MaxItems
    BY <1>1
  <2> HIDE DEF m
  <2>2. m + 0 <= MaxItems
    BY <2>1, ItemsAssumption
  <2>3. QED
    BY <2>2 DEF m
<1>4. Ends
  BY DEF Refuse, Ends
<1>5. QED
  BY <1>2, <1>3, <1>4, MoveInv DEF Refuse

LEMMA TransferInv ==
  ASSUME IOInv, NEW s \in owned, NEW n \in Nat, moved[s] + n <= MaxItems,
         NEW reading \in BOOLEAN, Transfer(s, n, reading), UNCHANGED <<open, owned>>
  PROVE  IOInv'
<1>1. PICK k \in 0..n :
        /\ moved' = [moved EXCEPT ![s] = @ + k]
        /\ told' = [told EXCEPT ![s] = @ + k]
        /\ \/ (k = n \/ reading) /\ Succeeds /\ UNCHANGED <<flags, failed>>
           \/ /\ k < n
              /\ Fails
              /\ flags' = flags \cup {s}
              /\ failed' = failed \cup {[stream |-> s, by |-> "transfer"]}
  BY DEF Transfer
<1>2. k \in Nat /\ moved[s] + k <= MaxItems
  BY ItemsAssumption DEF IOInv, TypeOK
<1>3. Ends
  BY <1>1 DEF Ends
<1>4. QED
  BY <1>1, <1>2, <1>3, MoveInv

LEMMA OutputInv ==
  ASSUME IOInv, NEW s \in Stream, NEW n \in Nat, Output(s, n)
  PROVE  IOInv'
  BY TransferInv, RefuseInv DEF Output

LEMMA InputInv ==
  ASSUME IOInv, NEW s \in Stream, NEW n \in Nat, Input(s, n)
  PROVE  IOInv'
  BY TransferInv, RefuseInv DEF Input

LEMMA PutsInv ==
  ASSUME IOInv, NEW n \in Nat, pseudo_puts(n)
  PROVE  IOInv'
  BY TransferInv, RefuseInv DEF pseudo_puts

LEMMA FopenInv ==
  ASSUME IOInv, NEW s \in Stream, pseudo_fopen(s)
  PROVE  IOInv'
<1>1. s \notin open /\ UNCHANGED <<flags, failed>>
  BY DEF pseudo_fopen
<1>2. CASE /\ open' = open \cup {s} /\ moved' = [moved EXCEPT ![s] = 0]
           /\ owned' = owned \cup {s} /\ told' = [told EXCEPT ![s] = 0]
           /\ Succeeds
  <2>1. Ends
    BY <1>2 DEF Ends
  <2>2. TypeOK'
    BY <1>1, <1>2, <2>1, EndFacts, ItemsAssumption DEF IOInv, TypeOK
  <2>3. ReportsExact'
    BY <1>2 DEF IOInv, TypeOK, ReportsExact
  <2>4. NoHandleLeak' /\ FailureSticks'
    BY <1>1, <1>2 DEF IOInv, NoHandleLeak, FailureSticks
  <2>5. QED
    BY <2>1, <2>2, <2>3, <2>4, EndFacts DEF IOInv
<1>3. CASE UNCHANGED <<open, moved, owned, told>> /\ (Fails \/ Refused)
  BY <1>1, <1>3, ControlInv DEF Ends
<1>4. QED
  BY <1>2, <1>3 DEF pseudo_fopen

LEMMA FcloseInv ==
  ASSUME IOInv, NEW s \in Stream, pseudo_fclose(s)
  PROVE  IOInv'
<1>1. /\ open' = open \ {s} /\ flags' = flags \ {s}
      /\ owned' = owned \ {s} /\ failed' = {f \in failed : f.stream # s}
      /\ UNCHANGED <<moved, told>>
  BY DEF pseudo_fclose, Forget
<1>2. Ends
  BY DEF pseudo_fclose, Ends
<1>3. TypeOK'
  BY <1>1, <1>2, EndFacts DEF IOInv, TypeOK
<1>4. NoHandleLeak' /\ ReportsExact'
  BY <1>1 DEF IOInv, NoHandleLeak, ReportsExact
<1>5. FailureSticks'
  BY <1>1 DEF IOInv, FailureSticks
<1>6. QED
  BY <1>2, <1>3, <1>4, <1>5, EndFacts DEF IOInv

\* The calls that move no data.
LEMMA OtherInv ==
  ASSUME IOInv,
         ClearErrno \/ \E s \in Stream : clearerr(s) \/ pseudo_rewind(s) \/ Positions(s)
  PROVE  IOInv'
<1>1. CASE ClearErrno
  BY <1>1, ControlInv DEF ClearErrno
<1>2. ASSUME NEW s \in Stream, clearerr(s)
      PROVE  IOInv'
  BY <1>2, ControlInv DEF clearerr, Ends, Succeeds
<1>3. ASSUME NEW s \in Stream, pseudo_rewind(s)
      PROVE  IOInv'
  BY <1>3, ControlInv DEF pseudo_rewind, Ends
<1>4. ASSUME NEW s \in Stream, Positions(s)
      PROVE  IOInv'
  BY <1>4, ControlInv DEF Positions, Ends
<1>5. QED
  BY <1>1, <1>2, <1>3, <1>4

LEMMA NextInv == IOInv /\ [Next]_vars => IOInv'
<1> SUFFICES ASSUME IOInv, [Next]_vars PROVE IOInv'
  OBVIOUS
<1>1. CASE ClearErrno
  BY <1>1, OtherInv
<1>2. ASSUME NEW n \in 1..MaxItems, pseudo_puts(n)
      PROVE  IOInv'
  BY <1>2, PutsInv, ItemsAssumption
<1>3. ASSUME NEW s \in Stream, pseudo_fopen(s) \/ pseudo_fclose(s)
      PROVE  IOInv'
  BY <1>3, FopenInv, FcloseInv
<1>4. ASSUME NEW s \in Stream,
             clearerr(s) \/ pseudo_rewind(s) \/ pseudo_fseek(s) \/ pseudo_ftell(s)
      PROVE  IOInv'
  BY <1>4, OtherInv DEF pseudo_fseek, pseudo_ftell
<1>5. ASSUME NEW s \in Stream, pseudo_fputc(s) \/ pseudo_fgetc(s)
      PROVE  IOInv'
  BY <1>5, OutputInv, InputInv DEF pseudo_fputc, pseudo_fgetc
<1>6. ASSUME NEW s \in Stream, NEW n \in 1..MaxItems,
             \/ pseudo_fwrite(s, n) \/ pseudo_fputs(s, n) \/ pseudo_fprintf(s, n)
             \/ pseudo_fread(s, n)
      PROVE  IOInv'
  <2>1. n \in Nat
    BY ItemsAssumption
  <2>2. QED
    BY <1>6, <2>1, OutputInv, InputInv
       DEF pseudo_fwrite, pseudo_fputs, pseudo_fprintf, pseudo_fread
<1>7. CASE UNCHANGED vars
  BY <1>7 DEF vars, IOInv, TypeOK, NoHandleLeak, ReportsExact, FailureSticks, ErrnoExplained
<1>8. QED
  BY <1>1, <1>2, <1>3, <1>4, <1>5, <1>6, <1>7 DEF Next

LEMMA SpecInv == Spec => []IOInv
  BY InitInv, NextInv, PTL DEF Spec

\* Simulated failures leak no file and close none, whatever stream they hit
\* (PseudoIO.c:119-120), and the state keeps its types.
THEOREM HandlesSound == Spec => [](TypeOK /\ NoHandleLeak)
<1>1. IOInv => TypeOK /\ NoHandleLeak
  BY DEF IOInv
<1>2. QED
  BY SpecInv, <1>1, PTL

\* ferror tells of every failed transfer but a refused puts, and of nothing else,
\* for any number of streams and any interleaving of their calls.
THEOREM FailuresSeen == Spec => []FailureSticks
<1>1. IOInv => FailureSticks
  BY DEF IOInv
<1>2. QED
  BY SpecInv, <1>1, PTL

\* Since the client cleared errno, it holds what the last failing call left there,
\* ERANGE for a refused one (PseudoIO.c:142), and nothing if no call has failed.
THEOREM FailuresExplained == Spec => []ErrnoExplained
<1>1. IOInv => ErrnoExplained
  BY DEF IOInv
<1>2. QED
  BY SpecInv, <1>1, PTL

\* The results of the calls add up to the data moved, for any amount of data.
THEOREM CountsExact == Spec => []ReportsExact
<1>1. IOInv => ReportsExact
  BY DEF IOInv
<1>2. QED
  BY SpecInv, <1>1, PTL
=============================================================================
