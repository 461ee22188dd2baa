------------------------------ MODULE PseudoIO ------------------------------
(***************************************************************************)
(* PseudoIO.c: the veneers to the stream functions of the C library.  Each *)
(* asks Fortify whether an allocation may succeed and, if not, fails the   *)
(* way the real function would: NULL, EOF, -1 or a count of 0, errno, and  *)
(* for the functions that are given a stream to transfer data its error    *)
(* indicator.  The C library is external; it sets errno when it fails and  *)
(* leaves it alone otherwise.  Data is counted, not kept.                  *)
(***************************************************************************)
EXTENDS Naturals

CONSTANTS Stream,          \* FILE objects, among them the two below
          stdout, stderr,
          MaxItems         \* bound: items transferred on a stream since it was opened

ASSUME StreamAssumption == stdout \in Stream /\ stderr \in Stream /\ stdout # stderr
ASSUME ItemsAssumption == MaxItems \in Nat

VARIABLES open,    \* the streams the C library has open
          flags,   \* the streams whose __flag has _IOERR set
          moved,   \* items each stream has really transferred
          owned,   \* the streams the client has to close
          told,    \* items each stream has transferred, going by the results
          failed,  \* the failed transfers of each stream, going by the results
          errno,
          blame    \* the last failure since the client cleared errno, going by the results

vars == <<open, flags, moved, owned, told, failed, errno, blame>>

Standard == {stdout, stderr}

\* A failed transfer is a refused puts, which names no stream, or another.
Failure == [stream : Stream, by : {"refused_puts", "transfer"}]

TypeOK ==
  /\ open \subseteq Stream /\ owned \subseteq Stream
  /\ flags \subseteq open
  /\ failed \subseteq Failure /\ \A f \in failed : f.stream \in owned
  /\ moved \in [Stream -> 0..MaxItems] /\ told \in [Stream -> 0..MaxItems]
  /\ errno \in {"none", "ERANGE", "other"}
  /\ blame \in {"none", "refused", "failed"}

Init ==
  /\ open = Standard /\ owned = Standard
  /\ flags = {} /\ failed = {}
  /\ moved = [s \in Stream |-> 0] /\ told = [s \in Stream |-> 0]
  /\ errno = "none" /\ blame = "none"

\* A call ends: as the C library ends it, or refused.
Succeeds == UNCHANGED <<errno, blame>>
Fails == errno' = "other" /\ blame' = "failed"
Refused == errno' = "ERANGE" /\ blame' = "refused"

\* Fortify_AllowAllocate: any allocation may be refused.
io_succeeds == BOOLEAN

\* The failures of a stream are over: it was closed, rewound or cleared.
Forget(s) ==
  /\ flags' = flags \ {s}
  /\ failed' = {f \in failed : f.stream # s}

-----------------------------------------------------------------------------
(* Files are opened and closed. *)

pseudo_fopen(s) ==
  /\ s \notin open
  /\ \E allowed \in io_succeeds :
       \/ /\ allowed
          /\ open' = open \cup {s}
          /\ moved' = [moved EXCEPT ![s] = 0]
          /\ owned' = owned \cup {s}
          /\ told' = [told EXCEPT ![s] = 0]
          /\ Succeeds
       \/ /\ IF allowed THEN Fails ELSE Refused
          /\ UNCHANGED <<open, moved, owned, told>>
  /\ UNCHANGED <<flags, failed>>

\* Mutation: the gate first, and the file is closed only if it lets the call
\* through.
FcloseGated(s) ==
  /\ s \in owned \ Standard
  /\ \E allowed \in io_succeeds :
       /\ open' = IF allowed THEN open \ {s} ELSE open
       /\ flags' = IF allowed THEN flags \ {s} ELSE flags
       /\ IF allowed THEN Succeeds ELSE Refused
  /\ owned' = owned \ {s}
  /\ failed' = {f \in failed : f.stream # s}
  /\ UNCHANGED <<moved, told>>

\* The file is closed whatever the result, so it is no longer the client's.
pseudo_fclose(s) ==
  /\ s \in owned \ Standard
  /\ open' = open \ {s}
  /\ owned' = owned \ {s}
  /\ Forget(s)
  /\ \E allowed \in io_succeeds :
       \/ allowed /\ (Succeeds \/ Fails)
       \/ ~allowed /\ Refused
  /\ UNCHANGED <<moved, told>>

-----------------------------------------------------------------------------
(* Data is transferred: n items are asked for and k of them transferred. *)

\* The real function: a short transfer is an error of the stream, or the end
\* of the file when reading.  After a failed call that reports no count, which
\* is the C library's doing, the client is taken to count the stream anew.
Transfer(s, n, reading) ==
  \E k \in 0..n :
    /\ moved' = [moved EXCEPT ![s] = @ + k]
    /\ told' = [told EXCEPT ![s] = @ + k]
    /\ \/ (k = n \/ reading) /\ Succeeds /\ UNCHANGED <<flags, failed>>
       \/ /\ k < n
          /\ Fails
          /\ flags' = flags \cup {s}
          /\ failed' = failed \cup {[stream |-> s, by |-> "transfer"]}

\* Mutation: the stream does not show the failure.
RefuseUnflagged(s) ==
  /\ failed' = failed \cup {[stream |-> s, by |-> "transfer"]}
  /\ Refused
  /\ UNCHANGED <<flags, moved, told>>

\* Mutation: errno keeps its value.
RefuseWithoutErrno(s) ==
  /\ flags' = flags \cup {s}
  /\ failed' = failed \cup {[stream |-> s, by |-> "transfer"]}
  /\ blame' = "refused"
  /\ UNCHANGED <<moved, told, errno>>

\* A simulated failure: the error indicator and a result that says that nothing
\* was transferred.
Refuse(s) ==
  /\ flags' = flags \cup {s}
  /\ failed' = failed \cup {[stream |-> s, by |-> "transfer"]}
  /\ Refused
  /\ UNCHANGED <<moved, told>>

\* Mutation: the data is written before the gate is asked.
OutputFirst(s, n) ==
  /\ s \in owned
  /\ moved[s] + n <= MaxItems
  /\ \E allowed \in io_succeeds :
       \/ (s = stderr \/ allowed) /\ Transfer(s, n, FALSE)
       \/ /\ s # stderr /\ ~allowed
          /\ moved' = [moved EXCEPT ![s] = @ + n]
          /\ flags' = flags \cup {s}
          /\ failed' = failed \cup {[stream |-> s, by |-> "transfer"]}
          /\ Refused
          /\ UNCHANGED told
  /\ UNCHANGED <<open, owned>>

\* Output to stderr is never refused, so that the program under test can report
\* what went wrong.
Output(s, n) ==
  /\ s \in owned
  /\ moved[s] + n <= MaxItems
  /\ \E allowed \in io_succeeds :
       \/ (s = stderr \/ allowed) /\ Transfer(s, n, FALSE)
       \/ s # stderr /\ ~allowed /\ Refuse(s)
  /\ UNCHANGED <<open, owned>>

Input(s, n) ==
  /\ s \in owned
  /\ moved[s] + n <= MaxItems
  /\ \E allowed \in io_succeeds :
       \/ allowed /\ Transfer(s, n, TRUE)
       \/ ~allowed /\ Refuse(s)
  /\ UNCHANGED <<open, owned>>

pseudo_fwrite(s, n) == Output(s, n)
pseudo_fputs(s, n) == Output(s, n)
pseudo_fprintf(s, n) == Output(s, n)
pseudo_fputc(s) == Output(s, 1)
pseudo_fread(s, n) == Input(s, n)
pseudo_fgetc(s) == Input(s, 1)

\* To the standard output.  A refused puts sets no error indicator there, while a
\* real failure does.
pseudo_puts(n) ==
  /\ stdout \in owned
  /\ moved[stdout] + n <= MaxItems
  /\ \E allowed \in io_succeeds :
       \/ allowed /\ Transfer(stdout, n, FALSE)
       \/ /\ ~allowed
          /\ Refused
          /\ failed' = failed \cup {[stream |-> stdout, by |-> "refused_puts"]}
          /\ UNCHANGED <<flags, moved, told>>
  /\ UNCHANGED <<open, owned>>

-----------------------------------------------------------------------------
(* The other functions set no indicator of their own. *)

\* A real rewind also clears the error indicator.  It returns nothing: that it
\* was refused shows in errno only.
pseudo_rewind(s) ==
  /\ s \in owned
  /\ \E allowed \in io_succeeds :
       \/ allowed /\ Forget(s) /\ Succeeds
       \/ ~allowed /\ Refused /\ UNCHANGED <<flags, failed>>
  /\ UNCHANGED <<open, moved, owned, told>>

Positions(s) ==
  /\ s \in owned
  /\ \E allowed \in io_succeeds :
       \/ allowed /\ (Succeeds \/ Fails)
       \/ ~allowed /\ Refused
  /\ UNCHANGED <<open, flags, moved, owned, told, failed>>

pseudo_fseek(s) == Positions(s)
pseudo_ftell(s) == Positions(s)

\* The C library's own, not intercepted.
clearerr(s) ==
  /\ s \in owned
  /\ Forget(s)
  /\ UNCHANGED <<open, moved, owned, told, errno, blame>>

\* The client sets errno to 0 to see whether the calls that follow fail.
ClearErrno ==
  /\ errno' = "none" /\ blame' = "none"
  /\ UNCHANGED <<open, flags, moved, owned, told, failed>>

Next ==
  \/ ClearErrno
  \/ \E n \in 1..MaxItems : pseudo_puts(n)
  \/ \E s \in Stream :
       \/ pseudo_fopen(s) \/ pseudo_fclose(s) \/ clearerr(s)
       \/ pseudo_rewind(s) \/ pseudo_fseek(s) \/ pseudo_ftell(s)
       \/ pseudo_fputc(s) \/ pseudo_fgetc(s)
       \/ \E n \in 1..MaxItems :
            \/ pseudo_fwrite(s, n) \/ pseudo_fputs(s, n) \/ pseudo_fprintf(s, n)
            \/ pseudo_fread(s, n)

Spec == Init /\ [][Next]_vars

-----------------------------------------------------------------------------
(* Properties. *)

\* No file is leaked by a simulated failure, and none is closed behind the
\* client's back: the open streams are those the client has to close, although
\* an fclose that reports a failure must not be repeated (PseudoIO.c:119-120).
NoHandleLeak == open = owned

\* What a client that checks ferror only once learns: the error indicator of a
\* stream is set exactly if a transfer has failed on it since it was opened,
\* rewound or cleared, however many calls ago (PseudoIO.c:141).  The one failure
\* that ferror does not tell of is a refused puts (PseudoIO.c:193-196).
FailureSticks ==
  \A s \in Stream :
    s \in flags <=> \E f \in failed : f.stream = s /\ f.by # "refused_puts"

\* The results add up to what was transferred: a call that reports a simulated
\* failure can be repeated without duplicating or losing data.
ReportsExact == \A s \in owned : told[s] = moved[s]

\* A client that clears errno and looks at it after any number of calls finds
\* something there exactly if one of them has failed, and then what the last one
\* that failed left: ERANGE if it was refused (PseudoIO.c:142).  This is the only
\* way to learn of a refused rewind or, later, of a refused puts.
ErrnoExplained ==
  errno = CASE blame = "none" -> "none" [] blame = "refused" -> "ERANGE" [] blame = "failed" -> "other"
=============================================================================
