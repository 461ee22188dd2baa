-------------------------------- MODULE Debug --------------------------------
(***************************************************************************)
(* Debug.c: where debugging output goes.  The output mode can be changed   *)
(* at any time between two calls; a mode may own a log file or a session   *)
(* log, and three of the modes assemble lines in a static buffer, because  *)
(* Reporter and SysLog take whole lines.  The loop that does so calls them *)
(* once per iteration and is modelled step by step.  The C library's       *)
(* streams, SysLog and Reporter are external; any of them may fail to open *)
(* what it is asked for.                                                   *)
(***************************************************************************)
EXTENDS Naturals, Sequences, SequencesExt

CONSTANTS Char,         \* characters other than line feeds
          Name,         \* log names: pointers to strings
          FILE,         \* streams of the C library
          Handle,       \* handles of session logs
          NULL,         \* the null pointer, and 0 as a handle
          LineSize,     \* the size of line[], with its terminator
          FormatSize,   \* the size of formatted[], with its terminator
          Text,         \* what the program prints, expanded
          MaxFed        \* bound: characters formatted for line assembly

LF == "\n"
String == Seq(Char \cup {LF})

ASSUME LFAssumption == LF \notin Char
ASSUME BADAssumption == {"B", "A", "D", "."} \subseteq Char
ASSUME NULLAssumption == NULL \notin Name \cup FILE \cup Handle
ASSUME HandleAssumption == Name \cap Handle = {}
ASSUME SizesAssumption ==
  /\ LineSize \in Nat \ {0}
  /\ FormatSize \in Nat /\ FormatSize >= 4
  /\ MaxFed \in Nat
ASSUME TextAssumption == Text \subseteq String

FileModes == {"File", "FlushedFile"}
LineModes == {"Reporter", "SysLog", "SessionLog"}
DebugOutput == {"None", "StdOut", "StdErr", "SplitStdOut"} \cup FileModes \cup LineModes
DebugOutput_LAST == "LAST"

VARIABLES
  mode, log_file, syslog_handle, atexit_done,
  accumulated, line,   \* static: the line being assembled and its length
  readp,       \* the part of the formatted string not yet output
  call,        \* what is running, or what it does when readp is at the end
  files,       \* the C library: streams open
  buffered,    \* the C library: has the log file text that is not written?
  sessions,    \* SysLog: session logs open
  fed,         \* everything formatted for line assembly
  logged,      \* the lines passed to Reporter or SysLog
  reason,      \* of a failed assertion: its text, and the line it was added to
  written,     \* what a failed assertion has written to a stream
  status       \* "running", "exited" or "aborted"

outputs == <<mode, log_file, syslog_handle, atexit_done, files, sessions>>
assembly == <<accumulated, line, fed, logged>>
failure == <<reason, written>>
vars == <<outputs, buffered, assembly, readp, call, failure, status>>

TypeOK ==
  /\ mode \in DebugOutput
  /\ log_file \in FILE \cup {NULL}
  /\ syslog_handle \in Handle \cup Name \cup {NULL}
  /\ atexit_done \in BOOLEAN
  /\ accumulated \in 0..(LineSize - 1)
  /\ line \in Seq(Char)
  /\ readp \in String /\ fed \in String
  /\ call \in {"none", "printf", "printfl", "assert", "abort"}
  /\ files \subseteq FILE /\ sessions \subseteq Handle
  /\ buffered \in BOOLEAN
  /\ logged \in Seq(Seq(Char))
  /\ reason \in [text : String, before : Seq(Char)] /\ written \in String
  /\ status \in {"running", "exited", "aborted"}

Init ==
  /\ mode = "None" /\ log_file = NULL /\ syslog_handle = NULL /\ atexit_done = FALSE
  /\ accumulated = 0 /\ line = <<>>
  /\ readp = <<>> /\ call = "none"
  /\ files = {} /\ sessions = {} /\ buffered = FALSE
  /\ fed = <<>> /\ logged = <<>>
  /\ reason = [text |-> <<>>, before |-> <<>>] /\ written = <<>>
  /\ status = "running"

Idle == status = "running" /\ call = "none"

-----------------------------------------------------------------------------
(* The output mode. *)

\* Mutation: the log file is left open when the mode changes.
FilesLeft == files

\* What is open once the mode that ends has closed its log: a file, with its
\* buffer written, or a session, if SysLog knows the handle.
FilesClosed == IF mode \in FileModes THEN files \ {log_file} ELSE files
SessionsClosed == IF mode = "SessionLog" THEN sessions \ {syslog_handle} ELSE sessions
FileAfterClose == IF mode \in FileModes THEN NULL ELSE log_file

\* Mutation: the handle of a closed session is kept.
HandleKept == syslog_handle

HandleAfterClose == IF mode = "SessionLog" THEN NULL ELSE syslog_handle

\* Any file name too long for its buffer is taken for a file that cannot be
\* opened.  SysLog leaves the handle alone when it opens no session.
OpenFile ==
  /\ \/ \E f \in FILE \ FilesClosed : log_file' = f /\ files' = FilesClosed \cup {f}
     \/ log_file' = FileAfterClose /\ files' = FilesClosed
  /\ syslog_handle' = HandleAfterClose
  /\ sessions' = SessionsClosed

OpenSession ==
  /\ \/ \E h \in Handle \ SessionsClosed :
          syslog_handle' = h /\ sessions' = SessionsClosed \cup {h}
     \/ syslog_handle' = HandleAfterClose /\ sessions' = SessionsClosed
  /\ log_file' = FileAfterClose
  /\ files' = FilesClosed

OpenNothing(handle) ==
  /\ syslog_handle' = handle
  /\ log_file' = FileAfterClose
  /\ files' = FilesClosed
  /\ sessions' = SessionsClosed

SwitchTo(output_mode, log_name) ==
  /\ mode' = output_mode
  /\ atexit_done' = TRUE
  /\ buffered' = (buffered /\ mode \notin FileModes)
  /\ \/ output_mode \in FileModes /\ OpenFile
     \/ output_mode = "SessionLog" /\ OpenSession
     \/ output_mode = "SysLog" /\ OpenNothing(log_name)
     \/ output_mode \notin FileModes \cup {"SessionLog", "SysLog"} /\ OpenNothing(HandleAfterClose)

\* The program ends: _debug_at_exit, if it has been registered.
exit ==
  /\ Idle
  /\ status' = "exited"
  /\ \/ atexit_done /\ mode # "None" /\ \E n \in Name : SwitchTo("None", n)
     \/ ~(atexit_done /\ mode # "None") /\ UNCHANGED <<outputs, buffered>>
  /\ UNCHANGED <<assembly, readp, call, failure>>

-----------------------------------------------------------------------------
(* Output. *)

\* What vsnprintf leaves in formatted[]: "BAD" if it fails, and the end of a
\* string that does not fit is replaced.
Formatted(t) ==
  {<<"B", "A", "D">>,
   IF Len(t) >= FormatSize THEN SubSeq(t, 1, FormatSize - 4) \o <<".", ".", ".">> ELSE t}

\* debug_vprintf is entered with a string: only the modes that assemble lines
\* format it into the buffer.
Enter(t) ==
  IF mode \in LineModes
  THEN \E f \in Formatted(t) : readp' = f /\ fed' = fed \o f
  ELSE readp' = t /\ UNCHANGED fed

Begin(t, function) ==
  /\ Idle
  /\ Len(fed) + FormatSize <= MaxFed
  /\ call' = function
  /\ Enter(t)
  /\ UNCHANGED <<outputs, buffered, accumulated, line, logged, written, status>>

debug_printf(t) == Begin(t, "printf") /\ UNCHANGED reason
debug_printfl(t) == Begin(t, "printfl") /\ UNCHANGED reason

\* An assertion of the program fails: its text is printed as by debug_printfl,
\* and then abort is called, which runs no exit handlers.
assert(t) ==
  /\ LF \notin ToSet(t)
  /\ Begin(t, "assert")
  /\ reason' = [text |-> t, before |-> line]

\* The same mode again changes nothing, not even the log name.
debug_set_output(output_mode, log_name) ==
  \/ /\ output_mode = DebugOutput_LAST \/ log_name = NULL
     /\ \E t \in Text : assert(t)
  \/ /\ output_mode # DebugOutput_LAST /\ log_name # NULL
     /\ Idle
     /\ mode # output_mode
     /\ SwitchTo(output_mode, log_name)
     /\ UNCHANGED <<assembly, readp, call, failure, status>>

\* Nobody is told anything: there is no log file, in a mode that needs one.
Silent == mode = "None" \/ (mode \in FileModes /\ log_file = NULL)

\* The modes without line assembly: all of the string goes out at once, to a
\* file only if there is one, and stays in its buffer unless that is flushed.
WriteStream ==
  /\ status = "running" /\ readp # <<>>
  /\ mode \notin LineModes
  /\ readp' = <<>>
  /\ buffered' = (mode = "File" /\ log_file # NULL)
  /\ written' = IF call \in {"assert", "abort"} /\ ~Silent THEN written \o readp ELSE written
  /\ UNCHANGED <<outputs, assembly, call, reason, status>>

-----------------------------------------------------------------------------
(* The line buffer. *)

Least(m, n) == IF m < n THEN m ELSE n

\* The length of the string up to the next line feed, or all of it.
HasEol == LF \in ToSet(readp)

Eol == CHOOSE i \in DOMAIN readp : readp[i] = LF /\ \A j \in 1..(i - 1) : readp[j] # LF
ChunkLen == IF HasEol THEN Eol - 1 ELSE Len(readp)

\* Mutation: what fits in an empty buffer.
CopiedToEmpty == Least(LineSize - 1, ChunkLen)

\* What fits in the buffer beside its terminator and the text already there.
Copied == Least(LineSize - 1 - accumulated, ChunkLen)
Extended == line \o SubSeq(readp, 1, Copied)

\* Mutation: only a line feed advances the read pointer.
RestAfterEol == IF HasEol THEN SubSeq(readp, ChunkLen + 2, Len(readp)) ELSE readp

\* What is left after the chunk and the line feed at its end.
Rest == SubSeq(readp, ChunkLen + (IF HasEol THEN 2 ELSE 1), Len(readp))

\* One iteration of the loop.  The line is passed on at a line feed, and the
\* rest of one that is too long is discarded.
AssembleLine ==
  /\ status = "running" /\ readp # <<>>
  /\ mode \in LineModes
  /\ \/ /\ ~HasEol
        /\ line' = Extended
        /\ accumulated' = accumulated + Copied
        /\ UNCHANGED logged
     \/ /\ HasEol
        /\ logged' = Append(logged, Extended)
        /\ line' = <<>>
        /\ accumulated' = 0
  /\ readp' = Rest
  /\ UNCHANGED <<outputs, buffered, fed, call, failure, status>>

-----------------------------------------------------------------------------

\* Mutation: the text is printed by debug_printf alone.
EnterNothing == readp' = <<>> /\ UNCHANGED fed

\* debug_printf("\n"), which cannot fail to be formatted.
EnterLineFeed ==
  /\ readp' = <<LF>>
  /\ fed' = IF mode \in LineModes THEN Append(fed, LF) ELSE fed

\* The string is out: debug_printfl prints a line feed next, an assertion one
\* as well before it calls abort, which writes no buffer.
Return ==
  /\ status = "running" /\ call # "none" /\ readp = <<>>
  /\ \/ call = "printf" /\ call' = "none" /\ UNCHANGED <<readp, fed, status>>
     \/ call = "printfl" /\ call' = "printf" /\ EnterLineFeed /\ UNCHANGED status
     \/ call = "assert" /\ call' = "abort" /\ EnterLineFeed /\ UNCHANGED status
     \/ call = "abort" /\ call' = "none" /\ status' = "aborted" /\ UNCHANGED <<readp, fed>>
  /\ UNCHANGED <<outputs, buffered, accumulated, line, logged, failure>>

\* The thread inside a call.
Step == WriteStream \/ AssembleLine \/ Return

Next ==
  \/ \E m \in DebugOutput \cup {DebugOutput_LAST}, n \in Name \cup {NULL} :
       debug_set_output(m, n)
  \/ exit
  \/ \E t \in Text : debug_printf(t) \/ debug_printfl(t) \/ assert(t)
  \/ Step

\* A thread inside a call of the library goes on running.
Spec == Init /\ [][Next]_vars /\ WF_vars(Step)

-----------------------------------------------------------------------------
(* Properties. *)

\* Text split into lines one character at a time, each cut to what the buffer
\* holds, and the line that is not yet complete.
NextChar(r, c) ==
  IF c = LF THEN [lines |-> Append(r.lines, r.last), last |-> <<>>]
  ELSE IF Len(r.last) < LineSize - 1 THEN [lines |-> r.lines, last |-> Append(r.last, c)]
  ELSE r

NoLines == [lines |-> <<>>, last |-> <<>>]

Split(t) ==
  LET split[n \in Nat] == IF n = 0 THEN NoLines ELSE NextChar(split[n - 1], t[n])
  IN split[Len(t)]

Consumed == IF mode \in LineModes THEN SubSeq(fed, 1, Len(fed) - Len(readp)) ELSE fed

\* However the text is divided between calls and modes, the lines passed to
\* Reporter and SysLog are the text that was formatted, split at its line feeds
\* and cut to the buffer ("discarding the end of overlong lines", Debug.c:316),
\* and the count of the line buffer is the length of what is in it.
LinesFaithful ==
  /\ Split(Consumed) = [lines |-> logged, last |-> line]
  /\ accumulated = Len(line)

\* A mode's log file or session log is open only while that mode lasts, there is
\* never another, and none is open after exit ("to ensure that any open session
\* log or file is closed", Debug.c:105).
NothingLeftOpen ==
  /\ files = {log_file} \ {NULL}
  /\ files # {} => mode \in FileModes
  /\ sessions # {} => mode = "SessionLog" /\ sessions = {syslog_handle}
  /\ status = "exited" => files = {} /\ sessions = {}

\* The handle of a session that has been closed is never passed to SysLog again:
\* if no session could be opened the handle is null, or the log name that an
\* earlier SysLog mode left in it, which the code does not reset.
NoStaleSession ==
  mode = "SessionLog" => syslog_handle \in sessions \cup Name \cup {NULL}

\* A line cut to what the buffer holds, and what a stream is given of a text.
Cut(s) == SubSeq(s, 1, Least(LineSize - 1, Len(s)))
Sent(s) == IF Silent THEN <<>> ELSE s

\* How much of the reason of a failed assertion is out when it ends the program
\* ("to ensure that the reason for any assertion failure is properly logged",
\* Debug.h:48-49).  In the modes that assemble lines the last line passed on is the
\* one the reason was added to, so it is out as far as that has room for it, and
\* nothing waits for a line feed; a stream has all of it, with its line feed, in the
\* buffer of the log file in that mode only ("may lose data in crash", Debug.h:144);
\* with no output mode or no log file it goes nowhere.
ReasonOut ==
  status = "aborted" =>
    /\ mode \in LineModes =>
         /\ line = <<>> /\ logged # <<>>
         /\ \E f \in Formatted(reason.text) : Last(logged) = Cut(reason.before \o f)
    /\ mode \notin LineModes => written = Sent(Append(reason.text, LF))
    /\ buffered <=> mode = "File" /\ log_file # NULL

\* Every call of an output function returns, or ends the program.
OutputReturns == call # "none" ~> call = "none"
=============================================================================
