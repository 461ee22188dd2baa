---------------------------- MODULE DebugProofs ----------------------------
(***************************************************************************)
(* What is proved of Debug for every text, every buffer size and any       *)
(* number of streams and handles.                                          *)
(***************************************************************************)
EXTENDS Debug, ListFacts

\* The line buffer's count is the length of what is in it.
Counted == accumulated = Len(line)

\* The exit handler is missing only while no mode has been set, so a program
\* that has ended has closed its mode.
HandlerInstalled ==
  /\ ~atexit_done => mode = "None"
  /\ status = "exited" => mode = "None"

\* What a mode has open; NothingLeftOpen follows with HandlerInstalled.
Opened ==
  /\ files = {log_file} \ {NULL}
  /\ files # {} => mode \in FileModes
  /\ sessions # {} => mode = "SessionLog" /\ sessions = {syslog_handle}

\* The handle is that of an open session in every mode, or not one at all.
HandleKnown == syslog_handle \in sessions \cup Name \cup {NULL}

\* Only the mode of the buffered log file leaves text in a buffer.
BufferKnown == buffered => mode = "File"

OutputInv == Opened /\ HandlerInstalled /\ HandleKnown /\ BufferKnown
IInv == TypeOK /\ Counted /\ OutputInv

LEMMA InitInv == Init => IInv
<1> SUFFICES ASSUME Init PROVE IInv
  OBVIOUS
<1>1. /\ <<>> \in Seq(Char) /\ <<>> \in String /\ <<>> \in Seq(Seq(Char))
      /\ 0 \in 0..(LineSize - 1)
  BY SizesAssumption DEF String
<1>2. TypeOK
  BY <1>1 DEF Init, TypeOK, DebugOutput
<1>3. Counted /\ OutputInv
  BY DEF Init, Counted, OutputInv, Opened, HandlerInstalled, HandleKnown, BufferKnown
<1>4. QED
  BY <1>2, <1>3 DEF IInv

-----------------------------------------------------------------------------
(* The output mode. *)

\* Once the old mode has closed its log nothing is open, and the handle left is
\* a log name or null.
LEMMA ClosedFacts ==
  ASSUME IInv
  PROVE  /\ FilesClosed = {} /\ SessionsClosed = {}
         /\ FileAfterClose = NULL
         /\ HandleAfterClose \in Name \cup {NULL}
<1>1. FilesClosed = {} /\ FileAfterClose = NULL
  <2>1. CASE mode \in FileModes
    BY <2>1 DEF IInv, OutputInv, Opened, FilesClosed, FileAfterClose
  <2>2. CASE mode \notin FileModes
    BY <2>2 DEF IInv, OutputInv, Opened, FilesClosed, FileAfterClose
  <2>3. QED
    BY <2>1, <2>2
<1>2. SessionsClosed = {} /\ HandleAfterClose \in Name \cup {NULL}
  BY DEF IInv, OutputInv, Opened, HandleKnown, SessionsClosed, HandleAfterClose
<1>3. QED
  BY <1>1, <1>2

LEMMA SwitchFacts ==
  ASSUME IInv, NEW m \in DebugOutput, NEW n \in Name, SwitchTo(m, n)
  PROVE  /\ mode' = m /\ atexit_done' = TRUE /\ buffered' = FALSE
         /\ log_file' \in FILE \cup {NULL} /\ files' \subseteq FILE
         /\ syslog_handle' \in Handle \cup Name \cup {NULL} /\ sessions' \subseteq Handle
         /\ Opened' /\ HandleKnown'
<1>1. /\ FilesClosed = {} /\ SessionsClosed = {} /\ FileAfterClose = NULL
      /\ HandleAfterClose \in Name \cup {NULL}
  BY ClosedFacts
<1>2. mode' = m /\ atexit_done' = TRUE /\ buffered' = FALSE
  BY DEF SwitchTo, FileModes, IInv, OutputInv, BufferKnown
<1>3. CASE m \in FileModes /\ OpenFile
  <2>1. /\ syslog_handle' = HandleAfterClose /\ sessions' = {}
        /\ \/ \E f \in FILE : log_file' = f /\ files' = {f}
           \/ log_file' = NULL /\ files' = {}
    BY <1>1, <1>3 DEF OpenFile
  <2>2. QED
    BY <1>1, <1>2, <1>3, <2>1, NULLAssumption DEF Opened, HandleKnown
<1>4. CASE m = "SessionLog" /\ OpenSession
  <2>1. /\ log_file' = NULL /\ files' = {}
        /\ \/ \E h \in Handle : syslog_handle' = h /\ sessions' = {h}
           \/ syslog_handle' = HandleAfterClose /\ sessions' = {}
    BY <1>1, <1>4 DEF OpenSession
  <2>2. QED
    BY <1>1, <1>2, <1>4, <2>1 DEF Opened, HandleKnown
<1>5. CASE \E h \in Name \cup {NULL} : OpenNothing(h)
  BY <1>1, <1>2, <1>5 DEF OpenNothing, Opened, HandleKnown
<1>6. QED
  BY <1>1, <1>3, <1>4, <1>5 DEF SwitchTo

LEMMA SetOutputInv ==
  ASSUME IInv, NEW m \in DebugOutput, NEW n \in Name, SwitchTo(m, n), Idle,
         UNCHANGED <<assembly, readp, call, failure, status>>
  PROVE  IInv'
<1>1. /\ call = "none" /\ status = "running"
      /\ UNCHANGED <<assembly, readp, call, failure, status>>
  BY DEF Idle
<1>2. TypeOK'
  BY <1>1, SwitchFacts DEF IInv, TypeOK, assembly, failure
<1>3. Counted'
  BY <1>1 DEF IInv, Counted, assembly
<1>4. OutputInv'
  BY <1>1, SwitchFacts DEF OutputInv, HandlerInstalled, BufferKnown
<1>5. QED
  BY <1>2, <1>3, <1>4 DEF IInv

LEMMA ExitInv ==
  ASSUME IInv, exit
  PROVE  IInv'
<1>1. /\ call = "none" /\ status' = "exited"
      /\ UNCHANGED <<assembly, readp, call, failure>>
  BY DEF exit, Idle
<1>2. CASE atexit_done /\ mode # "None" /\ \E n \in Name : SwitchTo("None", n)
  <2>1. PICK n \in Name : SwitchTo("None", n)
    BY <1>2
  <2>2. "None" \in DebugOutput
    BY DEF DebugOutput
  <2>3. TypeOK'
    BY <1>1, <2>1, <2>2, SwitchFacts DEF IInv, TypeOK, assembly, failure
  <2>4. OutputInv'
    BY <1>1, <2>1, <2>2, SwitchFacts DEF OutputInv, HandlerInstalled, BufferKnown
  <2>5. Counted'
    BY <1>1 DEF IInv, Counted, assembly
  <2>6. QED
    BY <2>3, <2>4, <2>5 DEF IInv
<1>3. CASE ~(atexit_done /\ mode # "None") /\ UNCHANGED <<outputs, buffered>>
  BY <1>1, <1>3
     DEF IInv, TypeOK, Counted, OutputInv, Opened, HandlerInstalled, HandleKnown,
         BufferKnown, outputs, assembly, failure
<1>4. QED
  BY <1>2, <1>3 DEF exit


-----------------------------------------------------------------------------
(* The line buffer. *)

\* The first line feed is where a search from the front finds it.
LEMMA EolFacts ==
  ASSUME readp \in String, HasEol
  PROVE  /\ Eol \in 1..Len(readp)
         /\ readp[Eol] = LF
         /\ \A j \in 1..(Eol - 1) : readp[j] # LF
<1> DEFINE S == {i \in 1..Len(readp) : readp[i] = LF}
<1>1. Len(readp) \in Nat /\ DOMAIN readp = 1..Len(readp)
  BY LenProperties DEF String
<1>2. S \subseteq 1..Len(readp) /\ S # {}
  BY <1>1 DEF HasEol, ToSet
<1>3. PICK i \in S : \A j \in 1..(i - 1) : j \notin S
  <2> HIDE DEF S
  <2>1. QED
    BY <1>1, <1>2, FirstPlace
<1>4. ASSUME NEW j \in 1..(i - 1) PROVE readp[j] # LF
  BY <1>1, <1>3
<1>5. \E k \in DOMAIN readp : readp[k] = LF /\ \A j \in 1..(k - 1) : readp[j] # LF
  BY <1>1, <1>3, <1>4
<1>6. QED
  BY <1>1, <1>5 DEF Eol

\* The chunk before the first line feed holds no line feed.
LEMMA ChunkFacts ==
  ASSUME readp \in String
  PROVE  /\ ChunkLen \in 0..Len(readp)
         /\ HasEol => ChunkLen + 1 <= Len(readp) /\ readp[ChunkLen + 1] = LF
         /\ \A j \in 1..ChunkLen : readp[j] \in Char
<1>1. /\ Len(readp) \in Nat /\ DOMAIN readp = 1..Len(readp)
      /\ \A j \in 1..Len(readp) : readp[j] \in Char \cup {LF}
  BY LenProperties, ElementOfSeq DEF String
<1>2. CASE HasEol
  <2>1. ChunkLen = Eol - 1
    BY <1>2 DEF ChunkLen
  <2>2. /\ Eol \in 1..Len(readp) /\ readp[Eol] = LF
        /\ \A j \in 1..(Eol - 1) : readp[j] # LF
    BY <1>2, EolFacts
  <2>3. QED
    BY <1>1, <2>1, <2>2
<1>3. CASE ~HasEol
  <2>1. ChunkLen = Len(readp)
    BY <1>3 DEF ChunkLen
  <2>2. \A j \in 1..Len(readp) : readp[j] # LF
    BY <1>1, <1>3 DEF HasEol, ToSet
  <2>3. QED
    BY <1>1, <1>3, <2>1, <2>2
<1>4. QED
  BY <1>2, <1>3

\* What is copied fits in the buffer beside its terminator.
LEMMA CopiedFacts ==
  ASSUME IInv
  PROVE  /\ Copied \in 0..ChunkLen
         /\ accumulated + Copied \in 0..(LineSize - 1)
         /\ Extended \in Seq(Char)
         /\ Len(Extended) = accumulated + Copied
<1>1. /\ readp \in String /\ line \in Seq(Char)
      /\ accumulated \in 0..(LineSize - 1) /\ accumulated = Len(line)
      /\ LineSize \in Nat \ {0}
  BY SizesAssumption DEF IInv, TypeOK, Counted
<1>2. /\ ChunkLen \in 0..Len(readp) /\ Len(readp) \in Nat
      /\ \A j \in 1..ChunkLen : readp[j] \in Char
  BY <1>1, ChunkFacts, LenProperties DEF String
<1>3. Copied \in 0..ChunkLen /\ accumulated + Copied \in 0..(LineSize - 1)
  BY <1>1, <1>2 DEF Copied, Least
<1>4. /\ SubSeq(readp, 1, Copied) \in Seq(Char)
      /\ Len(SubSeq(readp, 1, Copied)) = Copied
  BY <1>2, <1>3, SubSeqProperties
<1>5. Extended \in Seq(Char) /\ Len(Extended) = accumulated + Copied
  BY <1>1, <1>4, ConcatProperties DEF Extended
<1>6. QED
  BY <1>3, <1>5

\* The rest of the string is shorter, and nothing when there was one character.
LEMMA RestFacts ==
  ASSUME readp \in String, readp # <<>>
  PROVE  /\ Rest \in String
         /\ readp = <<LF>> => HasEol /\ Rest = <<>>
<1>1. Len(readp) \in Nat \ {0} /\ DOMAIN readp = 1..Len(readp)
  BY LenProperties, EmptySeq DEF String
<1>2. ChunkLen \in 0..Len(readp) /\ (HasEol => ChunkLen + 1 <= Len(readp))
  BY ChunkFacts
<1>3. Rest \in String
  BY <1>1, <1>2, SubSeqProperties DEF Rest, String
<1>4. ASSUME readp = <<LF>>
      PROVE  HasEol /\ Rest = <<>>
  <2>1. HasEol /\ Len(readp) = 1
    BY <1>4 DEF HasEol, ToSet
  <2>2. ChunkLen = 0
    BY <1>1, <1>2, <2>1
  <2>3. Rest = SubSeq(readp, 2, 1)
    BY <2>1, <2>2 DEF Rest
  <2>4. QED
    BY <1>1, <2>1, <2>3, SubSeqProperties DEF String
<1>5. QED
  BY <1>3, <1>4

LEMMA AssembleLineInv ==
  ASSUME IInv, AssembleLine
  PROVE  IInv'
<1>1. /\ status = "running" /\ readp # <<>> /\ mode \in LineModes
      /\ readp' = Rest
      /\ UNCHANGED <<outputs, buffered, fed, call, failure, status>>
  BY DEF AssembleLine
<1>2. readp \in String /\ readp' \in String
  BY <1>1, RestFacts DEF IInv, TypeOK
<1>3. /\ line' \in Seq(Char) /\ logged' \in Seq(Seq(Char))
      /\ accumulated' \in 0..(LineSize - 1) /\ accumulated' = Len(line')
  <2>1. CASE ~HasEol
    <3>1. line' = Extended /\ accumulated' = accumulated + Copied /\ logged' = logged
      BY <2>1 DEF AssembleLine
    <3>2. QED
      BY <3>1, CopiedFacts DEF IInv, TypeOK
  <2>2. CASE HasEol
    <3>1. /\ line' = <<>> /\ accumulated' = 0 /\ logged' = Append(logged, Extended)
      BY <2>2 DEF AssembleLine
    <3>2. logged \in Seq(Seq(Char)) /\ Extended \in Seq(Char)
      BY CopiedFacts DEF IInv, TypeOK
    <3>3. QED
      BY <3>1, <3>2, AppendProperties, SizesAssumption
  <2>3. QED
    BY <2>1, <2>2
<1>4. TypeOK' /\ Counted'
  BY <1>1, <1>2, <1>3 DEF IInv, TypeOK, Counted, outputs, failure
<1>5. OutputInv'
  BY <1>1 DEF IInv, OutputInv, Opened, HandlerInstalled, HandleKnown, BufferKnown, outputs
<1>6. QED
  BY <1>4, <1>5 DEF IInv


-----------------------------------------------------------------------------
(* The calls of the program. *)

\* What vsnprintf leaves in the buffer is a string.
LEMMA FormattedFacts ==
  ASSUME NEW t \in String, NEW f \in Formatted(t)
  PROVE  f \in String
<1>1. {"B", "A", "D", "."} \subseteq Char \cup {LF}
  BY BADAssumption
<1>2. CASE f = <<"B", "A", "D">>
  BY <1>1, <1>2 DEF String
<1>3. CASE Len(t) >= FormatSize /\ f = SubSeq(t, 1, FormatSize - 4) \o <<".", ".", ".">>
  <2>1. SubSeq(t, 1, FormatSize - 4) \in Seq(Char \cup {LF})
    <3>1. \A i \in 1..(FormatSize - 4) : t[i] \in Char \cup {LF}
      BY <1>3, SizesAssumption, LenProperties, ElementOfSeq DEF String
    <3>2. QED
      BY <3>1, SizesAssumption, SubSeqProperties
  <2>2. <<".", ".", ".">> \in Seq(Char \cup {LF})
    BY <1>1
  <2>3. QED
    BY <1>3, <2>1, <2>2, ConcatProperties DEF String
<1>4. QED
  BY <1>2, <1>3 DEF Formatted

LEMMA BeginInv ==
  ASSUME IInv, NEW t \in Text, NEW f \in {"printf", "printfl", "assert"}, Begin(t, f),
         UNCHANGED reason \/ reason' = [text |-> t, before |-> line]
  PROVE  IInv'
<1>1. /\ call = "none" /\ status = "running" /\ call' = f
      /\ UNCHANGED <<outputs, buffered, accumulated, line, logged, written, status>>
  BY DEF Begin, Idle
<1>2. t \in String /\ fed \in String
  BY TextAssumption DEF IInv, TypeOK
<1>3. readp' \in String /\ fed' \in String
  <2>1. ASSUME NEW g \in Formatted(t)
        PROVE  g \in String /\ fed \o g \in String
    BY <1>2, <2>1, FormattedFacts, ConcatProperties DEF String
  <2>2. QED
    BY <1>2, <2>1 DEF Begin, Enter
<1>4. TypeOK'
  BY <1>1, <1>2, <1>3 DEF IInv, TypeOK, outputs
<1>5. OutputInv'
  BY <1>1 DEF IInv, OutputInv, Opened, HandlerInstalled, HandleKnown, BufferKnown, outputs
<1>6. Counted'
  BY <1>1 DEF IInv, Counted
<1>7. QED
  BY <1>4, <1>5, <1>6 DEF IInv

LEMMA AssertInv ==
  ASSUME IInv, NEW t \in Text, assert(t)
  PROVE  IInv'
  BY BeginInv DEF assert

LEMMA WriteStreamInv ==
  ASSUME IInv, WriteStream
  PROVE  IInv'
<1>1. /\ mode \notin LineModes /\ status = "running" /\ readp' = <<>>
      /\ (buffered' => mode = "File")
      /\ UNCHANGED <<outputs, assembly, call, reason, status>>
      /\ buffered' \in BOOLEAN
  BY DEF WriteStream
<1>2. readp' \in String
  BY <1>1 DEF String
<1>3. written' \in String
  BY ConcatProperties DEF WriteStream, IInv, TypeOK, String
<1>4. TypeOK'
  BY <1>1, <1>2, <1>3 DEF IInv, TypeOK, outputs, assembly
<1>5. OutputInv'
  BY <1>1 DEF IInv, OutputInv, Opened, HandlerInstalled, HandleKnown, BufferKnown, outputs
<1>6. Counted'
  BY <1>1 DEF IInv, Counted, outputs, assembly
<1>7. QED
  BY <1>4, <1>5, <1>6 DEF IInv

LEMMA ReturnInv ==
  ASSUME IInv, Return
  PROVE  IInv'
<1>1. /\ status = "running" /\ readp = <<>>
      /\ UNCHANGED <<outputs, buffered, accumulated, line, logged, failure>>
  BY DEF Return
<1>2. /\ readp' \in String /\ fed' \in String
      /\ call' \in {"none", "printf", "printfl", "assert", "abort"}
      /\ status' \in {"running", "aborted"}
  <2>1. <<LF>> \in String /\ readp \in String /\ fed \in String
    BY DEF String, IInv, TypeOK
  <2>2. Append(fed, LF) \in String
    BY <2>1, AppendProperties DEF String
  <2>3. QED
    BY <1>1, <2>1, <2>2 DEF Return, EnterLineFeed
<1>3. TypeOK' /\ Counted'
  BY <1>1, <1>2 DEF IInv, TypeOK, Counted, outputs, failure
<1>4. OutputInv'
  BY <1>1, <1>2
  DEF IInv, OutputInv, Opened, HandlerInstalled, HandleKnown, BufferKnown, outputs
<1>5. QED
  BY <1>3, <1>4 DEF IInv

\* debug_set_output either asserts or changes the mode.
LEMMA SetOutputCases ==
  ASSUME NEW m \in DebugOutput \cup {DebugOutput_LAST}, NEW n \in Name \cup {NULL},
         debug_set_output(m, n)
  PROVE  \/ \E t \in Text : assert(t)
         \/ /\ m \in DebugOutput /\ n \in Name /\ SwitchTo(m, n) /\ Idle
            /\ UNCHANGED <<assembly, readp, call, failure, status>>
  BY DEF debug_set_output

LEMMA NextInv == IInv /\ [Next]_vars => IInv'
<1> SUFFICES ASSUME IInv, [Next]_vars PROVE IInv'
  OBVIOUS
<1>1. ASSUME NEW m \in DebugOutput \cup {DebugOutput_LAST}, NEW n \in Name \cup {NULL},
             debug_set_output(m, n)
      PROVE  IInv'
  BY <1>1, SetOutputCases, SetOutputInv, AssertInv
<1>2. CASE exit
  BY <1>2, ExitInv
<1>3. ASSUME NEW t \in Text, debug_printf(t) \/ debug_printfl(t) \/ assert(t)
      PROVE  IInv'
  BY <1>3, BeginInv, AssertInv DEF debug_printf, debug_printfl
<1>4. CASE Step
  BY <1>4, WriteStreamInv, AssembleLineInv, ReturnInv DEF Step
<1>5. CASE UNCHANGED vars
  BY <1>5 DEF vars, outputs, assembly, failure, IInv, TypeOK, Counted, OutputInv, Opened,
              HandlerInstalled, HandleKnown, BufferKnown
<1>6. QED
  BY <1>1, <1>2, <1>3, <1>4, <1>5 DEF Next

LEMMA SpecInv == Spec => []IInv
  BY InitInv, NextInv, PTL DEF Spec

-----------------------------------------------------------------------------

\* The line being assembled, with its terminator, never leaves its buffer and
\* the count that bounds every copy is its length, for any buffer, any text and
\* any division of it between calls and modes (Debug.c:316-331).
THEOREM LineBufferSound == Spec => [](TypeOK /\ Counted)
<1>1. IInv => TypeOK /\ Counted
  BY DEF IInv
<1>2. QED
  BY SpecInv, <1>1, PTL

\* A log file or session log is open only while its mode lasts and none is open
\* after exit (Debug.c:105-115), whatever fails to open.
THEOREM AlwaysClosed == Spec => []NothingLeftOpen
<1>1. IInv => NothingLeftOpen
  BY DEF IInv, OutputInv, Opened, HandlerInstalled, NothingLeftOpen, FileModes
<1>2. QED
  BY SpecInv, <1>1, PTL

\* No closed session is written to again (Debug.c:186).
THEOREM NeverStaleSession == Spec => []NoStaleSession
<1>1. IInv => NoStaleSession
  BY DEF IInv, OutputInv, HandleKnown, NoStaleSession
<1>2. QED
  BY SpecInv, <1>1, PTL

-----------------------------------------------------------------------------
(* Splitting a text is a recursion over its length.  That the recursive      *)
(* function is what it is declared to be follows from the well-ordering.     *)

\* The values of a splitting of t, as far as place n.
SplitsTo(g, t, n) ==
  /\ g[0] = NoLines
  /\ \A i \in 1..n : g[i] = NextChar(g[i - 1], t[i])

LEMMA SplitsToExists ==
  ASSUME NEW t, NEW n \in Nat
  PROVE  \E g : SplitsTo(g, t, n)
<1> DEFINE S == {m \in Nat : ~\E g : SplitsTo(g, t, m)}
<1>1. SUFFICES ASSUME S # {} PROVE FALSE
  OBVIOUS
<1>2. S \subseteq Nat
  OBVIOUS
<1>3. PICK m \in S : \A k \in S : m <= k
  <2> HIDE DEF S
  <2>1. QED
    BY <1>1, <1>2, LeastNatural
<1>4. m \in Nat /\ ~\E g : SplitsTo(g, t, m)
  BY <1>3
<1>5. CASE m = 0
  <2>1. SplitsTo([i \in {0} |-> NoLines], t, m)
    BY <1>5 DEF SplitsTo
  <2>2. QED
    BY <1>4, <2>1
<1>6. CASE m # 0
  <2>1. m - 1 \in Nat /\ m - 1 \notin S
    BY <1>3, <1>4, <1>6
  <2>2. PICK g : SplitsTo(g, t, m - 1)
    BY <2>1
  <2> DEFINE h == [i \in 0..m |-> IF i = m THEN NextChar(g[m - 1], t[m]) ELSE g[i]]
  <2>3. h[0] = NoLines
    BY <1>4, <1>6, <2>2 DEF SplitsTo
  <2>4. ASSUME NEW i \in 1..m
        PROVE  h[i] = NextChar(h[i - 1], t[i])
    <3>1. h[i - 1] = g[i - 1]
      BY <1>4, <2>4
    <3>2. CASE i = m
      BY <1>4, <1>6, <3>1, <3>2
    <3>3. CASE i # m
      <4>1. i \in 1..(m - 1) /\ h[i] = g[i]
        BY <1>4, <3>3
      <4>2. QED
        BY <2>2, <3>1, <4>1 DEF SplitsTo
    <3>4. QED
      BY <3>2, <3>3
  <2> HIDE DEF h
  <2>5. SplitsTo(h, t, m)
    BY <2>3, <2>4 DEF SplitsTo
  <2>6. QED
    BY <1>4, <2>5
<1>7. QED
  BY <1>5, <1>6

\* Two texts that begin alike are split alike so far.
LEMMA SplitsToUnique ==
  ASSUME NEW g, NEW h, NEW t, NEW u, NEW n \in Nat,
         SplitsTo(g, t, n), SplitsTo(h, u, n),
         \A i \in 1..n : t[i] = u[i]
  PROVE  \A i \in 0..n : g[i] = h[i]
<1> DEFINE S == {i \in 0..n : g[i] # h[i]}
<1>1. SUFFICES ASSUME S # {} PROVE FALSE
  OBVIOUS
<1>2. S \subseteq Nat
  OBVIOUS
<1>3. PICK m \in S : \A k \in S : m <= k
  <2> HIDE DEF S
  <2>1. QED
    BY <1>1, <1>2, LeastNatural
<1>4. m \in 0..n /\ g[m] # h[m]
  BY <1>3
<1>5. m # 0
  BY <1>4 DEF SplitsTo
<1>6. m - 1 \in 0..n /\ m - 1 \notin S /\ m \in 1..n
  BY <1>3, <1>4, <1>5
<1>7. g[m - 1] = h[m - 1]
  BY <1>6
<1>8. g[m] = NextChar(g[m - 1], t[m]) /\ h[m] = NextChar(h[m - 1], u[m]) /\ t[m] = u[m]
  BY <1>6 DEF SplitsTo
<1>9. QED
  BY <1>4, <1>7, <1>8

\* The recursive function in Split has the values it is declared to have.
LEMMA SplitIsLast ==
  ASSUME NEW t, Len(t) \in Nat
  PROVE  \E g : SplitsTo(g, t, Len(t)) /\ Split(t) = g[Len(t)]
<1> DEFINE Values(f) == f = [n \in Nat |-> IF n = 0 THEN NoLines ELSE NextChar(f[n - 1], t[n])]
           some(n) == CHOOSE g : SplitsTo(g, t, n)
           f0 == [n \in Nat |-> some(n)[n]]
<1>1. \A n \in Nat : SplitsTo(some(n), t, n)
  BY SplitsToExists
<1>2. \A n \in Nat : f0[n] = some(n)[n]
  OBVIOUS
<1>3. ASSUME NEW n \in Nat
      PROVE  f0[n] = IF n = 0 THEN NoLines ELSE NextChar(f0[n - 1], t[n])
  <2> HIDE DEF some, f0
  <2>1. CASE n = 0
    BY <1>1, <1>2, <2>1 DEF SplitsTo
  <2>2. CASE n # 0
    <3>1. n - 1 \in Nat /\ n \in 1..n
      BY <2>2
    <3>2. some(n)[n] = NextChar(some(n)[n - 1], t[n])
      BY <1>1, <3>1 DEF SplitsTo
    <3>3. SplitsTo(some(n), t, n - 1) /\ SplitsTo(some(n - 1), t, n - 1)
      BY <1>1, <3>1 DEF SplitsTo
    <3>4. some(n)[n - 1] = some(n - 1)[n - 1]
      BY <3>1, <3>3, SplitsToUnique
    <3>5. QED
      BY <1>2, <2>2, <3>1, <3>2, <3>4
  <2>3. QED
    BY <2>1, <2>2
<1>4. f0 = [n \in Nat |-> f0[n]]
  OBVIOUS
<1>5. Values(f0)
  <2> HIDE DEF f0
  <2>1. QED
    BY <1>3, <1>4
<1> HIDE DEF f0, some
<1> DEFINE f1 == CHOOSE f : Values(f)
<1>6. Values(f1)
  <2> HIDE DEF Values
  <2>1. QED
    BY <1>5
<1>7. Split(t) = f1[Len(t)]
  BY DEF Split
<1> HIDE DEF f1
<1>8. SplitsTo(f1, t, Len(t))
  <2>1. \A n \in Nat : f1[n] = IF n = 0 THEN NoLines ELSE NextChar(f1[n - 1], t[n])
    BY <1>6
  <2>2. QED
    BY <2>1 DEF SplitsTo
<1>9. QED
  BY <1>7, <1>8

\* Splitting goes on one character at a time.
LEMMA SplitFacts ==
  ASSUME NEW t \in String, NEW c
  PROVE  /\ Split(<<>>) = NoLines
         /\ Split(Append(t, c)) = NextChar(Split(t), c)
<1>1. Split(<<>>) = NoLines
  <2>1. Len(<<>>) = 0
    OBVIOUS
  <2>2. PICK g : SplitsTo(g, <<>>, Len(<<>>)) /\ Split(<<>>) = g[Len(<<>>)]
    BY <2>1, SplitIsLast
  <2>3. QED
    BY <2>1, <2>2 DEF SplitsTo
<1>2. Split(Append(t, c)) = NextChar(Split(t), c)
  <2> DEFINE u == Append(t, c)
             n == Len(t)
  <2>1. /\ n \in Nat /\ Len(u) = n + 1 /\ u[n + 1] = c
        /\ \A i \in 1..n : u[i] = t[i]
    <3>1. t \in Seq(Char \cup {LF, c})
      BY SeqDef, LenProperties, ElementOfSeq DEF String
    <3>2. QED
      BY <3>1, AppendProperties, LenProperties
  <2> HIDE DEF u, n
  <2>2. PICK g : SplitsTo(g, t, n) /\ Split(t) = g[n]
    BY <2>1, SplitIsLast DEF n
  <2>3. PICK h : SplitsTo(h, u, n + 1) /\ Split(u) = h[n + 1]
    <3>1. Len(u) \in Nat
      BY <2>1
    <3>2. QED
      BY <2>1, <3>1, SplitIsLast
  <2>4. SplitsTo(h, u, n)
    BY <2>1, <2>3 DEF SplitsTo
  <2>5. h[n] = g[n]
    BY <2>1, <2>2, <2>4, SplitsToUnique
  <2>6. h[n + 1] = NextChar(h[n], c)
    <3>1. n + 1 \in 1..(n + 1) /\ (n + 1) - 1 = n
      BY <2>1
    <3>2. QED
      BY <2>1, <2>3, <3>1 DEF SplitsTo
  <2>7. QED
    BY <2>2, <2>3, <2>5, <2>6 DEF u
<1>3. QED
  BY <1>1, <1>2

-----------------------------------------------------------------------------
(* The text split so far. *)

\* What has been formatted is what has been assembled and, in the modes that
\* assemble lines, what is left of the string.
Assembled(u) ==
  /\ u \in String
  /\ fed = u \o (IF mode \in LineModes THEN readp ELSE <<>>)
  /\ Split(u) = [lines |-> logged, last |-> line]

\* No call is running when the mode changes, so nothing is left of its string.
AtRest == call = "none" => readp = <<>>

LinesInv == AtRest /\ \E u \in String : Assembled(u)

\* Concatenation of strings, as an operator that need not be expanded.
Cat(s, t) == s \o t

LEMMA CatAssociative == \A R : \A s, t, u \in Seq(R) : Cat(Cat(s, t), u) = Cat(s, Cat(t, u))
  BY ConcatAssociative, Zenon DEF Cat

LEMMA CatFacts ==
  /\ \A s, t \in String : Cat(s, t) \in String
  /\ \A s, t, u \in String : Cat(Cat(s, t), u) = Cat(s, Cat(t, u))
<1>1. \A s, t \in String : Cat(s, t) \in String
  BY ConcatProperties DEF Cat, String
<1>2. \A s, t, u \in String : Cat(Cat(s, t), u) = Cat(s, Cat(t, u))
  BY CatAssociative DEF String
<1>3. QED
  BY <1>1, <1>2

\* A chunk without a line feed only lengthens the last line, and no further
\* than the buffer reaches.
LEMMA ChunkSplit ==
  ASSUME IInv, NEW u \in String, Split(u) = [lines |-> logged, last |-> line],
         NEW k \in 0..ChunkLen
  PROVE  Split(u \o SubSeq(readp, 1, k))
           = [lines |-> logged,
              last |-> line \o SubSeq(readp, 1, Least(LineSize - 1 - accumulated, k))]
<1> DEFINE room == LineSize - 1 - accumulated
           Extends(m) == Split(u \o SubSeq(readp, 1, m))
                           = [lines |-> logged, last |-> line \o SubSeq(readp, 1, Least(room, m))]
           S == {m \in 0..ChunkLen : ~Extends(m)}
<1>1. /\ readp \in String /\ readp \in Seq(Char \cup {LF}) /\ u \in Seq(Char \cup {LF})
      /\ line \in Seq(Char)
      /\ accumulated = Len(line) /\ accumulated \in 0..(LineSize - 1)
      /\ LineSize \in Nat /\ room \in Nat
  BY SizesAssumption DEF IInv, TypeOK, Counted, String
<1>2. /\ Len(readp) \in Nat /\ ChunkLen \in 0..Len(readp)
      /\ \A j \in 1..ChunkLen : readp[j] \in Char
  BY <1>1, ChunkFacts, LenProperties
<1>3. SUFFICES ASSUME S # {} PROVE FALSE
  OBVIOUS
<1>4. S \subseteq Nat
  BY <1>2
<1>5. PICK m \in S : \A n \in S : m <= n
  <2> HIDE DEF S
  <2>1. QED
    BY <1>3, <1>4, LeastNatural
<1> HIDE DEF Extends
<1>6. /\ m \in 0..ChunkLen /\ ~Extends(m)
      /\ \A i \in 0..ChunkLen : i < m => Extends(i)
  BY <1>2, <1>5
<1> HIDE DEF S
<1>7. CASE m = 0
  <2>1. SubSeq(readp, 1, m) = <<>> /\ Least(room, m) = 0
    BY <1>1, <1>7, SubSeqEmpty DEF Least
  <2>2. u \o <<>> = u /\ line \o <<>> = line
    BY <1>1, ConcatEmptySeq
  <2>3. Extends(m)
    BY <1>7, <2>1, <2>2 DEF Extends
  <2>4. QED
    BY <1>6, <2>3
<1>8. CASE m # 0
  <2>1. /\ m \in 1..ChunkLen /\ m - 1 \in 0..ChunkLen /\ m - 1 < m
        /\ 1 \in 1..Len(readp) /\ m \in 1..Len(readp)
    BY <1>2, <1>6, <1>8
  <2>2. Extends(m - 1)
    BY <1>6, <2>1
  <2> DEFINE v == u \o SubSeq(readp, 1, m - 1)
             c == readp[m]
             kept == Least(room, m - 1)
  <2>3. c \in Char /\ c # LF
    BY <1>2, <2>1, LFAssumption
  <2>4. /\ SubSeq(readp, 1, m - 1) \in Seq(Char)
        /\ \A j \in 1..(m - 1) : readp[j] \in Char
    BY <1>2, <2>1, SubSeqProperties
  <2> HIDE DEF c
  <2>5. v \in Seq(Char \cup {LF}) /\ u \o SubSeq(readp, 1, m) = Append(v, c)
    <3>1. SubSeq(readp, 1, m - 1) \in Seq(Char \cup {LF}) /\ <<c>> \in Seq(Char \cup {LF})
      BY <2>3, <2>4, SeqMonotonic
    <3>2. SubSeq(readp, 1, m) = SubSeq(readp, 1, m - 1) \o <<c>>
      BY <1>1, <2>1, SubSeqRecursiveSecond DEF c
    <3>3. v \in Seq(Char \cup {LF})
      BY <1>1, <3>1, ConcatProperties
    <3>4. v \o <<c>> = Append(v, c)
      <4> HIDE DEF v
      <4>1. QED
        BY <2>3, <3>3, AppendIsConcat
    <3>5. (u \o SubSeq(readp, 1, m - 1)) \o <<c>> = u \o (SubSeq(readp, 1, m - 1) \o <<c>>)
      <4>1. SubSeq(readp, 1, m - 1) \in String /\ <<c>> \in String /\ u \in String
        BY <3>1 DEF String
      <4>2. Cat(u, Cat(SubSeq(readp, 1, m - 1), <<c>>)) = Cat(Cat(u, SubSeq(readp, 1, m - 1)), <<c>>)
        BY <4>1, CatFacts
      <4>3. QED
        BY <4>2 DEF Cat
    <3>6. QED
      BY <3>2, <3>3, <3>4, <3>5
  <2>6. Split(Append(v, c)) = NextChar(Split(v), c)
    BY <2>5, SplitFacts DEF String
  <2>7. Split(v) = [lines |-> logged, last |-> line \o SubSeq(readp, 1, kept)]
    BY <2>2 DEF Extends
  <2>8. kept \in 0..(m - 1) /\ kept \in Nat
    BY <1>1, <2>1 DEF Least
  <2>9. /\ SubSeq(readp, 1, kept) \in Seq(Char)
        /\ Len(SubSeq(readp, 1, kept)) = kept
        /\ line \o SubSeq(readp, 1, kept) \in Seq(Char)
        /\ Len(line \o SubSeq(readp, 1, kept)) = accumulated + kept
    <3>1. SubSeq(readp, 1, kept) \in Seq(Char) /\ Len(SubSeq(readp, 1, kept)) = kept
      BY <2>4, <2>8, SubSeqProperties
    <3>2. QED
      BY <1>1, <3>1, ConcatProperties
  <2> HIDE DEF v, kept, room
  <2>10. CASE kept = room
    <3>1. Least(room, m) = kept
      BY <1>1, <2>1, <2>10 DEF Least, kept
    <3>2. ~(accumulated + kept < LineSize - 1)
      BY <1>1, <2>10 DEF room
    <3>3. NextChar(Split(v), c) = Split(v)
      BY <2>3, <2>7, <2>9, <3>2 DEF NextChar
    <3>4. QED
      BY <1>6, <2>5, <2>6, <2>7, <3>1, <3>3 DEF Extends, v, kept, room
  <2>11. CASE kept # room
    <3>1. kept = m - 1 /\ m - 1 < room
      BY <1>1, <2>1, <2>11 DEF Least, kept
    <3>2. Least(room, m) = m
      BY <1>1, <2>1, <3>1 DEF Least
    <3>3. accumulated + kept < LineSize - 1
      BY <1>1, <2>1, <3>1 DEF room
    <3>4. NextChar(Split(v), c)
            = [lines |-> logged, last |-> Append(line \o SubSeq(readp, 1, kept), c)]
      BY <2>3, <2>7, <2>9, <3>3 DEF NextChar
    <3>5. Append(line \o SubSeq(readp, 1, m - 1), c) = line \o SubSeq(readp, 1, m)
      <4> DEFINE p == SubSeq(readp, 1, m - 1)
                 q == <<c>>
      <4>1. SubSeq(readp, 1, m) = p \o q
        BY <1>1, <2>1, SubSeqRecursiveSecond DEF c
      <4>2. p \in Seq(Char) /\ q \in Seq(Char) /\ line \o p \in Seq(Char)
        BY <2>3, <2>4, <2>9, <3>1
      <4> HIDE DEF p
      <4>3. Append(line \o p, c) = (line \o p) \o q
        BY <2>3, <4>2, AppendIsConcat
      <4> HIDE DEF q
      <4>4. (line \o p) \o q = line \o (p \o q)
        <5>1. line \in String /\ p \in String /\ q \in String
          BY <1>1, <4>2, SeqMonotonic DEF String
        <5>2. Cat(line, Cat(p, q)) = Cat(Cat(line, p), q)
          BY <5>1, CatFacts
        <5>3. QED
          BY <5>2 DEF Cat
      <4>5. QED
        BY <4>1, <4>3, <4>4 DEF p
    <3>6. QED
      BY <1>6, <2>5, <2>6, <3>1, <3>2, <3>4, <3>5 DEF Extends, room
  <2>12. QED
    BY <2>10, <2>11
<1>9. QED
  BY <1>7, <1>8

\* An iteration assembles the chunk, and the line feed that ends it.
LEMMA AssembleLineLines ==
  ASSUME IInv, LinesInv, AssembleLine
  PROVE  LinesInv'
<1>1. /\ readp # <<>> /\ mode \in LineModes /\ readp' = Rest
      /\ UNCHANGED <<outputs, buffered, fed, call, status>>
      /\ call # "none"
  BY DEF AssembleLine, LinesInv, AtRest
<1>2. PICK u \in String : Assembled(u)
  BY DEF LinesInv
<1>3. /\ readp \in String /\ readp \in Seq(Char \cup {LF}) /\ u \in Seq(Char \cup {LF})
      /\ fed = u \o readp /\ Split(u) = [lines |-> logged, last |-> line]
  BY <1>1, <1>2 DEF IInv, TypeOK, Assembled, String
<1> DEFINE n == ChunkLen
           chunk == SubSeq(readp, 1, n)
<1>4. /\ Len(readp) \in Nat /\ n \in 0..Len(readp)
      /\ HasEol => n + 1 <= Len(readp) /\ readp[n + 1] = LF
      /\ \A i \in 1..Len(readp) : readp[i] \in Char \cup {LF}
  BY <1>3, ChunkFacts, LenProperties, ElementOfSeq
<1>5. /\ chunk \in Seq(Char \cup {LF}) /\ u \o chunk \in Seq(Char \cup {LF})
  <2>1. chunk \in Seq(Char \cup {LF})
    BY <1>4, SubSeqProperties
  <2>2. QED
    BY <1>3, <2>1, ConcatProperties
<1>6. Split(u \o chunk) = [lines |-> logged, last |-> Extended]
  <2>1. n \in 0..n
    BY <1>4
  <2>2. QED
    BY <1>3, <2>1, ChunkSplit DEF Extended, Copied
<1>7. CASE ~HasEol
  <2>1. line' = Extended /\ logged' = logged
    BY <1>7 DEF AssembleLine
  <2>2. n = Len(readp) /\ chunk = readp
    BY <1>3, <1>7, SubSeqFull DEF ChunkLen
  <2>3. Rest = <<>>
    BY <1>4, <1>7, <2>2, SubSeqEmpty DEF Rest
  <2>4. (u \o chunk) \o <<>> = u \o chunk
    BY <1>5, ConcatEmptySeq
  <2>5. fed' = (u \o chunk) \o readp'
    BY <1>1, <1>3, <2>2, <2>3, <2>4
  <2>6. PICK w : w = u \o chunk
    OBVIOUS
  <2>7. Assembled(w)'
    BY <1>1, <1>5, <1>6, <2>1, <2>5, <2>6 DEF Assembled, String, outputs
  <2>8. QED
    BY <1>1, <2>7 DEF LinesInv, AtRest, Assembled
<1>8. CASE HasEol
  <2>1. PICK w : w = Append(u \o chunk, LF)
    OBVIOUS
  <2>2. line' = <<>> /\ logged' = Append(logged, Extended)
    BY <1>8 DEF AssembleLine
  <2>3. w \in Seq(Char \cup {LF}) /\ w = (u \o chunk) \o <<LF>>
    <3> DEFINE s == u \o chunk
    <3>1. s \in Seq(Char \cup {LF}) /\ LF \in Char \cup {LF} /\ w = Append(s, LF)
      BY <1>5, <2>1
    <3> HIDE DEF s
    <3>2. Append(s, LF) \in Seq(Char \cup {LF})
      BY <3>1, AppendProperties
    <3>3. Append(s, LF) = s \o <<LF>>
      BY <3>1, AppendIsConcat
    <3>4. w \in Seq(Char \cup {LF}) /\ w = s \o <<LF>>
      BY <3>1, <3>2, <3>3
    <3>5. QED
      BY <3>4 DEF s
  <2>4. Split(w) = [lines |-> logged', last |-> line']
    <3>1. Split(w) = NextChar([lines |-> logged, last |-> Extended], LF)
      BY <1>5, <1>6, <2>1, SplitFacts DEF String
    <3>2. QED
      BY <2>2, <3>1 DEF NextChar
  <2>5. readp = (chunk \o <<LF>>) \o Rest
    <3>1. SubSeq(readp, 1, n + 1) = chunk \o <<LF>>
      <4>1. SubSeq(readp, 1, n + 1) = SubSeq(readp, 1, (n + 1) - 1) \o <<readp[n + 1]>>
        BY <1>3, <1>4, <1>8, SubSeqRecursiveSecond
      <4>2. (n + 1) - 1 = n
        BY <1>4
      <4>3. QED
        BY <1>4, <1>8, <4>1, <4>2
    <3>2. Rest = SubSeq(readp, (n + 1) + 1, Len(readp))
      BY <1>4, <1>8 DEF Rest
    <3>3. SubSeq(readp, 1, n + 1) \o SubSeq(readp, (n + 1) + 1, Len(readp))
            = SubSeq(readp, 1, Len(readp))
      <4>1. /\ 1 \in 1..(Len(readp) + 1) /\ n + 1 \in (1 - 1)..Len(readp)
            /\ Len(readp) \in (n + 1)..Len(readp)
        BY <1>4, <1>8
      <4>2. QED
        BY <1>3, <4>1, ConcatAdjacentSubSeq
    <3>4. SubSeq(readp, 1, Len(readp)) = readp
      BY <1>3, SubSeqFull
    <3>5. QED
      BY <3>1, <3>2, <3>3, <3>4
  <2>6. fed' = w \o readp'
    <3>1. /\ Rest \in Seq(Char \cup {LF}) /\ <<LF>> \in Seq(Char \cup {LF})
          /\ chunk \o <<LF>> \in Seq(Char \cup {LF})
      BY <1>1, <1>3, <1>5, RestFacts, ConcatProperties DEF String
    <3>2. u \in String /\ chunk \in String /\ <<LF>> \in String /\ Rest \in String
      BY <1>3, <1>5, <3>1 DEF String
    <3>3. fed' = Cat(u, Cat(Cat(chunk, <<LF>>), Rest))
      BY <1>1, <1>3, <2>5 DEF Cat
    <3>4. w = Cat(Cat(u, chunk), <<LF>>)
      BY <2>3 DEF Cat
    <3> HIDE DEF chunk
    <3>5. Cat(u, Cat(Cat(chunk, <<LF>>), Rest)) = Cat(Cat(Cat(u, chunk), <<LF>>), Rest)
      BY <3>2, CatFacts
    <3>6. fed' = Cat(w, Rest)
      BY <3>3, <3>4, <3>5
    <3>7. QED
      BY <1>1, <3>6 DEF Cat
  <2>7. Assembled(w)'
    BY <1>1, <2>3, <2>4, <2>6 DEF Assembled, String, outputs
  <2>8. QED
    BY <1>1, <2>7 DEF LinesInv, AtRest, Assembled
<1>9. QED
  BY <1>7, <1>8

\* Between calls the mode does not matter: nothing is left of a string.
LEMMA SwitchLines ==
  ASSUME IInv, LinesInv, call = "none", UNCHANGED <<assembly, readp, call>>
  PROVE  LinesInv'
<1>1. readp = <<>> /\ readp' = <<>>
  BY DEF LinesInv, AtRest
<1>2. PICK u \in String : Assembled(u)
  BY DEF LinesInv
<1>3. fed = u \o <<>> /\ Split(u) = [lines |-> logged, last |-> line]
  BY <1>1, <1>2 DEF Assembled
<1>4. Assembled(u)'
  BY <1>1, <1>3 DEF Assembled, assembly
<1>5. QED
  BY <1>1, <1>4 DEF LinesInv, AtRest

\* A string that is to be assembled is added to what has been formatted.
LEMMA EnterLines ==
  ASSUME IInv, LinesInv, readp = <<>>, NEW f \in String,
         IF mode \in LineModes THEN fed' = fed \o f /\ readp' = f ELSE fed' = fed,
         UNCHANGED <<outputs, line, logged>>, call' # "none"
  PROVE  LinesInv'
<1>1. PICK u \in String : Assembled(u)
  BY DEF LinesInv
<1>2. /\ u \in Seq(Char \cup {LF}) /\ fed = u
      /\ Split(u) = [lines |-> logged, last |-> line]
  BY <1>1, ConcatEmptySeq DEF Assembled, String
<1>3. Assembled(u)'
  <2>1. CASE mode \in LineModes
    BY <1>1, <1>2, <2>1 DEF Assembled, outputs
  <2>2. CASE mode \notin LineModes
    <3>1. u \o <<>> = u
      BY <1>2, ConcatEmptySeq
    <3>2. QED
      BY <1>1, <1>2, <2>2, <3>1 DEF Assembled, outputs
  <2>3. QED
    BY <2>1, <2>2
<1>4. QED
  BY <1>3, <1>1 DEF LinesInv, AtRest

LEMMA BeginLines ==
  ASSUME IInv, LinesInv, NEW t \in Text, NEW f \in {"printf", "printfl", "assert"}, Begin(t, f)
  PROVE  LinesInv'
<1>1. /\ readp = <<>> /\ call' # "none"
      /\ UNCHANGED <<outputs, line, logged>>
  BY DEF Begin, Idle, LinesInv, AtRest
<1>2. CASE mode \in LineModes
  <2>1. PICK g \in Formatted(t) : readp' = g /\ fed' = fed \o g
    BY <1>2 DEF Begin, Enter
  <2>2. g \in String
    BY TextAssumption, FormattedFacts
  <2>3. QED
    BY <1>1, <1>2, <2>1, <2>2, EnterLines
<1>3. CASE mode \notin LineModes
  <2>1. fed' = fed /\ <<>> \in String
    BY <1>3 DEF Begin, Enter, String
  <2>2. QED
    BY <1>1, <1>3, <2>1, EnterLines
<1>4. QED
  BY <1>2, <1>3

LEMMA ReturnLines ==
  ASSUME IInv, LinesInv, Return
  PROVE  LinesInv'
<1>1. /\ readp = <<>> /\ UNCHANGED <<outputs, line, logged>>
  BY DEF Return
<1>2. CASE call' # "none" /\ EnterLineFeed
  <2>1. <<LF>> \in String /\ fed \in Seq(Char \cup {LF})
    BY DEF IInv, TypeOK, String
  <2>2. Append(fed, LF) = fed \o <<LF>>
    BY <2>1, AppendIsConcat
  <2>3. IF mode \in LineModes THEN fed' = fed \o <<LF>> /\ readp' = <<LF>> ELSE fed' = fed
    BY <1>2, <2>2 DEF EnterLineFeed
  <2>4. QED
    BY <1>1, <1>2, <2>1, <2>3, EnterLines
<1>3. CASE UNCHANGED <<readp, fed>>
  <2>1. PICK u \in String : Assembled(u)
    BY DEF LinesInv
  <2>2. Assembled(u)'
    BY <1>1, <1>3, <2>1 DEF Assembled, outputs
  <2>3. QED
    BY <1>1, <1>3, <2>2 DEF LinesInv, AtRest
<1>4. QED
  BY <1>2, <1>3 DEF Return

LEMMA LinesNext == IInv /\ LinesInv /\ [Next]_vars => LinesInv'
<1> SUFFICES ASSUME IInv, LinesInv, [Next]_vars PROVE LinesInv'
  OBVIOUS
<1>1. ASSUME NEW m \in DebugOutput \cup {DebugOutput_LAST}, NEW n \in Name \cup {NULL},
             debug_set_output(m, n)
      PROVE  LinesInv'
  BY <1>1, SetOutputCases, SwitchLines, BeginLines DEF Idle, assert
<1>2. CASE exit
  BY <1>2, SwitchLines DEF exit, Idle
<1>3. ASSUME NEW t \in Text, debug_printf(t) \/ debug_printfl(t) \/ assert(t)
      PROVE  LinesInv'
  BY <1>3, BeginLines DEF debug_printf, debug_printfl, assert
<1>4. CASE WriteStream
  <2>1. mode \notin LineModes /\ readp' = <<>> /\ UNCHANGED <<outputs, assembly>>
    BY <1>4 DEF WriteStream
  <2>2. PICK u \in String : Assembled(u)
    BY DEF LinesInv
  <2>3. Assembled(u)'
    BY <2>1, <2>2 DEF Assembled, outputs, assembly
  <2>4. QED
    BY <2>1, <2>3 DEF LinesInv, AtRest
<1>5. CASE AssembleLine
  BY <1>5, AssembleLineLines
<1>6. CASE Return
  BY <1>6, ReturnLines
<1>7. CASE UNCHANGED vars
  <2>1. PICK u \in String : Assembled(u)
    BY DEF LinesInv
  <2>2. Assembled(u)'
    BY <1>7, <2>1 DEF Assembled, vars, outputs, assembly
  <2>3. QED
    BY <1>7, <2>2 DEF LinesInv, AtRest, vars
<1>8. QED
  BY <1>1, <1>2, <1>3, <1>4, <1>5, <1>6, <1>7 DEF Next, Step

LEMMA LinesInit == Init => LinesInv
<1> SUFFICES ASSUME Init PROVE LinesInv
  OBVIOUS
<1>1. <<>> \in String
  BY DEF String
<1>2. Split(<<>>) = NoLines /\ <<>> \o <<>> = <<>>
  BY <1>1, SplitFacts, ConcatEmptySeq DEF String
<1>3. Assembled(<<>>)
  BY <1>1, <1>2 DEF Init, Assembled, NoLines
<1>4. QED
  BY <1>1, <1>3 DEF Init, LinesInv, AtRest

\* The part assembled is the part that the property speaks of.
LEMMA LinesImply ==
  ASSUME IInv, LinesInv
  PROVE  LinesFaithful
<1>1. PICK u \in String : Assembled(u)
  BY DEF LinesInv
<1>2. u \in Seq(Char \cup {LF}) /\ readp \in Seq(Char \cup {LF})
  BY DEF IInv, TypeOK, String
<1>3. Consumed = u
  <2>1. CASE mode \notin LineModes
    <3>1. u \o <<>> = u
      BY <1>2, ConcatEmptySeq
    <3>2. QED
      BY <1>1, <2>1, <3>1 DEF Assembled, Consumed
  <2>2. CASE mode \in LineModes
    <3>1. fed = u \o readp
      BY <1>1, <2>2 DEF Assembled
    <3>2. /\ Len(fed) - Len(readp) = Len(u) /\ Len(u) \in Nat
          /\ \A i \in 1..Len(u) : fed[i] = u[i] /\ u[i] \in Char \cup {LF}
      BY <1>2, <3>1, ConcatProperties, LenProperties, ElementOfSeq
    <3>3. /\ SubSeq(fed, 1, Len(u)) \in Seq(Char \cup {LF})
          /\ Len(SubSeq(fed, 1, Len(u))) = Len(u)
          /\ \A i \in 1..Len(u) : SubSeq(fed, 1, Len(u))[i] = u[i]
      BY <3>2, SubSeqProperties
    <3>4. SubSeq(fed, 1, Len(u)) = u
      BY <1>2, <3>3, SeqEqual
    <3>5. QED
      BY <2>2, <3>2, <3>4 DEF Consumed
  <2>3. QED
    BY <2>1, <2>2
<1>4. QED
  BY <1>1, <1>3 DEF Assembled, LinesFaithful, IInv, Counted

\* The lines passed to Reporter and SysLog are the text formatted, split at its
\* line feeds and cut to the buffer (Debug.c:305-341), for every text and every
\* size of the buffers, however the text is divided between calls and modes.
THEOREM LinesAlwaysFaithful == Spec => []LinesFaithful
<1>1. Init => IInv /\ LinesInv
  BY InitInv, LinesInit
<1>2. (IInv /\ LinesInv) /\ [Next]_vars => (IInv /\ LinesInv)'
  BY NextInv, LinesNext
<1>3. IInv /\ LinesInv => LinesFaithful
  BY LinesImply
<1>4. QED
  BY <1>1, <1>2, <1>3, PTL DEF Spec
-----------------------------------------------------------------------------
(* The reason of a failed assertion. *)

\* A line with what there is room for of a text is the whole of it, cut.
LEMMA CutConcat ==
  ASSUME NEW a \in Seq(Char), Len(a) <= LineSize - 1, NEW f \in Seq(Char)
  PROVE  a \o SubSeq(f, 1, Least(LineSize - 1 - Len(a), Len(f))) = Cut(a \o f)
<1> DEFINE m == LineSize - 1
           k == Least(m - Len(a), Len(f))
           l == a \o SubSeq(f, 1, k)
           r == a \o f
           n == Least(m, Len(r))
<1>1. Len(a) \in Nat /\ Len(f) \in Nat /\ m \in Nat
  BY SizesAssumption, LenProperties
<1>2. /\ r \in Seq(Char) /\ Len(r) = Len(a) + Len(f)
      /\ \A i \in 1..Len(a) : r[i] = a[i]
      /\ \A i \in (Len(a) + 1)..Len(r) : r[i] = f[i - Len(a)]
  BY ConcatProperties
<1>3. k \in 0..Len(f) /\ n = Len(a) + k /\ n \in 0..Len(r)
  <2> HIDE DEF m, r
  <2>1. QED
    BY <1>1, <1>2 DEF Least, m
<1> HIDE DEF k, n, m
<1>4. /\ SubSeq(f, 1, k) \in Seq(Char) /\ Len(SubSeq(f, 1, k)) = k
      /\ \A i \in 1..k : SubSeq(f, 1, k)[i] = f[i]
  BY <1>1, <1>3, SubSeqProperties
<1>5. /\ l \in Seq(Char) /\ Len(l) = Len(a) + k
      /\ \A i \in 1..Len(a) : l[i] = a[i]
      /\ \A i \in (Len(a) + 1)..Len(l) : l[i] = SubSeq(f, 1, k)[i - Len(a)]
  BY <1>4, ConcatProperties
<1>6. /\ SubSeq(r, 1, n) \in Seq(Char) /\ Len(SubSeq(r, 1, n)) = n
      /\ \A i \in 1..n : SubSeq(r, 1, n)[i] = r[i]
  BY <1>2, <1>3, SubSeqProperties
<1> HIDE DEF l, r
<1>7. ASSUME NEW i \in 1..n
      PROVE  l[i] = SubSeq(r, 1, n)[i]
  <2>1. CASE i \in 1..Len(a)
    BY <1>2, <1>5, <1>6, <1>7, <2>1
  <2>2. CASE i \notin 1..Len(a)
    <3>1. i \in (Len(a) + 1)..Len(l) /\ i \in (Len(a) + 1)..Len(r) /\ i - Len(a) \in 1..k
      BY <1>1, <1>2, <1>3, <1>5, <1>7, <2>2
    <3>2. l[i] = SubSeq(f, 1, k)[i - Len(a)]
      BY <1>5, <3>1
    <3>3. SubSeq(f, 1, k)[i - Len(a)] = f[i - Len(a)]
      BY <1>4, <3>1
    <3>4. r[i] = f[i - Len(a)]
      BY <1>2, <3>1
    <3>5. SubSeq(r, 1, n)[i] = r[i]
      BY <1>6, <1>7
    <3>6. QED
      BY <3>2, <3>3, <3>4, <3>5
  <2>3. QED
    BY <2>1, <2>2
<1>8. l = SubSeq(r, 1, n)
  BY <1>3, <1>5, <1>6, <1>7, SeqEqual
<1>9. QED
  BY <1>8 DEF l, r, n, k, m, Cut

\* What an assertion prints is formatted without a line feed.
LEMMA FormattedReason ==
  ASSUME NEW t \in String, LF \notin ToSet(t), NEW f \in Formatted(t)
  PROVE  f \in Seq(Char)
<1>1. t \in Seq(Char)
  <2>1. \A i \in 1..Len(t) : t[i] \in Char
    BY LenProperties, ElementOfSeq DEF String, ToSet
  <2>2. t = [i \in 1..Len(t) |-> t[i]] /\ Len(t) \in Nat
    BY LenProperties DEF String
  <2>3. QED
    BY <2>1, <2>2, IsASeq
<1>2. {"B", "A", "D", "."} \subseteq Char
  BY BADAssumption
<1>3. CASE f = <<"B", "A", "D">>
  BY <1>2, <1>3
<1>4. CASE Len(t) >= FormatSize /\ f = SubSeq(t, 1, FormatSize - 4) \o <<".", ".", ".">>
  <2>1. SubSeq(t, 1, FormatSize - 4) \in Seq(Char)
    <3>1. \A i \in 1..(FormatSize - 4) : t[i] \in Char
      BY <1>1, <1>4, SizesAssumption, LenProperties, ElementOfSeq
    <3>2. QED
      BY <3>1, SizesAssumption, SubSeqProperties
  <2>2. <<".", ".", ".">> \in Seq(Char)
    BY <1>2
  <2>3. QED
    BY <1>4, <2>1, <2>2, ConcatProperties
<1>5. QED
  BY <1>1, <1>3, <1>4 DEF Formatted

\* How far the reason has got: its text is being assembled or written, then its
\* line feed, and then the program ends.
TextOut(f) == line = Cut(reason.before \o f)
LineOut ==
  /\ line = <<>> /\ logged # <<>>
  /\ \E f \in Formatted(reason.text) : Last(logged) = Cut(reason.before \o f)
StreamOut ==
  /\ written = Sent(Append(reason.text, LF))
  /\ buffered <=> mode = "File" /\ log_file # NULL

Asserting ==
  /\ mode \in LineModes =>
       \E f \in Formatted(reason.text) :
         (readp = f /\ line = reason.before) \/ (readp = <<>> /\ TextOut(f))
  /\ mode \notin LineModes =>
       \/ readp = reason.text /\ written = <<>>
       \/ readp = <<>> /\ written = Sent(reason.text)

Aborting ==
  /\ mode \in LineModes =>
       \/ readp = <<LF>> /\ \E f \in Formatted(reason.text) : TextOut(f)
       \/ readp = <<>> /\ LineOut
  /\ mode \notin LineModes =>
       \/ readp = <<LF>> /\ written = Sent(reason.text)
       \/ readp = <<>> /\ StreamOut

ReasonInv ==
  /\ status # "aborted" /\ call \notin {"assert", "abort"} => written = <<>>
  /\ call \in {"assert", "abort"} =>
       LF \notin ToSet(reason.text) /\ Len(reason.before) <= LineSize - 1
  /\ call = "assert" => Asserting
  /\ call = "abort" => Aborting
  /\ status = "aborted" => call = "none" /\ ReasonOut

LEMMA AssertReason ==
  ASSUME IInv, ReasonInv, NEW t \in Text, assert(t)
  PROVE  ReasonInv'
<1>1. /\ call = "none" /\ status = "running" /\ call' = "assert" /\ status' = "running"
      /\ LF \notin ToSet(t) /\ reason' = [text |-> t, before |-> line]
      /\ UNCHANGED <<mode, line, written>> /\ written = <<>>
      /\ Enter(t)
  BY DEF assert, Begin, Idle, outputs, ReasonInv
<1>2. /\ reason'.text = t /\ reason'.before = line
      /\ Len(line) <= LineSize - 1
  BY <1>1, SizesAssumption DEF IInv, TypeOK, Counted
<1>3. Asserting'
  <2>1. CASE mode \in LineModes
    <3>1. PICK f \in Formatted(t) : readp' = f
      BY <1>1, <2>1 DEF Enter
    <3>2. f \in Formatted(reason.text)' /\ line' = reason'.before
      BY <1>1, <1>2
    <3>3. QED
      BY <1>1, <2>1, <3>1, <3>2 DEF Asserting
  <2>2. CASE mode \notin LineModes
    BY <1>1, <1>2, <2>2 DEF Asserting, Enter
  <2>3. QED
    BY <2>1, <2>2
<1>4. QED
  BY <1>1, <1>2, <1>3 DEF ReasonInv

LEMMA WriteReason ==
  ASSUME IInv, ReasonInv, WriteStream
  PROVE  ReasonInv'
<1>1. /\ mode \notin LineModes /\ status = "running" /\ readp # <<>> /\ readp' = <<>>
      /\ UNCHANGED <<mode, log_file, call, reason, status, line, logged>>
      /\ buffered' = (mode = "File" /\ log_file # NULL)
      /\ written' = IF call \in {"assert", "abort"} /\ ~Silent THEN written \o readp ELSE written
  BY DEF WriteStream, outputs, assembly
<1>2. /\ reason.text \in Seq(Char \cup {LF}) /\ readp \in Seq(Char \cup {LF})
      /\ LF \in Char \cup {LF}
  BY DEF IInv, TypeOK, String
<1>3. Silent' <=> Silent
  BY <1>1 DEF Silent
<1>4. CASE call = "assert"
  <2>1. readp = reason.text /\ written = <<>>
    BY <1>1, <1>4 DEF ReasonInv, Asserting
  <2>2. written' = Sent(reason.text)'
    BY <1>1, <1>2, <1>3, <1>4, <2>1, ConcatEmptySeq DEF Sent
  <2>3. Asserting'
    BY <1>1, <2>2 DEF Asserting
  <2>4. QED
    BY <1>1, <1>4, <2>3 DEF ReasonInv
<1>5. CASE call = "abort"
  <2>1. readp = <<LF>> /\ written = Sent(reason.text)
    BY <1>1, <1>5 DEF ReasonInv, Aborting
  <2>2. Append(reason.text, LF) = reason.text \o <<LF>>
    BY <1>2, AppendIsConcat
  <2>3. written' = Sent(Append(reason.text, LF))'
    BY <1>1, <1>3, <1>5, <2>1, <2>2 DEF Sent
  <2>4. Aborting'
    BY <1>1, <2>3 DEF Aborting, StreamOut
  <2>5. QED
    BY <1>1, <1>5, <2>4 DEF ReasonInv
<1>6. CASE call \notin {"assert", "abort"}
  BY <1>1, <1>6 DEF ReasonInv
<1>7. QED
  BY <1>4, <1>5, <1>6

LEMMA AssembleReason ==
  ASSUME IInv, ReasonInv, AssembleLine
  PROVE  ReasonInv'
<1>1. /\ mode \in LineModes /\ status = "running" /\ readp # <<>> /\ readp' = Rest
      /\ UNCHANGED <<mode, log_file, call, reason, written, status>>
  BY DEF AssembleLine, outputs, failure
<1>2. /\ readp \in String /\ line \in Seq(Char) /\ accumulated = Len(line)
      /\ logged \in Seq(Seq(Char)) /\ reason.text \in String
      /\ DOMAIN readp = 1..Len(readp) /\ Len(readp) \in Nat
  BY LenProperties DEF IInv, TypeOK, Counted, String
<1>3. CASE call = "assert"
  <2>1. PICK f \in Formatted(reason.text) : readp = f /\ line = reason.before
    BY <1>1, <1>3 DEF ReasonInv, Asserting
  <2>2. f \in Seq(Char) /\ Len(line) <= LineSize - 1
    BY <1>2, <1>3, <2>1, FormattedReason DEF ReasonInv
  <2>3. ~HasEol
    BY <1>2, <2>1, <2>2, LFAssumption, ElementOfSeq DEF HasEol, ToSet
  <2>4. line' = Extended /\ ChunkLen = Len(readp) /\ Rest = SubSeq(readp, Len(readp) + 1, Len(readp))
    BY <2>3 DEF AssembleLine, ChunkLen, Rest
  <2>5. readp' = <<>>
    BY <1>1, <1>2, <2>4, SubSeqProperties DEF String
  <2>6. line' = line \o SubSeq(f, 1, Least(LineSize - 1 - Len(line), Len(f)))
    BY <1>2, <2>1, <2>4 DEF Extended, Copied
  <2>7. line' = Cut(line \o f)
    BY <1>2, <2>2, <2>6, CutConcat
  <2>8. TextOut(f)'
    BY <1>1, <2>1, <2>7 DEF TextOut, Cut
  <2>9. Asserting'
    BY <1>1, <2>1, <2>5, <2>8 DEF Asserting
  <2>10. QED
    BY <1>1, <1>3, <2>9 DEF ReasonInv
<1>4. CASE call = "abort"
  <2>1. readp = <<LF>> /\ \E f \in Formatted(reason.text) : TextOut(f)
    BY <1>1, <1>4 DEF ReasonInv, Aborting
  <2>2. HasEol /\ Rest = <<>>
    BY <1>1, <1>2, <2>1, RestFacts
  <2>3. ChunkLen = 0
    <3>1. Len(readp) = 1
      BY <2>1
    <3>2. ChunkLen \in 0..Len(readp) /\ ChunkLen + 1 <= Len(readp)
      BY <1>2, <2>2, ChunkFacts
    <3>3. QED
      BY <3>1, <3>2
  <2>4. Copied \in 0..ChunkLen
    BY CopiedFacts
  <2>5. Extended = line \o <<>>
    <3>1. SubSeq(readp, 1, 0) = <<>>
      BY <1>2, SubSeqProperties DEF String
    <3>2. Copied = 0
      BY <2>3, <2>4
    <3>3. QED
      BY <3>1, <3>2 DEF Extended
  <2>6. Extended = line
    BY <1>2, <2>5, ConcatEmptySeq
  <2>7. line' = <<>> /\ logged' = Append(logged, line)
    BY <2>2, <2>6 DEF AssembleLine
  <2>8. logged' # <<>> /\ Last(logged') = line
    <3>1. logged' \in Seq(Seq(Char)) /\ Len(logged') = Len(logged) + 1
          /\ logged'[Len(logged) + 1] = line /\ Len(logged) \in Nat
      BY <1>2, <2>7, AppendProperties, LenProperties
    <3>2. logged' # <<>>
      BY <3>1
    <3>3. QED
      BY <3>1, <3>2 DEF Last
  <2>9. LineOut'
    BY <1>1, <2>1, <2>7, <2>8 DEF LineOut, TextOut, Cut
  <2>10. Aborting'
    BY <1>1, <2>2, <2>9 DEF Aborting
  <2>11. QED
    BY <1>1, <1>4, <2>10 DEF ReasonInv
<1>5. CASE call \notin {"assert", "abort"}
  BY <1>1, <1>5 DEF ReasonInv
<1>6. QED
  BY <1>3, <1>4, <1>5

LEMMA ReturnReason ==
  ASSUME IInv, ReasonInv, Return
  PROVE  ReasonInv'
<1>1. /\ status = "running" /\ readp = <<>> /\ call # "none"
      /\ UNCHANGED <<mode, log_file, buffered, line, logged, reason, written>>
  BY DEF Return, outputs, failure
<1>2. Silent' <=> Silent
  BY <1>1 DEF Silent
<1>3. CASE call \in {"printf", "printfl"}
  <2>1. call' \in {"none", "printf"} /\ status' = "running"
    BY <1>1, <1>3 DEF Return
  <2>2. QED
    BY <1>1, <1>3, <2>1 DEF ReasonInv
<1>4. CASE call = "assert"
  <2>1. call' = "abort" /\ status' = "running" /\ readp' = <<LF>>
    BY <1>1, <1>4 DEF Return, EnterLineFeed
  <2>2. ASSUME mode \in LineModes
        PROVE  \E f \in Formatted(reason.text) : TextOut(f)
    <3>1. PICK f \in Formatted(reason.text) :
            (readp = f /\ line = reason.before) \/ (readp = <<>> /\ TextOut(f))
      BY <1>4, <2>2 DEF ReasonInv, Asserting
    <3>2. CASE f = <<>> /\ line = reason.before
      <4>1. reason.before \in Seq(Char) /\ Len(reason.before) <= LineSize - 1
            /\ f \in Seq(Char) /\ Len(f) = 0 /\ Len(reason.before) \in Nat
            /\ LineSize - 1 \in Nat
        BY <1>4, <3>2, SizesAssumption, LenProperties DEF IInv, TypeOK, ReasonInv
      <4>2. SubSeq(f, 1, Least(LineSize - 1 - Len(reason.before), Len(f))) = <<>>
        <5>1. Least(LineSize - 1 - Len(reason.before), Len(f)) = 0
          BY <4>1 DEF Least
        <5>2. QED
          BY <4>1, <5>1, SubSeqProperties
      <4>3. reason.before \o <<>> = reason.before
        BY <4>1, ConcatEmptySeq
      <4>4. Cut(reason.before \o f) = reason.before
        BY <4>1, <4>2, <4>3, CutConcat
      <4>5. QED
        BY <3>2, <4>4 DEF TextOut
    <3>3. QED
      BY <1>1, <3>1, <3>2
  <2>3. ASSUME mode \notin LineModes
        PROVE  written = Sent(reason.text)
    BY <1>1, <1>4, <2>3 DEF ReasonInv, Asserting, Sent
  <2>4. Aborting'
    BY <1>1, <1>2, <2>1, <2>2, <2>3 DEF Aborting, TextOut, Sent
  <2>5. QED
    BY <1>1, <1>4, <2>1, <2>4 DEF ReasonInv
<1>5. CASE call = "abort"
  <2>1. call' = "none" /\ status' = "aborted"
    BY <1>1, <1>5 DEF Return
  <2>2. /\ mode \in LineModes => LineOut /\ ~buffered
        /\ mode \notin LineModes => StreamOut
    BY <1>1, <1>5 DEF ReasonInv, Aborting, IInv, OutputInv, BufferKnown, LineModes
  <2>3. ReasonOut'
    BY <1>1, <1>2, <2>2 DEF ReasonOut, LineOut, StreamOut, Sent, LineModes
  <2>4. QED
    BY <2>1, <2>3 DEF ReasonInv
<1>6. QED
  BY <1>1, <1>3, <1>4, <1>5 DEF IInv, TypeOK

LEMMA ReasonNext == IInv /\ ReasonInv /\ [Next]_vars => ReasonInv'
<1> SUFFICES ASSUME IInv, ReasonInv, [Next]_vars PROVE ReasonInv'
  OBVIOUS
<1>1. ASSUME NEW m \in DebugOutput \cup {DebugOutput_LAST}, NEW n \in Name \cup {NULL},
             debug_set_output(m, n)
      PROVE  ReasonInv'
  <2>1. CASE \E t \in Text : assert(t)
    BY <2>1, AssertReason
  <2>2. CASE Idle /\ UNCHANGED <<assembly, readp, call, failure, status>>
    BY <2>2 DEF Idle, failure, ReasonInv
  <2>3. QED
    BY <1>1, <2>1, <2>2, SetOutputCases
<1>2. CASE exit
  BY <1>2 DEF exit, Idle, failure, ReasonInv
<1>3. ASSUME NEW t \in Text, debug_printf(t) \/ debug_printfl(t)
      PROVE  ReasonInv'
  BY <1>3 DEF debug_printf, debug_printfl, Begin, Idle, ReasonInv
<1>4. ASSUME NEW t \in Text, assert(t)
      PROVE  ReasonInv'
  BY <1>4, AssertReason
<1>5. CASE Step
  BY <1>5, WriteReason, AssembleReason, ReturnReason DEF Step
<1>6. CASE UNCHANGED vars
  BY <1>6 DEF vars, outputs, assembly, failure, ReasonInv, Asserting, Aborting, ReasonOut,
              LineOut, StreamOut, TextOut, Sent, Silent
<1>7. QED
  BY <1>1, <1>2, <1>3, <1>4, <1>5, <1>6 DEF Next

\* When a failed assertion ends the program its reason is on the last line passed to
\* Reporter or SysLog, cut only where that line was full (Debug.c:317-320), or all
\* in its stream, unless there is no output mode or no log file (Debug.c:259), for
\* every text, every size of the buffers and whatever was printed before.
THEOREM ReasonAlwaysOut == Spec => []ReasonOut
<1>1. Init => IInv /\ ReasonInv
  BY InitInv DEF Init, ReasonInv
<1>2. (IInv /\ ReasonInv) /\ [Next]_vars => (IInv /\ ReasonInv)'
  BY NextInv, ReasonNext
<1>3. ReasonInv => ReasonOut
  BY DEF ReasonInv, ReasonOut
<1>4. QED
  BY <1>1, <1>2, <1>3, PTL DEF Spec
=============================================================================
