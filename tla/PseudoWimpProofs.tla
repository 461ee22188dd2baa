-------------------------- MODULE PseudoWimpProofs --------------------------
(***************************************************************************)
(* What is proved of PseudoWimp for every size of the trap, every set of   *)
(* messages a client may send and every window to be redrawn.              *)
(***************************************************************************)
EXTENDS PseudoWimp, ListFacts

-----------------------------------------------------------------------------
(* The inductive invariant. *)

\* What sending a message makes of it: the header of a user message is filled in,
\* by the program's own task unless asserts are compiled out.
SentAs(before, after) ==
  /\ after.code = before.code /\ after.handle = before.handle
  /\ after.block.data = before.block.data
  /\ IF before.code \in Stamped
     THEN Asserts => after.block.sender = Task
     ELSE after.block = before.block

\* The trap is the beginning of the history.
TrapInv ==
  /\ Len(msgs) <= Len(history)
  /\ Len(msgs) = MaxMsgs \/ Len(msgs) = Len(history)
  /\ \A i \in DOMAIN msgs : msgs[i] = history[i].after
  /\ \A i \in DOMAIN history : SentAs(history[i].before, history[i].after)

\* A redraw is completed only for a client that passed a 'more' flag.
RedrawInv == redraw # Idle => redraw.more

\* Every reference number given so far is at most my_ref.
RefsInv ==
  /\ used \subseteq 1..my_ref
  /\ \A i \in DOMAIN history : history[i].after.code \in Stamped =>
       /\ history[i].after.block.ref \in 1..my_ref
       /\ history[i].after.block.ref \notin used
  /\ \A i, j \in DOMAIN history :
       i < j /\ history[i].after.code \in Stamped /\ history[j].after.code \in Stamped
         => history[i].after.block.ref < history[j].after.block.ref

IInv == TypeOK /\ TrapInv /\ RefsInv /\ RedrawInv

Sending == [before : Message, after : Message]

-----------------------------------------------------------------------------
(* One message. *)

\* What is recorded of a message, with the sender read_sys_info gave.
Recorded(m, w) ==
  [Stamp(m) EXCEPT !.block.sender = IF m.code \in Stamped THEN w ELSE @]

LEMMA MessageFacts ==
  ASSUME NEW m \in Message
  PROVE  /\ m.code \in Codes /\ m.handle \in {0, 1}
         /\ m.block.sender \in Words \cup {Task} /\ m.block.ref \in Nat
         /\ m.block.data \in Words
         /\ m.block = [sender |-> m.block.sender, ref |-> m.block.ref,
                       data |-> m.block.data]
         /\ m = [code |-> m.code, block |-> m.block, handle |-> m.handle]
  BY DEF Message, Block

\* A change of a word in the header.
Event(c, s, r, d, h) ==
  [code |-> c, block |-> [sender |-> s, ref |-> r, data |-> d], handle |-> h]

LEMMA SenderSet ==
  ASSUME NEW c, NEW s, NEW r, NEW d, NEW h, NEW w
  PROVE  [Event(c, s, r, d, h) EXCEPT !.block.sender = w] = Event(c, w, r, d, h)
  BY DEF Event

LEMMA RefSet ==
  ASSUME NEW c, NEW s, NEW r, NEW d, NEW h, NEW n
  PROVE  [Event(c, s, r, d, h) EXCEPT !.block.ref = n] = Event(c, s, n, d, h)
  BY DEF Event

Filled(m, w, n) == [m EXCEPT !.block.sender = w, !.block.ref = n]

LEMMA HeaderSet ==
  ASSUME NEW m, NEW c, NEW s, NEW r, NEW d, NEW h, NEW w, NEW n,
         m = Event(c, s, r, d, h)
  PROVE  Filled(m, w, n) = Event(c, w, n, d, h)
<1>1. PICK x : x = [m EXCEPT !.block.sender = w]
  OBVIOUS
<1>2. x = Event(c, w, r, d, h)
  BY <1>1, SenderSet
<1>3. [x EXCEPT !.block.ref = n] = Event(c, w, n, d, h)
  BY <1>2, RefSet
<1>4. QED
  BY <1>1, <1>3, Zenon DEF Filled

LEMMA SameSender ==
  ASSUME NEW m, NEW c, NEW s, NEW r, NEW d, NEW h, m = Event(c, s, r, d, h)
  PROVE  [m EXCEPT !.block.sender = s] = m
  BY SenderSet

LEMMA IsEvent ==
  ASSUME NEW m \in Message
  PROVE  m = Event(m.code, m.block.sender, m.block.ref, m.block.data, m.handle)
  BY MessageFacts DEF Event

\* Filling in a header changes nothing else, and in no event but a user message.
LEMMA StampFacts ==
  ASSUME NEW m \in Message
  PROVE  /\ m.code \in Stamped =>
              Stamp(m) = Event(m.code, Task, my_ref + 1, m.block.data, m.handle)
         /\ m.code \notin Stamped => Stamp(m) = m
<1>1. Filled(m, Task, my_ref + 1) =
        Event(m.code, Task, my_ref + 1, m.block.data, m.handle)
  BY IsEvent, HeaderSet
<1>2. Stamp(m) = IF m.code \in Stamped THEN Filled(m, Task, my_ref + 1) ELSE m
  BY Zenon DEF Stamp, Filled
<1>3. QED
  BY <1>1, <1>2

LEMMA RecordedFacts ==
  ASSUME my_ref \in Nat, NEW m \in Message, NEW w \in Words \cup {Task},
         Asserts => w = Task
  PROVE  /\ Recorded(m, w) \in Message
         /\ Recorded(m, w).code = m.code
         /\ m.code \in Stamped => Recorded(m, w).block.ref = my_ref + 1
         /\ SentAs(m, Recorded(m, w))
<1> DEFINE s == Stamp(m)
<1>1. CASE m.code \in Stamped
  <2>1. s = Event(m.code, Task, my_ref + 1, m.block.data, m.handle)
    BY <1>1, StampFacts
  <2>2. Recorded(m, w) = [s EXCEPT !.block.sender = w]
    BY <1>1 DEF Recorded
  <2> HIDE DEF s
  <2>3. Recorded(m, w) = Event(m.code, w, my_ref + 1, m.block.data, m.handle)
    BY <2>1, <2>2, SenderSet
  <2>4. Recorded(m, w) \in Message
    BY <2>3, MessageFacts DEF Event, Message, Block
  <2>5. QED
    BY <1>1, <2>3, <2>4 DEF SentAs, Event
<1>2. CASE m.code \notin Stamped
  <2>1. s = m
    BY <1>2, StampFacts
  <2>2. Recorded(m, w) = [s EXCEPT !.block.sender = s.block.sender]
    BY <1>2 DEF Recorded
  <2> HIDE DEF s
  <2>3. Recorded(m, w) = [m EXCEPT !.block.sender = m.block.sender]
    BY <2>1, <2>2
  <2>4. Recorded(m, w) = m
    BY <2>3, IsEvent, SameSender
  <2>5. QED
    BY <1>2, <2>4 DEF SentAs
<1>3. QED
  BY <1>1, <1>2

-----------------------------------------------------------------------------
(* The steps. *)

\* The invariant in the parts that different actions change.
TrapTypes ==
  /\ capture \in BOOLEAN
  /\ msgs \in Seq(Message) /\ Len(msgs) <= MaxMsgs
  /\ my_ref \in 0..MaxRef
  /\ history \in Seq(Sending)
  /\ used \subseteq 1..MaxRef

RestTypes ==
  /\ pointer \in {<<>>} \cup {<<w>> : w \in Words}
  /\ dbuf \in Words
  /\ rects \in {Closed, Broken} \cup 0..MaxRects
  /\ redraw \in {Idle} \cup [op : {"redraw_window", "get_rectangle"}, more : BOOLEAN]

RetTypes ==
  /\ ret \in [op : Op, err : {NoError, SimulatedError, WimpError}]
  /\ status \in {"running", "aborted", "crashed"}

TrapPart == TrapTypes /\ TrapInv /\ RefsInv
RestPart == RestTypes /\ RedrawInv

LEMMA Parts ==
  /\ IInv <=> TrapPart /\ RestPart /\ RetTypes
  /\ IInv' <=> TrapPart' /\ RestPart' /\ RetTypes'
  BY DEF IInv, TypeOK, TrapPart, RestPart, RetTypes, TrapTypes, RestTypes, Sending

\* Steps that leave a part alone.
LEMMA SameTrap ==
  ASSUME TrapPart, UNCHANGED trap
  PROVE  TrapPart'
  BY DEF TrapPart, TrapTypes, TrapInv, RefsInv, trap

LEMMA SameRest ==
  ASSUME RestPart, UNCHANGED rest
  PROVE  RestPart'
  BY DEF RestPart, RestTypes, RedrawInv, rest

LEMMA SameRet ==
  ASSUME RetTypes
  PROVE  /\ UNCHANGED <<ret, status>> => RetTypes'
         /\ \A how \in {"aborted", "crashed"} : Stops(how) => RetTypes'
         /\ \A op \in Op, err \in {NoError, SimulatedError, WimpError} :
              Returns(op, err) => RetTypes'
  BY DEF RetTypes, Stops, Returns

LEMMA InitInv == Init => IInv
<1> SUFFICES ASSUME Init PROVE IInv
  OBVIOUS
<1>1. TrapPart
  <2>1. Len(<<>>) = 0 /\ DOMAIN <<>> = {} /\ \A S : <<>> \in Seq(S)
    OBVIOUS
  <2>2. msgs = <<>> /\ history = <<>> /\ my_ref = 0 /\ capture = FALSE /\ used = {}
    BY DEF Init
  <2>3. TrapTypes
    <3>1. 0 \in 0..MaxRef /\ 0 <= MaxMsgs
      BY CapAssumption, BoundsAssumption
    <3>2. QED
      BY <2>1, <2>2, <3>1 DEF TrapTypes
  <2>4. TrapInv
    BY <2>1, <2>2 DEF TrapInv
  <2>5. RefsInv
    BY <2>1, <2>2 DEF RefsInv
  <2>6. QED
    BY <2>3, <2>4, <2>5 DEF TrapPart
<1>2. RestPart
  BY BoundsAssumption, WordAssumption DEF Init, RestPart, RestTypes, RedrawInv
<1>3. RetTypes
  BY DEF Init, RetTypes, Op
<1>4. QED
  BY <1>1, <1>2, <1>3, Parts

\* A message is appended to the history, and to the trap while there is room.
LEMMA SendTrap ==
  ASSUME TrapPart, NEW m \in Message, NEW after \in Message,
         my_ref < MaxRef, SentAs(m, after), after.code = m.code,
         m.code \in Stamped => after.block.ref = my_ref + 1,
         my_ref' = IF m.code \in Stamped THEN my_ref + 1 ELSE my_ref,
         Record(after),
         history' = Append(history, [before |-> m, after |-> after]),
         UNCHANGED <<capture, used>>
  PROVE  TrapPart'
<1> DEFINE sent == [before |-> m, after |-> after]
           n == Len(history)
           k == Len(msgs)
<1>1. /\ my_ref \in Nat /\ my_ref' \in 0..MaxRef
      /\ my_ref <= my_ref'
      /\ m.code \in Stamped => my_ref' = my_ref + 1
  BY BoundsAssumption DEF TrapPart, TrapTypes
<1>2. sent \in Sending /\ sent.before = m /\ sent.after = after
  BY DEF Sending
<1> HIDE DEF sent
<1>3. /\ history' \in Seq(Sending) /\ n \in Nat /\ Len(history') = n + 1
      /\ DOMAIN history = 1..n /\ DOMAIN history' = 1..(n + 1)
      /\ history'[n + 1] = sent
      /\ \A i \in 1..n : history'[i] = history[i]
  <2>1. history \in Seq(Sending)
    BY DEF TrapPart, TrapTypes
  <2>2. history' = Append(history, sent)
    BY DEF sent
  <2>3. QED
    BY <1>2, <2>1, <2>2, AppendProperties, LenProperties
<1>4. /\ msgs \in Seq(Message) /\ k \in Nat /\ DOMAIN msgs = 1..k
      /\ \A i \in 1..k : msgs[i] = history[i].after
  BY LenProperties DEF TrapPart, TrapTypes, TrapInv
<1>5. k <= MaxMsgs /\ k <= n /\ (k = MaxMsgs \/ k = n) /\ MaxMsgs \in Nat
  BY CapAssumption DEF TrapPart, TrapTypes, TrapInv
<1>6. msgs' = IF k < MaxMsgs THEN Append(msgs, after) ELSE msgs
  BY DEF Record
<1>7. k = Len(msgs)
  OBVIOUS
<1> HIDE DEF n, k
<1>8. /\ msgs' \in Seq(Message) /\ Len(msgs') <= MaxMsgs /\ Len(msgs') <= n + 1
      /\ Len(msgs') = MaxMsgs \/ Len(msgs') = n + 1
      /\ \A i \in DOMAIN msgs' : msgs'[i] = history'[i].after
  <2>1. CASE k < MaxMsgs
    <3>1. msgs' = Append(msgs, after) /\ k = n
      BY <1>5, <1>6, <2>1
    <3>2. /\ msgs' \in Seq(Message) /\ Len(msgs') = n + 1 /\ DOMAIN msgs' = 1..(n + 1)
          /\ msgs'[n + 1] = after
          /\ \A i \in 1..n : msgs'[i] = msgs[i]
      BY <1>4, <1>7, <3>1, AppendProperties, LenProperties
    <3>3. \A i \in 1..(n + 1) : i \in 1..n \/ i = n + 1
      BY <1>3
    <3>4. \A i \in DOMAIN msgs' : msgs'[i] = history'[i].after
      BY <1>2, <1>3, <1>4, <3>1, <3>2, <3>3
    <3>5. QED
      BY <1>3, <1>5, <2>1, <3>1, <3>2, <3>4
  <2>2. CASE ~(k < MaxMsgs)
    <3>1. msgs' = msgs /\ k = MaxMsgs
      BY <1>4, <1>5, <1>6, <2>2
    <3>2. \A i \in 1..k : i \in 1..n
      BY <1>3, <1>4, <1>5
    <3>3. QED
      BY <1>3, <1>4, <1>5, <1>7, <3>1, <3>2
  <2>3. QED
    BY <2>1, <2>2
<1>9. \A i \in 1..(n + 1) : i \in 1..n \/ i = n + 1
  BY <1>3
<1>10. \A i \in DOMAIN history' : SentAs(history'[i].before, history'[i].after)
  BY <1>2, <1>3, <1>9 DEF TrapPart, TrapInv
<1>11. RefsInv'
  <2>1. /\ used \subseteq 1..my_ref
        /\ \A x \in 1..n : history[x].after.code \in Stamped =>
             history[x].after.block.ref \in 1..my_ref /\ history[x].after.block.ref \notin used
    BY <1>3 DEF TrapPart, RefsInv
  <2>2. used' \subseteq 1..my_ref' /\ my_ref + 1 \notin used'
    BY <1>1, <2>1
  <2>3. \A x \in 1..(n + 1) : history'[x].after.code \in Stamped =>
          history'[x].after.block.ref \in 1..my_ref' /\ history'[x].after.block.ref \notin used'
    BY <1>1, <1>2, <1>3, <1>9, <2>1, <2>2
  <2>4. ASSUME NEW i \in DOMAIN history', NEW j \in DOMAIN history',
               i < j, history'[i].after.code \in Stamped, history'[j].after.code \in Stamped
        PROVE  history'[i].after.block.ref < history'[j].after.block.ref
    <3>1. i \in 1..n
      BY <1>3, <2>4
    <3>2. CASE j \in 1..n
      BY <1>3, <2>4, <3>1, <3>2 DEF TrapPart, RefsInv
    <3>3. CASE j = n + 1
      <4>1. history'[i].after.block.ref \in 1..my_ref
        BY <1>3, <2>1, <2>4, <3>1
      <4>2. history'[j].after.block.ref = my_ref + 1
        BY <1>2, <1>3, <2>4, <3>3
      <4>3. QED
        BY <1>1, <4>1, <4>2
    <3>4. QED
      BY <1>3, <1>9, <2>4, <3>2, <3>3
  <2>5. QED
    BY <1>3, <2>2, <2>3, <2>4 DEF RefsInv
<1>12. capture' \in BOOLEAN /\ used' \subseteq 1..MaxRef
  BY DEF TrapPart, TrapTypes
<1>13. QED
  BY <1>1, <1>3, <1>8, <1>10, <1>11, <1>12 DEF TrapPart, TrapTypes, TrapInv

\* A send is intercepted, sent by the Wimp, or fails.  The outcome says what that
\* does to the trap and what the client is told.
LEMMA SendOutcome ==
  ASSUME IInv, NEW m \in Sends, NEW th \in BOOLEAN, NEW block \in BOOLEAN,
         pseudo_wimp_send_message(m, th, block)
  PROVE  \/ UNCHANGED trap /\ RetTypes'
         \/ /\ TrapPart' /\ RetTypes'
            /\ Asserts => ret'.err = NoError
<1>1. m \in Message
  BY SendsAssumption
<1>2. my_ref < MaxRef /\ my_ref \in Nat /\ TrapPart /\ RetTypes
  BY Parts, BoundsAssumption DEF pseudo_wimp_send_message, TrapPart, TrapTypes
<1>3. /\ \A how \in {"aborted", "crashed"} : Stops(how) => RetTypes'
      /\ \A err \in {NoError, SimulatedError, WimpError} :
           Returns("send_message", err) => RetTypes'
  <2>1. "send_message" \in Op
    BY DEF Op
  <2>2. QED
    BY <1>2, <2>1, SameRet
<1>4. ASSUME Capture(m, th, block)
      PROVE  \/ UNCHANGED trap /\ RetTypes'
             \/ /\ TrapPart' /\ RetTypes'
                /\ Asserts => ret'.err = NoError
  <2> DEFINE query == th /\ m.handle # 0
  <2>1. PICK sysErr \in (IF m.code \in Stamped THEN wimp ELSE {NoError}),
             queryErr \in (IF query THEN wimp ELSE {NoError}) :
          \/ Stops("aborted") /\ UNCHANGED trap
          \/ Stops("crashed") /\ UNCHANGED trap
          \/ /\ {sysErr, queryErr} = {NoError} \/ ~Asserts
             /\ my_ref' = IF m.code \in Stamped THEN my_ref + 1 ELSE my_ref
             /\ \E w \in (IF sysErr = NoError THEN {Task} ELSE Words) :
                  /\ Record(Recorded(m, w))
                  /\ history' = Append(history, [before |-> m, after |-> Recorded(m, w)])
             /\ Returns("send_message", IF query THEN queryErr ELSE sysErr)
             /\ UNCHANGED <<capture, used>>
    BY <1>4, Zenon DEF Capture, Recorded
  <2>2. CASE (Stops("aborted") \/ Stops("crashed")) /\ UNCHANGED trap
    BY <1>3, <2>2
  <2>3. ASSUME {sysErr, queryErr} = {NoError} \/ ~Asserts,
               my_ref' = IF m.code \in Stamped THEN my_ref + 1 ELSE my_ref,
               NEW w \in (IF sysErr = NoError THEN {Task} ELSE Words),
               Record(Recorded(m, w)),
               history' = Append(history, [before |-> m, after |-> Recorded(m, w)]),
               Returns("send_message", IF query THEN queryErr ELSE sysErr),
               UNCHANGED <<capture, used>>
        PROVE  TrapPart' /\ RetTypes' /\ (Asserts => ret'.err = NoError)
    <3>1. w \in Words \cup {Task} /\ (Asserts => w = Task)
      BY <2>3
    <3>2. /\ Recorded(m, w) \in Message
          /\ Recorded(m, w).code = m.code
          /\ m.code \in Stamped => Recorded(m, w).block.ref = my_ref + 1
          /\ SentAs(m, Recorded(m, w))
      BY <1>1, <1>2, <3>1, RecordedFacts
    <3>3. TrapPart'
      BY <1>1, <1>2, <2>3, <3>2, SendTrap
    <3>4. (IF query THEN queryErr ELSE sysErr) \in {NoError, SimulatedError, WimpError}
      BY DEF wimp
    <3>5. Asserts => ret'.err = NoError
      BY <2>3 DEF Returns
    <3>6. QED
      BY <1>3, <2>3, <3>3, <3>4, <3>5
  <2>4. QED
    BY <2>1, <2>2, <2>3
<1>5. ASSUME NEW w \in wimp \cup pseudokern_fail, Returns("send_message", w), UNCHANGED trap
      PROVE  UNCHANGED trap /\ RetTypes'
  BY <1>3, <1>5 DEF wimp, pseudokern_fail
<1>6. \/ (Stops("aborted") \/ Stops("crashed")) /\ UNCHANGED trap
      \/ Capture(m, th, block)
      \/ \E w \in wimp \cup pseudokern_fail : Returns("send_message", w) /\ UNCHANGED trap
  BY DEF pseudo_wimp_send_message
<1>7. QED
  BY <1>3, <1>4, <1>5, <1>6

\* A step of a redraw leaves the trap alone; a loop that is still to end has a
\* 'more' flag, and when it ends the redraw is closed or the Wimp failed in it.
LEMMA RectangleFacts ==
  ASSUME RestTypes, NEW w \in wimp,
         wimp_get_rectangle(w) \/ (rects \notin Nat /\ wimp_redraw_window(w))
  PROVE  /\ rects' \in {Closed, Broken} \cup 0..MaxRects
         /\ w # NoError => rects' \in {Closed, Broken}
<1>1. /\ rects \in {Closed, Broken} \cup 0..MaxRects /\ MaxRects \in Nat
      /\ Closed = -1 /\ Broken = -2
  BY BoundsAssumption DEF RestTypes, Closed, Broken
<1>2. WimpError # NoError
  BY WimpErrorAssumption
<1>3. CASE wimp_get_rectangle(w)
  BY <1>1, <1>2, <1>3 DEF wimp_get_rectangle, wimp
<1>4. CASE rects \notin Nat /\ wimp_redraw_window(w)
  BY <1>1, <1>2, <1>4 DEF wimp_redraw_window, wimp
<1>5. QED
  BY <1>3, <1>4

LEMMA BeginRedrawStep ==
  ASSUME IInv, NEW op \in {"redraw_window", "get_rectangle"}, NEW more \in BOOLEAN,
         BeginRedraw(op, more)
  PROVE  UNCHANGED trap /\ RestPart' /\ RetTypes'
<1>1. RestTypes /\ RetTypes /\ redraw = Idle /\ op \in Op
  BY Parts DEF RestPart, BeginRedraw, Running, Op
<1>2. PICK e \in pseudokern_fail, w \in wimp :
        /\ RedrawCall(op, w)
        /\ \/ e = NoError /\ Returns(op, w) /\ UNCHANGED redraw
           \/ /\ more
              /\ redraw' = [op |-> op, more |-> more]
              /\ UNCHANGED <<ret, status>>
           \/ /\ Returns(op, SimulatedError)
              /\ UNCHANGED redraw
  BY DEF BeginRedraw
<1>3. rects' \in {Closed, Broken} \cup 0..MaxRects
  BY <1>1, <1>2, RectangleFacts DEF RedrawCall
<1>4. redraw' = Idle \/ (more /\ redraw' = [op |-> op, more |-> more])
  BY <1>1, <1>2
<1>5. redraw' \in {Idle} \cup [op : {"redraw_window", "get_rectangle"}, more : BOOLEAN]
  BY <1>4
<1>6. redraw' # Idle => redraw'.more
  BY <1>4
<1>7. UNCHANGED <<trap, pointer, dbuf>>
  BY DEF BeginRedraw
<1>8. RestPart'
  BY <1>1, <1>3, <1>5, <1>6, <1>7 DEF RestPart, RestTypes, RedrawInv
<1>9. w \in {NoError, SimulatedError, WimpError}
  BY DEF wimp
<1>10. RetTypes'
  BY <1>1, <1>2, <1>9, SameRet
<1>11. QED
  BY <1>7, <1>8, <1>10

LEMMA RedrawLoopStep ==
  ASSUME IInv, RedrawLoop
  PROVE  /\ UNCHANGED trap /\ RestPart' /\ RetTypes'
         /\ redraw' = Idle => rects' \in {Closed, Broken}
<1>1. /\ RestTypes /\ RetTypes /\ redraw # Idle /\ redraw.more /\ redraw.op \in Op
      /\ redraw \in [op : {"redraw_window", "get_rectangle"}, more : BOOLEAN]
  BY Parts DEF RestPart, RestTypes, RedrawInv, RedrawLoop, Op
<1>2. PICK w \in wimp :
        /\ wimp_get_rectangle(w)
        /\ \/ UNCHANGED <<redraw, ret, status>>
           \/ /\ w # NoError
              /\ redraw' = Idle
              /\ Returns(redraw.op, SimulatedError)
  BY <1>1 DEF RedrawLoop
<1>3. /\ rects' \in {Closed, Broken} \cup 0..MaxRects
      /\ w # NoError => rects' \in {Closed, Broken}
  BY <1>1, <1>2, RectangleFacts
<1>4. UNCHANGED <<trap, pointer, dbuf>>
  BY DEF RedrawLoop
<1>5. /\ redraw' \in {Idle, redraw}
      /\ redraw' = Idle => rects' \in {Closed, Broken}
  BY <1>1, <1>2, <1>3
<1>6. RestPart'
  BY <1>1, <1>3, <1>4, <1>5 DEF RestPart, RestTypes, RedrawInv
<1>7. RetTypes'
  BY <1>1, <1>2, SameRet
<1>8. QED
  BY <1>4, <1>5, <1>6, <1>7

\* What any step does: it preserves the invariant, a failing send has no effect when
\* assertions are compiled in, and a redraw loop ends with the redraw
\* closed, or broken by the Wimp.
LEMMA AnyStep ==
  ASSUME IInv, [Next]_vars
  PROVE  /\ IInv'
         /\ Asserts /\ ret'.op = "send_message" /\ ret'.err # NoError
              => UNCHANGED <<msgs, my_ref>>
         /\ redraw # Idle /\ redraw' = Idle => rects' \in {Closed, Broken}
<1>1. TrapPart /\ RestPart /\ RetTypes
  BY Parts
<1>2. /\ UNCHANGED <<ret, status>> => RetTypes'
      /\ \A op \in Op, err \in {NoError, SimulatedError, WimpError} :
           Returns(op, err) => RetTypes'
  BY <1>1, SameRet
<1>3. ASSUME UNCHANGED trap, RestPart', RetTypes', redraw = Idle \/ redraw' = redraw
      PROVE  /\ IInv'
             /\ Asserts /\ ret'.op = "send_message" /\ ret'.err # NoError
                  => UNCHANGED <<msgs, my_ref>>
             /\ redraw # Idle /\ redraw' = Idle => rects' \in {Closed, Broken}
  BY <1>1, <1>3, SameTrap, Parts DEF trap
<1>4. /\ pseudokern_fail \subseteq {NoError, SimulatedError, WimpError}
      /\ wimp \subseteq {NoError, SimulatedError, WimpError}
      /\ NoError \in {NoError, SimulatedError, WimpError}
      /\ WimpError \in {NoError, SimulatedError, WimpError}
      /\ {"reset", "get_message", "set_pointer_info", "get_pointer_info",
          "transfer_block", "veneer"} \subseteq Op
  BY DEF pseudokern_fail, wimp, Op
<1>5. CASE pseudo_wimp_reset
  <2>1. /\ msgs' = <<>> /\ history' = <<>> /\ capture' = TRUE /\ my_ref' = my_ref
        /\ used' = used \cup Given /\ UNCHANGED rest /\ redraw = Idle /\ Returns("reset", NoError)
    BY <1>5 DEF pseudo_wimp_reset, Running
  <2>2. Len(<<>>) = 0 /\ DOMAIN <<>> = {} /\ \A S : <<>> \in Seq(S)
    OBVIOUS
  <2>3. 0 <= MaxMsgs
    BY CapAssumption
  <2>4. TrapPart'
    <3>1. used' \subseteq 1..my_ref /\ my_ref \in 0..MaxRef
      BY <1>1, <2>1 DEF TrapPart, TrapTypes, RefsInv, Given
    <3>2. used' \subseteq 1..MaxRef
      BY <3>1, BoundsAssumption
    <3>3. TrapTypes' /\ TrapInv'
      BY <1>1, <2>1, <2>2, <2>3, <3>2 DEF TrapPart, TrapTypes, TrapInv
    <3>4. RefsInv'
      BY <2>1, <2>2, <3>1 DEF RefsInv
    <3>5. QED
      BY <3>3, <3>4 DEF TrapPart
  <2>5. RestPart' /\ RetTypes'
    BY <1>1, <1>2, <1>4, <2>1, SameRest
  <2>6. ret'.op # "send_message"
    BY <2>1 DEF Returns
  <2>7. QED
    BY <2>1, <2>4, <2>5, <2>6, Parts
<1>6. ASSUME NEW m \in Sends, NEW th \in BOOLEAN, NEW block \in BOOLEAN,
             pseudo_wimp_send_message(m, th, block)
      PROVE  /\ IInv'
             /\ Asserts /\ ret'.op = "send_message" /\ ret'.err # NoError
                  => UNCHANGED <<msgs, my_ref>>
             /\ redraw # Idle /\ redraw' = Idle => rects' \in {Closed, Broken}
  <2>1. redraw = Idle /\ UNCHANGED rest
    BY <1>6 DEF pseudo_wimp_send_message, Running, Capture
  <2>2. RestPart'
    BY <1>1, <2>1, SameRest
  <2>3. CASE UNCHANGED trap /\ RetTypes'
    BY <1>3, <2>1, <2>2, <2>3
  <2>4. CASE TrapPart' /\ RetTypes' /\ (Asserts => ret'.err = NoError)
    BY <2>1, <2>2, <2>4, Parts
  <2>5. QED
    BY <1>6, <2>3, <2>4, SendOutcome
<1>7. ASSUME NEW index \in 0..MaxMsgs, pseudo_wimp_get_message(index)
      PROVE  UNCHANGED trap /\ RestPart' /\ RetTypes' /\ redraw = Idle
  <2>1. /\ UNCHANGED <<trap, rest>> /\ redraw = Idle
        /\ Returns("get_message", NoError) \/ Stops("aborted") \/ Stops("crashed")
    BY <1>7 DEF pseudo_wimp_get_message, Running
  <2>2. QED
    BY <1>1, <1>2, <1>4, <2>1, SameRest, SameRet
<1>8. ASSUME NEW w \in Words, pseudo_wimp_set_pointer_info(w)
      PROVE  UNCHANGED trap /\ RestPart' /\ RetTypes' /\ redraw = Idle
  <2>1. pointer' = <<w>> /\ UNCHANGED <<dbuf, rects, redraw>>
    BY <1>8 DEF pseudo_wimp_set_pointer_info
  <2>2. RestPart'
    BY <1>1, <2>1 DEF RestPart, RestTypes, RedrawInv
  <2>3. QED
    BY <1>2, <1>4, <1>8, <2>2 DEF pseudo_wimp_set_pointer_info, Running
<1>9. ASSUME NEW w \in Words, pseudo_wimp_transfer_block(w)
      PROVE  UNCHANGED trap /\ RestPart' /\ RetTypes' /\ redraw = Idle
  <2>1. dbuf' \in Words /\ UNCHANGED <<trap, pointer, rects, redraw>> /\ redraw = Idle
    BY <1>1, <1>9 DEF pseudo_wimp_transfer_block, Running, RestPart, RestTypes
  <2>2. RestPart'
    BY <1>1, <2>1 DEF RestPart, RestTypes, RedrawInv
  <2>3. RetTypes'
    BY <1>2, <1>4, <1>9 DEF pseudo_wimp_transfer_block
  <2>4. QED
    BY <2>1, <2>2, <2>3
<1>10. ASSUME pseudo_wimp_get_pointer_info
       PROVE  UNCHANGED trap /\ RestPart' /\ RetTypes' /\ redraw = Idle
  <2>1. dbuf' \in Words
    BY <1>1, <1>10 DEF pseudo_wimp_get_pointer_info, RestPart, RestTypes
  <2>2. UNCHANGED <<trap, pointer, rects, redraw>> /\ redraw = Idle
    BY <1>10 DEF pseudo_wimp_get_pointer_info, Running
  <2>3. RestPart'
    BY <1>1, <2>1, <2>2 DEF RestPart, RestTypes, RedrawInv
  <2>4. RetTypes'
    BY <1>2, <1>4, <1>10 DEF pseudo_wimp_get_pointer_info
  <2>5. QED
    BY <2>2, <2>3, <2>4
<1>11. ASSUME Veneer
       PROVE  UNCHANGED trap /\ RestPart' /\ RetTypes' /\ redraw = Idle
  BY <1>1, <1>2, <1>4, <1>11, SameRest DEF Veneer, Running
<1>12. ASSUME NEW op \in {"redraw_window", "get_rectangle"}, NEW more \in BOOLEAN,
              BeginRedraw(op, more)
       PROVE  UNCHANGED trap /\ RestPart' /\ RetTypes' /\ redraw = Idle
  BY <1>12, BeginRedrawStep DEF BeginRedraw, Running
<1>13. CASE RedrawLoop
  <2>1. /\ UNCHANGED trap /\ RestPart' /\ RetTypes'
        /\ redraw' = Idle => rects' \in {Closed, Broken}
    BY <1>13, RedrawLoopStep
  <2>2. QED
    BY <1>1, <2>1, SameTrap, Parts DEF trap
<1>14. CASE UNCHANGED vars
  BY <1>1, <1>2, <1>3, <1>14, SameRest DEF vars, rest, trap
<1>15. QED
  BY <1>3, <1>5, <1>6, <1>7, <1>8, <1>9, <1>10, <1>11, <1>12, <1>13, <1>14 DEF Next

LEMMA SpecInv == Spec => []IInv
<1>1. IInv /\ [Next]_vars => IInv'
  BY AnyStep
<1>2. QED
  BY InitInv, <1>1, PTL DEF Spec

-----------------------------------------------------------------------------
(* The theorems. *)

\* Every variable keeps its type; the trap never holds more than its array has room
\* for (PseudoWimp.c:232).
THEOREM TypeSafety == Spec => []TypeOK
<1>1. IInv => TypeOK
  BY DEF IInv
<1>2. QED
  BY SpecInv, <1>1, PTL

\* Reference numbers grow in the order of sending, whatever is sent or dropped, and
\* none given before a reset is given again after it, in either build
\* (PseudoWimp.c:202, 207).
THEOREM RefsAlwaysIncrease == Spec => []RefsIncrease
<1>1. ASSUME IInv
      PROVE  RefsIncrease
  <2> SUFFICES ASSUME NEW i \in DOMAIN history, history[i].after.code \in Stamped
               PROVE  /\ history[i].after.block.ref # 0
                      /\ history[i].after.block.ref \notin used
                      /\ \A j \in 1..(i - 1) : history[j].after.code \in Stamped =>
                           history[j].after.block.ref < history[i].after.block.ref
    BY DEF RefsIncrease
  <2>1. i \in 1..Len(history) /\ Len(history) \in Nat /\ DOMAIN history = 1..Len(history)
    BY <1>1, LenProperties DEF IInv, TypeOK
  <2>2. \A j \in 1..(i - 1) : j \in DOMAIN history /\ j < i
    BY <2>1
  <2>3. history[i].after.block.ref \in 1..my_ref /\ my_ref \in Nat
    BY <1>1, BoundsAssumption DEF IInv, RefsInv, TypeOK
  <2>4. QED
    BY <1>1, <2>2, <2>3 DEF IInv, RefsInv
<1>2. QED
  BY SpecInv, <1>1, PTL

\* With assertions compiled in the trap is what was sent, in order, but for what was
\* sent when it was full, which is lost without an error; without them the sender
\* may be anything (PseudoWimp.c:200-247).
THEOREM TrapAlwaysFaithful == Asserts => (Spec => []TrapFaithful)
<1> SUFFICES ASSUME Asserts
             PROVE  Spec => []TrapFaithful
  OBVIOUS
<1>1. ASSUME IInv, NEW i \in DOMAIN msgs
      PROVE  LET sent == history[i].before
                 got == msgs[i]
             IN /\ [got EXCEPT !.block = sent.block] = sent
                /\ got.block.data = sent.block.data
                /\ IF got.code \in Stamped
                   THEN got.block.sender = Task
                   ELSE got.block = sent.block
  <2> DEFINE sent == history[i].before
             got == msgs[i]
  <2>1. i \in DOMAIN history
    BY <1>1, LenProperties DEF IInv, TypeOK, TrapInv
  <2>2. SentAs(sent, got)
    BY <1>1, <2>1 DEF IInv, TrapInv
  <2>3. sent \in Message /\ got \in Message
    <3>1. /\ history \in Seq([before : Message, after : Message])
          /\ msgs \in Seq(Message)
      BY <1>1 DEF IInv, TypeOK
    <3>2. history[i] \in [before : Message, after : Message] /\ msgs[i] \in Message
      BY <1>1, <2>1, <3>1, ElementOfSeq, LenProperties
    <3>3. QED
      BY <3>2
  <2>4. /\ got = [code |-> got.code, block |-> got.block, handle |-> got.handle]
        /\ sent = [code |-> sent.code, block |-> sent.block, handle |-> sent.handle]
    BY <2>3, MessageFacts
  <2> HIDE DEF sent, got
  <2>5. [got EXCEPT !.block = sent.block] = sent
    BY <2>2, <2>4 DEF SentAs
  <2>6. QED
    BY <2>2, <2>5 DEF SentAs, sent, got
<1>2. ASSUME IInv
      PROVE  Len(msgs) = IF Len(history) < MaxMsgs THEN Len(history) ELSE MaxMsgs
  <2>1. /\ msgs \in Seq(Message) /\ Len(msgs) <= MaxMsgs
        /\ history \in Seq([before : Message, after : Message])
        /\ Len(msgs) <= Len(history) /\ (Len(msgs) = MaxMsgs \/ Len(msgs) = Len(history))
    BY <1>2 DEF IInv, TypeOK, TrapInv
  <2>2. Len(msgs) \in Nat /\ Len(history) \in Nat /\ MaxMsgs \in Nat
    BY <2>1, LenProperties, CapAssumption
  <2> DEFINE k == Len(msgs)
             n == Len(history)
  <2> HIDE DEF k, n
  <2>3. k \in Nat /\ n \in Nat /\ k <= MaxMsgs /\ k <= n /\ (k = MaxMsgs \/ k = n)
    BY <2>1, <2>2 DEF k, n
  <2>4. k = IF n < MaxMsgs THEN n ELSE MaxMsgs
    BY <2>2, <2>3
  <2>5. QED
    BY <2>4 DEF k, n
<1>4. IInv => TrapFaithful
  BY <1>1, <1>2 DEF TrapFaithful
<1>5. QED
  BY SpecInv, <1>4, PTL

\* With assertions compiled in, a send that returns an error has neither trapped its
\* message nor used up a reference number, whichever call it was that failed
\* (PseudoWimp.c:180-184, 205, 228).
THEOREM ErrorNeverSent == Asserts => (Spec => ErrorMeansNotSent)
<1> SUFFICES ASSUME Asserts
             PROVE  Spec => ErrorMeansNotSent
  OBVIOUS
<1>1. IInv /\ [Next]_vars =>
        [ret'.op = "send_message" /\ ret'.err # NoError => UNCHANGED <<msgs, my_ref>>]_vars
  BY AnyStep
<1>2. QED
  BY SpecInv, <1>1, PTL DEF Spec, ErrorMeansNotSent

\* The loop that completes a redraw after a simulated error ends only when the Wimp
\* has closed the redraw or failed in it, for any number of rectangles (PseudoWimp.c:343-349).
THEOREM LoopAlwaysCompletes == Spec => LoopCompletes
<1>1. IInv /\ [Next]_vars => [redraw # Idle /\ redraw' = Idle => rects' \in {Closed, Broken}]_vars
  BY AnyStep
<1>2. QED
  BY SpecInv, <1>1, PTL DEF Spec, LoopCompletes
=============================================================================
