----------------------------- MODULE PseudoWimp -----------------------------
(***************************************************************************)
(* PseudoWimp.c: the veneers to the Wimp library.  After a reset, outgoing *)
(* messages are trapped in an array instead of being sent; a simulated     *)
(* error during a redraw still drives the window manager's redraw protocol *)
(* to its end.  A redraw is the only call modelled as several steps: the   *)
(* Wimp is called in a loop there.                                         *)
(***************************************************************************)
EXTENDS Injection, Integers, Sequences, SequencesExt

CONSTANTS
  WimpError,    \* an error of the Wimp itself
  MaxMsgs,      \* size of the array msgs (32 in the code)
  MaxRef,       \* bound: messages given a reference in one behaviour
  MaxHistory,   \* bound: sends between two resets
  MaxRects,     \* bound: rectangles of a window that need redrawing
  Words,        \* values a word of an event block can have
  Task,         \* the program's own task handle
  Sends,        \* the messages and other events the client sends
  Asserts       \* are assertions compiled in?

ASSUME CapAssumption == MaxMsgs \in Nat \ {0}
ASSUME BoundsAssumption == {MaxRef, MaxHistory, MaxRects} \subseteq Nat
ASSUME BuildAssumption == Asserts \in BOOLEAN
ASSUME WordAssumption == 0 \in Words /\ Task \notin Words
ASSUME WimpErrorAssumption == WimpError \notin {NoError, SimulatedError}

\* Event codes.  Only the first two are stamped with a sender and reference.
Codes == {"user", "user_recorded", "user_acknowledge", "null", "other"}
Messages == {"user", "user_recorded", "user_acknowledge"}
Stamped == {"user", "user_recorded"}

\* The words of a block that are hdr.sender and hdr.my_ref in a message and
\* event data in any other event, and the data after them.
Block == [sender : Words \cup {Task}, ref : Nat, data : Words]
Message == [code : Codes, block : Block, handle : {0, 1}]

ASSUME SendsAssumption == Sends \subseteq Message

VARIABLES
  capture,   \* has pseudo_wimp_reset ever been called?
  msgs,      \* the messages trapped since; msg_count is its length
  my_ref,    \* the last reference number given to a message
  pointer,   \* pointer state set by a test, or <<>> for the real one
  dbuf,      \* what the client's receive buffer holds
  rects,     \* the Wimp: rectangles left in the open redraw, Closed, or Broken
  redraw,    \* the redraw call in progress, or Idle
  history,   \* what the client has sent with success since the last reset
  used,      \* the reference numbers given to messages before that
  ret,       \* which function returned last, and its error
  status     \* "running", "aborted" or "crashed"

vars == <<capture, msgs, my_ref, pointer, dbuf, rects, redraw, history, used, ret, status>>
trap == <<capture, msgs, my_ref, history, used>>
rest == <<pointer, dbuf, rects, redraw>>

Closed == -1
Broken == -2    \* the Wimp itself failed in the middle of a redraw, still open
Idle == [op |-> "none", more |-> FALSE]

\* The functions of PseudoWimp.c, those of equal bodies under one name.
Op == {"none", "reset", "send_message", "get_message", "set_pointer_info",
       "get_pointer_info", "transfer_block", "veneer", "redraw_window", "get_rectangle"}

TypeOK ==
  /\ capture \in BOOLEAN
  /\ msgs \in Seq(Message) /\ Len(msgs) <= MaxMsgs
  /\ my_ref \in 0..MaxRef
  /\ pointer \in {<<>>} \cup {<<w>> : w \in Words}
  /\ dbuf \in Words
  /\ rects \in {Closed, Broken} \cup 0..MaxRects
  /\ redraw \in {Idle} \cup [op : {"redraw_window", "get_rectangle"}, more : BOOLEAN]
  /\ history \in Seq([before : Message, after : Message])
  /\ used \subseteq 1..MaxRef
  /\ ret \in [op : Op, err : {NoError, SimulatedError, WimpError}]
  /\ status \in {"running", "aborted", "crashed"}

Init ==
  /\ capture = FALSE
  /\ msgs = <<>>
  /\ my_ref = 0
  /\ pointer = <<>>
  /\ dbuf = 0
  /\ rects = Closed
  /\ redraw = Idle
  /\ history = <<>>
  /\ used = {}
  /\ ret = [op |-> "none", err |-> NoError]
  /\ status = "running"

Running == status = "running" /\ redraw = Idle
Returns(op, err) == ret' = [op |-> op, err |-> err] /\ UNCHANGED status
Stops(how) == status' = how /\ UNCHANGED ret

\* What a call of the Wimp library itself may return.
wimp == {NoError, WimpError}

-----------------------------------------------------------------------------
(* The message trap. *)

\* The reference numbers given since the last reset.
Given == {history[i].after.block.ref :
            i \in {j \in DOMAIN history : history[j].after.code \in Stamped}}

\* Mutation: the numbering starts again.
ResetWithRefs ==
  /\ Running
  /\ msgs' = <<>>
  /\ capture' = TRUE
  /\ my_ref' = 0
  /\ history' = <<>>
  /\ used' = used \cup Given
  /\ Returns("reset", NoError)
  /\ UNCHANGED rest

pseudo_wimp_reset ==
  /\ Running
  /\ msgs' = <<>>
  /\ capture' = TRUE
  /\ history' = <<>>
  /\ used' = used \cup Given
  /\ Returns("reset", NoError)
  /\ UNCHANGED <<my_ref, rest>>

\* Mutation: every event is stamped, whatever its code.
StampAlways(m) == [m EXCEPT !.block.sender = Task, !.block.ref = my_ref + 1]

\* The header of an outgoing message is filled in, in the client's own block.
Stamp(m) ==
  IF m.code \in Stamped
  THEN [m EXCEPT !.block.sender = Task, !.block.ref = my_ref + 1]
  ELSE m

\* Mutation: no limit.
RecordAlways(m) == msgs' = Append(msgs, m)

\* Messages beyond the size of the array are dropped.
Record(m) ==
  msgs' = IF Len(msgs) < MaxMsgs THEN Append(msgs, m) ELSE msgs

\* A stamped message asks wimp_read_sys_info for the sender, and a client that
\* wants a task handle has the Wimp asked for it: an assertion stops the program
\* if either fails.  Without assertions the sender is then uninitialised, the
\* message is trapped all the same, and the last error is returned.  The block
\* is read, whatever the code is, while the trap has room.
Capture(m, th, block) ==
  LET query == th /\ m.handle # 0
      crashes == ~block /\ Len(msgs) < MaxMsgs
  IN \E sysErr \in (IF m.code \in Stamped THEN wimp ELSE {NoError}),
        queryErr \in (IF query THEN wimp ELSE {NoError}) :
       LET stopped == Asserts /\ {sysErr, queryErr} # {NoError}
       IN \/ /\ stopped \/ crashes
             /\ Stops(IF stopped THEN "aborted" ELSE "crashed")
             /\ UNCHANGED <<trap, rest>>
          \/ /\ ~stopped /\ ~crashes
             /\ my_ref' = IF m.code \in Stamped THEN my_ref + 1 ELSE my_ref
             /\ \E w \in (IF sysErr = NoError THEN {Task} ELSE Words) :
                  LET after == [Stamp(m) EXCEPT
                                  !.block.sender = IF m.code \in Stamped THEN w ELSE @]
                  IN /\ Record(after)
                     /\ history' = Append(history, [before |-> m, after |-> after])
             /\ Returns("send_message", IF query THEN queryErr ELSE sysErr)
             /\ UNCHANGED <<capture, used, rest>>

\* Mutation: the message is trapped before the gate is asked.
SendRecordingFirst(m, th, block) ==
  /\ Running
  /\ capture /\ block
  /\ my_ref < MaxRef
  /\ \E e \in pseudokern_fail :
       /\ my_ref' = IF m.code \in Stamped THEN my_ref + 1 ELSE my_ref
       /\ Record(Stamp(m))
       /\ Returns("send_message", e)
       /\ UNCHANGED <<capture, history, used, rest>>

\* Only a null event needs no block: an assertion says so, whatever the gate
\* answered, and without it the action code of a message is read from nowhere.
NeedsBlock(m, e) ==
  IF Asserts THEN m.code # "null" ELSE e = NoError /\ m.code \in Messages

\* th: is a task handle asked for?  block: is there a block at all?
pseudo_wimp_send_message(m, th, block) ==
  /\ Running
  /\ my_ref < MaxRef /\ Len(history) < MaxHistory
  /\ \E e \in pseudokern_fail :
       \/ /\ ~block /\ NeedsBlock(m, e)
          /\ Stops(IF Asserts THEN "aborted" ELSE "crashed")
          /\ UNCHANGED <<trap, rest>>
       \/ /\ block \/ ~NeedsBlock(m, e)
          /\ \/ /\ e # NoError
                /\ Returns("send_message", e)
                /\ UNCHANGED <<trap, rest>>
             \/ e = NoError /\ capture /\ Capture(m, th, block)
             \/ /\ e = NoError /\ ~capture
                /\ \E w \in wimp : Returns("send_message", w)
                /\ UNCHANGED <<trap, rest>>

\* Both functions that read the trap assert that the index is below the count.
\* Without assertions an old or meaningless message is read beyond it, and what
\* lies past the array may not be readable at all.
pseudo_wimp_get_message(index) ==
  /\ Running
  /\ \/ /\ index < Len(msgs) \/ ~Asserts
        /\ Returns("get_message", NoError)
     \/ /\ index >= (IF Asserts THEN Len(msgs) ELSE MaxMsgs)
        /\ Stops(IF Asserts THEN "aborted" ELSE "crashed")
  /\ UNCHANGED <<trap, rest>>

-----------------------------------------------------------------------------
(* The pointer, transfers between tasks and the plain veneers. *)

pseudo_wimp_set_pointer_info(w) ==
  /\ Running
  /\ pointer' = <<w>>
  /\ Returns("set_pointer_info", NoError)
  /\ UNCHANGED <<trap, dbuf, rects, redraw>>

\* The client's block receives the fake state, or the Wimp's.
pseudo_wimp_get_pointer_info ==
  /\ Running
  /\ \E e \in pseudokern_fail :
       \/ e # NoError /\ Returns("get_pointer_info", e) /\ UNCHANGED dbuf
       \/ /\ e = NoError /\ pointer # <<>>
          /\ dbuf' = pointer[1]
          /\ Returns("get_pointer_info", NoError)
       \/ /\ e = NoError /\ pointer = <<>>
          /\ \/ dbuf' \in Words /\ Returns("get_pointer_info", NoError)
             \/ UNCHANGED dbuf /\ Returns("get_pointer_info", WimpError)
  /\ UNCHANGED <<trap, pointer, rects, redraw>>

\* After a reset both addresses are taken to be the program's own.
pseudo_wimp_transfer_block(sbuf) ==
  /\ Running
  /\ \E e \in pseudokern_fail :
       \/ e # NoError /\ Returns("transfer_block", e) /\ UNCHANGED dbuf
       \/ /\ e = NoError /\ capture
          /\ dbuf' = sbuf
          /\ Returns("transfer_block", NoError)
       \/ /\ e = NoError /\ ~capture
          /\ \/ dbuf' \in Words /\ Returns("transfer_block", NoError)
             \/ UNCHANGED dbuf /\ Returns("transfer_block", WimpError)
  /\ UNCHANGED <<trap, pointer, rects, redraw>>

\* pseudo_wimp_read_sys_info, _get_window_state, _get_caret_position,
\* _drag_box and _set_colour: the gate, then the Wimp.
Veneer ==
  /\ Running
  /\ \E e \in pseudokern_fail :
       \/ e # NoError /\ Returns("veneer", e)
       \/ e = NoError /\ \E w \in wimp : Returns("veneer", w)
  /\ UNCHANGED <<trap, rest>>

-----------------------------------------------------------------------------
(* The Wimp's redraw protocol: wimp_redraw_window opens a redraw and finds   *)
(* the first rectangle, wimp_get_rectangle the next, and the redraw is       *)
(* closed when there is none left.  wimp_get_rectangle without an open       *)
(* redraw is an error; so may be any other call, and the redraw that the     *)
(* Wimp fails in the middle of stays open for good.                          *)

wimp_redraw_window(err) ==
  \/ /\ err = WimpError /\ UNCHANGED rects
  \/ /\ err = NoError
     /\ \E n \in 0..MaxRects : rects' = IF n = 0 THEN Closed ELSE n - 1

wimp_get_rectangle(err) ==
  \/ err = WimpError /\ rects' = IF rects = Closed THEN Closed ELSE Broken
  \/ /\ err = NoError /\ rects \in Nat
     /\ rects' = IF rects = 0 THEN Closed ELSE rects - 1

\* The client opens one redraw at a time and asks only for its rectangles.
RedrawCall(op, err) ==
  \/ op = "redraw_window" /\ rects \notin Nat /\ wimp_redraw_window(err)
  \/ op = "get_rectangle" /\ rects \in Nat /\ wimp_get_rectangle(err)

\* The call made through the gate, or the first call of the loop that follows
\* a simulated error.
BeginRedraw(op, more) ==
  /\ Running
  /\ \E e \in pseudokern_fail, w \in wimp :
       /\ RedrawCall(op, w)
       /\ \/ e = NoError /\ Returns(op, w) /\ UNCHANGED redraw
          \/ /\ e # NoError /\ w = NoError /\ more
             /\ redraw' = [op |-> op, more |-> more]
             /\ UNCHANGED <<ret, status>>
          \/ /\ e # NoError /\ ~(w = NoError /\ more)
             /\ Returns(op, SimulatedError)
             /\ UNCHANGED redraw
  /\ UNCHANGED <<trap, pointer, dbuf>>

\* Mutation: the loop asks for one rectangle only.
LoopOnce ==
  /\ status = "running" /\ redraw # Idle
  /\ \E w \in wimp : wimp_get_rectangle(w)
  /\ redraw' = Idle
  /\ Returns(redraw.op, SimulatedError)
  /\ UNCHANGED <<trap, pointer, dbuf>>

\* Mutation: an error of the Wimp does not end the loop.
LoopThroughErrors ==
  /\ status = "running" /\ redraw # Idle
  /\ \E w \in wimp : wimp_get_rectangle(w)
  /\ UNCHANGED <<redraw, ret, status, trap, pointer, dbuf>>

\* The loop asks for rectangles until the Wimp returns an error: the pointer
\* more is tested, not the flag it points to.
RedrawLoop ==
  /\ status = "running" /\ redraw # Idle
  /\ \E w \in wimp :
       /\ wimp_get_rectangle(w)
       /\ \/ /\ w = NoError /\ redraw.more
             /\ UNCHANGED <<redraw, ret, status>>
          \/ /\ ~(w = NoError /\ redraw.more)
             /\ redraw' = Idle
             /\ Returns(redraw.op, SimulatedError)
  /\ UNCHANGED <<trap, pointer, dbuf>>

-----------------------------------------------------------------------------

Next ==
  \/ pseudo_wimp_reset
  \/ \E m \in Sends, th \in BOOLEAN, block \in BOOLEAN :
       pseudo_wimp_send_message(m, th, block)
  \/ \E index \in 0..MaxMsgs : pseudo_wimp_get_message(index)
  \/ \E w \in Words :
       pseudo_wimp_set_pointer_info(w) \/ pseudo_wimp_transfer_block(w)
  \/ pseudo_wimp_get_pointer_info
  \/ Veneer
  \/ \E op \in {"redraw_window", "get_rectangle"}, more \in BOOLEAN :
       BeginRedraw(op, more)
  \/ RedrawLoop

\* The thread inside a redraw call keeps running; clients owe no call.
Spec == Init /\ [][Next]_vars /\ WF_vars(RedrawLoop)

-----------------------------------------------------------------------------
(* Properties. *)

\* The trap holds, in order, exactly the messages the client sent with success
\* since the last reset, but for those beyond its size, which are dropped and not
\* counted, though PseudoWimp.h:117-119 says that the count is that of the
\* messages sent.  Event data is recorded as it was passed, and only the header
\* of a user message is filled in.
TrapFaithful ==
  /\ Len(msgs) = (IF Len(history) < MaxMsgs THEN Len(history) ELSE MaxMsgs)
  /\ \A i \in DOMAIN msgs :
       LET sent == history[i].before
           got == msgs[i]
       IN /\ [got EXCEPT !.block = sent.block] = sent
          /\ got.block.data = sent.block.data
          /\ IF got.code \in Stamped
             THEN got.block.sender = Task
             ELSE got.block = sent.block

\* A reference number is never 0, which would say that the message is no reply, and
\* never used twice: the numbers grow in the order of sending, messages that no
\* longer fit in the trap included, and those given before a reset are not given
\* again after it.
RefsIncrease ==
  \A i \in DOMAIN history :
    history[i].after.code \in Stamped =>
      LET ref == history[i].after.block.ref
      IN /\ ref # 0 /\ ref \notin used
         /\ \A j \in 1..(i - 1) :
              history[j].after.code \in Stamped => history[j].after.block.ref < ref

\* A send that returns an error has neither trapped the message nor used up a
\* reference number.
ErrorMeansNotSent ==
  [][ret'.op = "send_message" /\ ret'.err # NoError
       => UNCHANGED <<msgs, my_ref>>]_vars

\* The loop that completes a redraw does not end with rectangles left that the
\* Wimp would still give: the redraw is closed, or the Wimp failed in it.
LoopCompletes == [][redraw # Idle /\ redraw' = Idle => rects' \in {Closed, Broken}]_vars

\* The redraw protocol is completed before a simulated error is returned from
\* wimp_redraw_window or wimp_get_rectangle (PseudoWimp.c:29-31), unless the Wimp
\* itself fails.
RedrawCompleted ==
  ret.op \in {"redraw_window", "get_rectangle"} /\ ret.err = SimulatedError
     /\ redraw = Idle
    => rects \in {Closed, Broken}

\* The loop that completes a redraw ends.
RedrawTerminates == redraw # Idle ~> redraw = Idle
=============================================================================
