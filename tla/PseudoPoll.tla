----------------------------- MODULE PseudoPoll -----------------------------
(***************************************************************************)
(* The polling half of PseudoEvnt.c, composed with the object records of   *)
(* PseudoTbox.  A poll takes an event from the queue and runs handlers of  *)
(* the client, which may do anything the client may do, polling included;  *)
(* print_event tells PseudoTbox of objects the Toolbox created or deleted, *)
(* before the handlers or after them.  One thread runs all of it, so the   *)
(* polls in progress form a stack.  The event library, the Wimp and the    *)
(* Toolbox, which fills in the client's ID block, are external.            *)
(***************************************************************************)
EXTENDS PseudoTbox

CONSTANTS MaxNest,      \* bound: polls in progress
          MaxMessages,  \* bound: user messages queued
          MaxRecords,   \* bound: records, the surplus ones included
          Masks,        \* bound: the sets of events that the client masks out
          Autos,        \* bound: the objects that the Toolbox creates by itself
          Owned,        \* bound: the objects that the client creates
          IdleCount     \* the first value of count in wait_for_idle: 511

ASSUME NestAssumption == {MaxNest, MaxMessages, MaxRecords} \subseteq Nat
ASSUME MasksAssumption == Masks \subseteq SUBSET {"null", "message"}
ASSUME MakersAssumption == Autos \cup Owned \subseteq ObjectId
ASSUME CountAssumption == IdleCount \in Nat

VARIABLES stack,         \* the polls in progress, the innermost last
          self_id,       \* the object in the client's ID block
          client_block,  \* is the ID block known?  Only if the client's call
                         \* of event_initialise was intercepted
          mask,          \* the events that event_set_mask has masked out
          messages,      \* the Wimp: user messages queued
          lost,          \* objects that exist without a record since an event was
                         \* not printed, or printed for another object
          surplus        \* identifiers with a record too many since then

place == <<stack, self_id, client_block, mask, messages>>
amiss == <<lost, surplus>>
polling == <<place, amiss>>
pollVars == <<vars, polling>>

\* The events a poll returns, other than those about objects.
ENull == [kind |-> "null", id |-> NULL_ObjectId]
UserMessage == [kind |-> "message", id |-> NULL_ObjectId]
ToolboxEvent == [kind : {"created", "deleted"}, id : ObjectId]

\* A poll waits for an event or runs the handlers of one; a plain one prints it
\* afterwards.  Of a wait for idle: the value of count and how many events it has
\* taken, as far as that matters.
Poll == [op : {"event_poll", "wait_for_idle"},
         at : {"poll", "handlers"},
         event : ToolboxEvent \cup {ENull},   \* an event about an object to be printed
         disturbed : BOOLEAN,   \* has an inner poll taken an event meanwhile?
         count : 0..IdleCount, taken : 0..(IdleCount + 1)]

PollTypeOK ==
  /\ stack \in Seq(Poll) /\ Len(stack) <= MaxNest
  /\ self_id \in ObjectId \cup {NULL_ObjectId}
  /\ client_block \in BOOLEAN
  /\ mask \in Masks
  /\ messages \in 0..MaxMessages
  /\ lost \subseteq ObjectId /\ surplus \subseteq ObjectId \cup {NULL_ObjectId}
  /\ objects \in Seq([id : ObjectId \cup {NULL_ObjectId}, is_showing : BOOLEAN])
  /\ events \in Seq(ToolboxEvent) /\ Len(events) <= MaxEvents

PollInit ==
  /\ Init
  /\ stack = <<>> /\ self_id = NULL_ObjectId /\ client_block \in BOOLEAN
  /\ mask \in Masks /\ messages = 0 /\ lost = {} /\ surplus = {}

\* The client runs at the top level and in handlers.
Top == stack[Len(stack)]
AtClient == stack # <<>> => Top.at = "handlers"
InClient == Running /\ AtClient
PollsWith(op) == stack # <<>> /\ Top.op = op /\ Top.at = "poll"

-----------------------------------------------------------------------------
(* What goes amiss.  An object is lost until it has a record again or is gone,  *)
(* and a record surplus until the last one with its identifier is gone.         *)

Amiss(unrecorded, stray) ==
  /\ lost' = (lost \cup unrecorded) \cap (Ids(toolbox') \ Ids(objects'))
  /\ surplus' = (surplus \cup stray) \cap Ids(objects')

\* Whom an event that is not printed leaves so.
Uncreated(event) == IF event.kind = "created" THEN {event.id} ELSE {}
Undeleted(event) == IF event.kind = "deleted" THEN {event.id} ELSE {}

Unheard(event) == Amiss(Uncreated(event), Undeleted(event))

\* An event printed for another object, or after another event about its own.
Misheard(event, id) ==
  Amiss(IF event.kind = "deleted" THEN {id} ELSE Uncreated(event),
        IF event.kind = "created" THEN {id} ELSE Undeleted(event))

-----------------------------------------------------------------------------
(* The rest of the system. *)

\* The client initialises the Toolbox; creates and deletes objects, possibly in
\* a handler.
ClientCalls ==
  /\ AtClient
  /\ \/ pseudo_toolbox_initialise
     \/ \E id \in Owned, t \in Template : pseudo_toolbox_create_object(id, t)
     \/ \E id \in ObjectId : pseudo_toolbox_delete_object(id)
  /\ Len(objects') <= MaxRecords
  /\ Amiss({}, {})
  /\ UNCHANGED place

\* Objects and messages come and go at any time.
ToolboxActs ==
  /\ \/ \E id \in Autos, t \in Template : AutoCreate(id, t)
     \/ \E id \in ObjectId : AutoDelete(id)
  /\ Amiss({}, {})
  /\ UNCHANGED place

MessageSent ==
  /\ Running
  /\ messages < MaxMessages
  /\ messages' = messages + 1
  /\ UNCHANGED <<vars, stack, self_id, client_block, mask, amiss>>

\* pseudo_event_set_mask: the gate, then the event library.
pseudo_event_set_mask(masked) ==
  /\ InClient
  /\ \E e \in pseudokern_fail, w \in tbox :
       /\ Returns(IF e # NoError THEN e ELSE w)
       /\ mask' = IF e = NoError /\ w = NoError THEN masked ELSE mask
  /\ UNCHANGED <<theirs, records, saves, stack, self_id, client_block, messages, amiss>>

-----------------------------------------------------------------------------
(* Taking events. *)

\* Is there an event for a poll that masks out some?
Waiting(masked) == events # <<>> \/ (messages > 0 /\ "message" \notin masked)

\* The events such a poll may take; a null event only if there is no other.
Available(masked) ==
  (IF events = <<>> THEN {} ELSE {Head(events)})
  \cup (IF messages > 0 /\ "message" \notin masked THEN {UserMessage} ELSE {})
  \cup (IF ~Waiting(masked) /\ "null" \notin masked THEN {ENull} ELSE {})

AboutObject(event) == event.kind \in {"created", "deleted"}

\* The queue gives up an event, and the Toolbox fills in the ID block: with no
\* object for an event that is about none.
Takes(event) ==
  /\ events' = IF AboutObject(event) THEN Tail(events) ELSE events
  /\ messages' = IF event = UserMessage THEN messages - 1 ELSE messages
  /\ self_id' = event.id

\* The polls further out, once the ID block is no longer that of their event.
Outer == [i \in 1..(Len(stack) - 1) |->
            [stack[i] EXCEPT !.disturbed = @ \/ AboutObject(stack[i].event)]]

\* The innermost poll runs the handlers of the event it has taken.
Runs(event) ==
  LET plain == Top.op = "event_poll"
  IN stack' = Append(Outer, [Top EXCEPT !.at = "handlers",
                                        !.event = IF plain /\ AboutObject(event) THEN event ELSE @,
                                        !.taken = IF plain \/ @ > IdleCount THEN @ ELSE @ + 1])

\* A function returns: the poll that called its handlers goes on.
Pop == stack' = Front(stack)

\* Mutation: deletions are not told.
PrintCreations(event, id) ==
  \/ /\ client_block /\ event.kind = "created"
     /\ pseudo_toolbox_object_created(id)
     /\ Len(objects') <= MaxRecords
     /\ UNCHANGED unsure
  \/ /\ ~client_block \/ event.kind # "created"
     /\ UNCHANGED <<objects, missed, unsure>>

\* print_event acts on the object in the ID block, and only if that is known.
print_event(event, id) ==
  \/ /\ client_block /\ event.kind = "created"
     /\ pseudo_toolbox_object_created(id)
     /\ Len(objects') <= MaxRecords
     /\ UNCHANGED unsure
  \/ /\ client_block /\ event.kind = "deleted"
     /\ pseudo_toolbox_object_deleted(id)
     /\ unsure' = unsure \ {id}
     /\ UNCHANGED missed
  \/ /\ ~client_block \/ ~AboutObject(event)
     /\ UNCHANGED <<objects, missed, unsure>>

-----------------------------------------------------------------------------
(* pseudo_event_poll and pseudo_event_poll_idle. *)

Enter(op) ==
  /\ stack' = Append(stack, [op |-> op, at |-> "poll", event |-> ENull, disturbed |-> FALSE,
                             count |-> IF op = "wait_for_idle" THEN IdleCount ELSE 0,
                             taken |-> 0])
  /\ UNCHANGED <<ret, status>>

pseudo_event_poll ==
  /\ InClient /\ Len(stack) < MaxNest
  /\ \E e \in pseudokern_fail :
       \/ e # NoError /\ Returns(e) /\ UNCHANGED stack
       \/ e = NoError /\ Enter("event_poll")
  /\ UNCHANGED <<theirs, records, saves, self_id, client_block, mask, messages, amiss>>

\* pseudo_event_poll_idle differs in a time before which no null event is due.
pseudo_event_poll_idle == pseudo_event_poll

\* The event library polls the Wimp and calls handlers, or fails before that.
event_poll ==
  /\ PollsWith("event_poll")
  /\ \E event \in Available(mask) : Takes(event) /\ Runs(event)
  /\ UNCHANGED <<initialised, toolbox, records, saves, client_block, mask, amiss, ret, status>>

PollFails ==
  /\ PollsWith("event_poll")
  /\ Pop /\ Returns(ToolboxError)
  /\ UNCHANGED <<theirs, records, saves, self_id, client_block, mask, messages, amiss>>

\* Has a handler given the identifier of a deleted object to a new one?
HasSuccessor(event) ==
  event.kind = "deleted" /\ event.id \in Ids(toolbox) \ Pending("created")

\* An event printed with its own ID block leaves nothing amiss, unless the record
\* that is forgotten is that of a successor.
Heard(event) == Amiss(IF HasSuccessor(event) THEN {event.id} ELSE {}, {})

\* The handlers have returned.  The event is printed unless event_poll returns
\* an error, of a handler for example.
EventPollReturns ==
  /\ stack # <<>> /\ Top.op = "event_poll" /\ Top.at = "handlers"
  /\ UNCHANGED <<theirs, shown, saves, self_id, client_block, mask, messages>>
  /\ Pop
  /\ \/ /\ Returns(ToolboxError)
        /\ UNCHANGED <<objects, missed, unsure>>
        /\ Unheard(Top.event)
     \/ /\ Returns(NoError)
        /\ print_event(Top.event, self_id)
        /\ \/ ~client_block /\ Unheard(Top.event)
           \/ client_block /\ ~Top.disturbed /\ Heard(Top.event)
           \/ client_block /\ Top.disturbed /\ Misheard(Top.event, self_id)

-----------------------------------------------------------------------------
(* pseudo_event_wait_for_idle, which asks no gate. *)

pseudo_event_wait_for_idle ==
  /\ InClient /\ Len(stack) < MaxNest
  /\ Enter("wait_for_idle")
  /\ UNCHANGED <<theirs, records, saves, self_id, client_block, mask, messages, amiss>>

\* One poll, with null events unmasked: an event is printed, and then given to
\* the handlers.
IdlePoll ==
  /\ PollsWith("wait_for_idle")
  /\ UNCHANGED <<initialised, toolbox, shown, saves, client_block, mask>>
  /\ \/ /\ Pop /\ Returns(ToolboxError)
        /\ UNCHANGED <<events, messages, self_id, objects, missed, unsure, amiss>>
     \/ \E event \in Available(mask \ {"null"}) :
          /\ Takes(event)
          /\ \/ /\ event = ENull
                /\ stack' = Outer /\ Returns(NoError)
                /\ UNCHANGED <<objects, missed, unsure, amiss>>
             \/ /\ event # ENull
                /\ print_event(event, event.id)
                /\ IF client_block THEN Amiss({}, {}) ELSE Unheard(event)
                /\ Runs(event)
                /\ UNCHANGED <<ret, status>>

\* Mutation: count-- >= 0, which holds of every unsigned number.
NeverExhausted == FALSE

\* Mutation: --count > 0.
ExhaustedEarly == Top.count <= 1

Exhausted == Top.count = 0

\* Mutation: the loop does not count.
CountKept(n) == n

CountDown(n) == n - 1

\* The handlers have returned: the next poll, unless event_dispatch returned an
\* error or count has reached 0.
IdleDispatched ==
  /\ stack # <<>> /\ Top.op = "wait_for_idle" /\ Top.at = "handlers"
  /\ \/ Pop /\ Returns(ToolboxError)
     \/ Exhausted /\ Pop /\ Returns(NoError)
     \/ /\ ~Exhausted
        /\ stack' = [stack EXCEPT ![Len(stack)].at = "poll",
                                  ![Len(stack)].count = CountDown(@)]
        /\ UNCHANGED <<ret, status>>
  /\ UNCHANGED <<theirs, records, saves, self_id, client_block, mask, messages, amiss>>

-----------------------------------------------------------------------------

\* A handler ends the program, and an interceptor of exit (PseudoExit) jumps to
\* a frame of the client further out: the polls in between never return.
ExitIntercepted ==
  /\ InClient /\ stack # <<>>
  /\ UNCHANGED <<vars, self_id, client_block, mask, messages>>
  /\ \E k \in 0..(Len(stack) - 1) :
       /\ stack' = SubSeq(stack, 1, k)
       /\ LET gone == {stack[i].event : i \in (k + 1)..Len(stack)}
          IN Amiss(UNION {Uncreated(e) : e \in gone}, UNION {Undeleted(e) : e \in gone})

PollNext ==
  \/ ClientCalls \/ ToolboxActs \/ MessageSent
  \/ \E masked \in Masks : pseudo_event_set_mask(masked)
  \/ pseudo_event_poll \/ pseudo_event_poll_idle
  \/ event_poll \/ PollFails \/ EventPollReturns
  \/ pseudo_event_wait_for_idle \/ IdlePoll \/ IdleDispatched
  \/ ExitIntercepted

\* The Wimp gives an event to a task that waits for it, the idle loop goes on,
\* and a handler returns in the end, even if it polls again and again.
PollSpec ==
  /\ PollInit /\ [][PollNext]_pollVars
  /\ WF_pollVars(event_poll) /\ WF_pollVars(IdlePoll)
  /\ \A d \in 1..MaxNest :
       SF_pollVars(Len(stack) = d /\ (EventPollReturns \/ IdleDispatched))

-----------------------------------------------------------------------------
(* Properties. *)

Handling(kind) ==
  {p.event.id : p \in {q \in ToSet(stack) : q.event.kind = kind}}

\* Polling keeps the records in step with the Toolbox's objects whatever
\* handlers create, delete or poll for: an object without a record is one whose
\* creation is still queued or being handled, or one missed or lost; a record
\* without an object is one whose deletion is, or a surplus one; and there are two
\* records of an object only then.  What is amiss is what events that were not
\* printed, or not with their own ID block, left so, and no longer than it is so:
\* objects no such event was about are never touched.
RecordsFollowPolls ==
  /\ missed \cup lost \subseteq Ids(toolbox) \ Ids(objects)
  /\ surplus \subseteq Ids(objects)
  /\ \A id \in ObjectId \cup {NULL_ObjectId} :
       /\ id \in Ids(toolbox) \ Ids(objects)
            => id \in Pending("created") \cup Handling("created") \cup missed \cup lost
       /\ id \in Ids(objects) \ Ids(toolbox)
            => id \in Pending("deleted") \cup Handling("deleted") \cup surplus
       /\ id \notin Handling("deleted") \cup surplus =>
            \A i, j \in DOMAIN objects : objects[i].id = id /\ objects[j].id = id => i = j

\* pseudo_event_wait_for_idle returns without an error.
IdleReturns == (IdlePoll \/ IdleDispatched) /\ Len(stack') < Len(stack) /\ ret' = NoError

\* Without an error the wait ends only when nothing is queued that is not masked
\* out, or after as many events as the loop allows, and never before: however
\* many events the handlers entail.
IdleDelivers ==
  [][IdleReturns =>
       Top.taken > IdleCount \/ ~Waiting(mask)]_pollVars

\* Every poll returns, those of handlers too, though events keep coming: the
\* program gets back to where it called from, unless it is left in a plain poll
\* with null events masked out and nothing to take.
PollsReturn == []<>(stack = <<>>) \/ <>[](PollsWith("event_poll") /\ Available(mask) = {})

\* "Unmask all events and call event_poll until it returns a null event.  Used
\* in tests to ensure that all events entailed by a stimulus have been
\* delivered." (PseudoEvnt.h:118-120)
IdleMeansDelivered == [][IdleReturns => events' = <<>> /\ messages' = 0]_pollVars
=============================================================================
