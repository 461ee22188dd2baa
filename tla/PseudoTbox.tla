----------------------------- MODULE PseudoTbox -----------------------------
(***************************************************************************)
(* PseudoTbox.c: the veneers to the Toolbox.  A list of objects follows    *)
(* what the client creates, shows, hides and deletes, and the events that  *)
(* tell of objects the Toolbox created or deleted by itself; two of the    *)
(* SaveAs calls can be intercepted.  The Toolbox is external: its objects, *)
(* their identifiers, used again after deletion, and its events, which are *)
(* delivered later, in order.  Polling itself is not in this module.       *)
(***************************************************************************)
EXTENDS Injection, Integers, Sequences, SequencesExt

CONSTANTS ObjectId, NULL_ObjectId,
          Template,       \* names of templates
          ToolboxError,   \* an error of the Toolbox
          MaxEvents,      \* bound: events not yet delivered
          MaxSent,        \* bound: SaveAs calls of each kind between resets
          MaxLoad,        \* bound: objects, events and SaveAs calls together
          MaxData,        \* the largest data passed to a SaveAs call
          BufferSize,     \* what buffer_filled_buffer holds (128 KB)
          NameSize,       \* what file_save_completed_filename holds
          Asserts         \* is the build one with assertions?

ASSUME NullAssumption == NULL_ObjectId \notin ObjectId
ASSUME ToolboxErrorAssumption == ToolboxError \notin {NoError, SimulatedError}
ASSUME SizesAssumption ==
  {MaxEvents, MaxSent, MaxLoad, MaxData, BufferSize, NameSize} \subseteq Nat
ASSUME AssertsAssumption == Asserts \in BOOLEAN

VARIABLES
  initialised,
  toolbox,   \* the Toolbox: its objects, in the order the client was told of them
  events,    \* the Toolbox: events about objects, not yet delivered
  objects,   \* the records, the last one made first
  shown,     \* objects shown since they were last hidden or all forgotten
  unsure,    \* objects whose last show or hide failed or found no record, or
             \* whose record has gone since
  missed,    \* objects that exist without a record: there was no memory for it,
             \* their deletion failed, or the list was initialised again
  saveas,    \* for each kind of SaveAs call, the interceptor
  armed,     \* the kinds that have ever been reset
  sent,      \* for each kind, the client's calls since the last reset
  passed,    \* for each kind, how many of them were refused or passed on
  ret,       \* the error of the function that returned last
  status     \* "running", "aborted", or "overrun": written beyond a buffer

vars == <<initialised, toolbox, events, objects, shown, unsure, missed,
          saveas, armed, sent, passed, ret, status>>
theirs == <<initialised, toolbox, events>>
records == <<objects, shown, unsure, missed>>
saves == <<saveas, armed, sent, passed>>

Kinds == {"buffer_filled", "file_save_completed"}
\* A call with data of some size; -1 stands for any size below 0.
Call == [id : ObjectId, data : (-1)..MaxData]
\* What an interceptor holds after a reset, with data 0.
Cleared == [id |-> NULL_ObjectId, data |-> 0]

Ids(s) == {s[i].id : i \in DOMAIN s}
Pending(kind) == {e.id : e \in {f \in ToSet(events) : f.kind = kind}}
tbox == {NoError, ToolboxError}

\* What the bound MaxLoad is on.
Load == Len(toolbox) + Len(events) + Len(sent["buffer_filled"])
          + Len(sent["file_save_completed"])

TypeOK ==
  /\ initialised \in BOOLEAN
  /\ toolbox \in Seq([id : ObjectId, template : Template])
  /\ events \in Seq([kind : {"created", "deleted"}, id : ObjectId])
  /\ objects \in Seq([id : ObjectId, is_showing : BOOLEAN])
  /\ shown \subseteq ObjectId /\ unsure \subseteq ObjectId /\ missed \subseteq ObjectId
  /\ saveas \in [Kinds -> [intercept : BOOLEAN, last : Call \cup {Cleared}]]
  /\ saveas["buffer_filled"].last.data \in 0..BufferSize
  /\ saveas["file_save_completed"].last.data \in 0..NameSize
  /\ armed \subseteq Kinds
  /\ sent \in [Kinds -> Seq(Call)]
  /\ passed \in [Kinds -> 0..MaxSent]
  /\ ret \in {NoError, SimulatedError, ToolboxError}
  /\ status \in {"running", "aborted", "overrun"}

Init ==
  /\ initialised = FALSE
  /\ toolbox = <<>> /\ events = <<>> /\ objects = <<>>
  /\ shown = {} /\ unsure = {} /\ missed = {}
  /\ saveas = [k \in Kinds |-> [intercept |-> FALSE, last |-> Cleared]]
  /\ armed = {} /\ sent = [k \in Kinds |-> <<>>]
  /\ passed = [k \in Kinds |-> 0]
  /\ ret = NoError
  /\ status = "running"

Running == status = "running" /\ initialised
Returns(err) == ret' = err /\ UNCHANGED status

-----------------------------------------------------------------------------
(* The Toolbox.  An identifier is free once the client has been told of the  *)
(* deletion of the object that had it.                                       *)

Free(id) == id \notin Ids(toolbox) \cup Ids(events)
Created(id, t) == toolbox' = Append(toolbox, [id |-> id, template |-> t])
Posted(kind, id) == events' = Append(events, [kind |-> kind, id |-> id])
PlaceOf(id) == SelectInSeq(toolbox, LAMBDA o : o.id = id)
Deleted(id) == toolbox' = RemoveAt(toolbox, PlaceOf(id))

\* The object is now the last one the client was told of, if it is still there.
MadeKnown(id) ==
  toolbox' = IF id \in Ids(toolbox)
             THEN Append(RemoveAt(toolbox, PlaceOf(id)), toolbox[PlaceOf(id)]) ELSE toolbox

\* The Toolbox creates an object by itself.
AutoCreate(id, t) ==
  /\ Running
  /\ Free(id) /\ Len(events) < MaxEvents /\ Load + 1 < MaxLoad
  /\ Created(id, t)
  /\ Posted("created", id)
  /\ UNCHANGED <<initialised, records, saves, ret, status>>

\* It deletes one when it wants to: with its parent, or when it is hidden.
AutoDelete(id) ==
  /\ Running
  /\ id \in Ids(toolbox) /\ Len(events) < MaxEvents
  /\ Deleted(id)
  /\ Posted("deleted", id)
  /\ shown' = shown \ {id} /\ missed' = missed \ {id}
  /\ UNCHANGED <<initialised, objects, unsure, saves, ret, status>>

-----------------------------------------------------------------------------
(* The records. *)

\* The list is initialised before the Toolbox, which may then fail: at every call,
\* so that the records of objects there already are lost.
pseudo_toolbox_initialise ==
  /\ status = "running"
  /\ \E e \in pseudokern_fail :
       \/ e # NoError /\ Returns(e) /\ UNCHANGED <<initialised, objects, unsure, missed>>
       \/ /\ e = NoError
          /\ objects' = <<>>
          /\ unsure' = unsure \cup shown /\ missed' = missed \cup Ids(toolbox)
          /\ \E w \in tbox :
               initialised' = (initialised \/ w = NoError) /\ Returns(w)
  /\ UNCHANGED <<toolbox, events, shown, saves>>

\* Mutation: a new record is put last.
NewRecordLast(id) == objects' = Append(objects, [id |-> id, is_showing |-> FALSE])

\* linkedlist_insert puts a new record first.
NewRecord(id) == objects' = Cons([id |-> id, is_showing |-> FALSE], objects)

\* Mutation: the record stays.
ForgetNothing(id) == UNCHANGED objects

\* The first record with an identifier, if there is one.
Recorded(id) == \E i \in DOMAIN objects : objects[i].id = id
RecordOf(id) == SelectInSeq(objects, LAMBDA r : r.id = id)

\* The record of an object goes.
Forget(id) == objects' = IF Recorded(id) THEN RemoveAt(objects, RecordOf(id)) ELSE objects

\* An object that exists and is left without a record.
Unrecorded(id) == ({id} \cap Ids(toolbox)) \ Ids(objects')

\* Called for an event: no record if there is no memory for it.
pseudo_toolbox_object_created(id) ==
  \/ NewRecord(id) /\ missed' = missed \ {id}
  \/ UNCHANGED objects /\ missed' = missed \cup Unrecorded(id)

\* Called for an event and by pseudo_toolbox_delete_object.
pseudo_toolbox_object_deleted(id) == Forget(id)

\* The oldest event is delivered.
Deliver ==
  /\ Running /\ events # <<>>
  /\ events' = Tail(events)
  /\ LET id == Head(events).id
     IN \/ /\ Head(events).kind = "created"
           /\ pseudo_toolbox_object_created(id)
           /\ MadeKnown(id)
           /\ UNCHANGED unsure
        \/ /\ Head(events).kind = "deleted"
           /\ pseudo_toolbox_object_deleted(id)
           /\ unsure' = unsure \ {id}
           /\ UNCHANGED <<toolbox, missed>>
  /\ UNCHANGED <<initialised, shown, saves, ret, status>>

\* Mutation: the object is recorded although the Toolbox failed to create it.
CreateRecordingAlways(id, t) ==
  /\ Running
  /\ Free(id) /\ Load < MaxLoad
  /\ \E e \in pseudokern_fail, w \in tbox :
       \/ e # NoError /\ Returns(e) /\ UNCHANGED <<toolbox, objects>>
       \/ /\ e = NoError
          /\ NewRecord(id)
          /\ IF w = NoError THEN Created(id, t) ELSE UNCHANGED toolbox
          /\ Returns(w)
  /\ UNCHANGED <<initialised, events, shown, unsure, missed, saves>>

\* The record is allocated before the gate is asked; without memory for it the
\* same error is returned.
pseudo_toolbox_create_object(id, t) ==
  /\ Running
  /\ Free(id) /\ Load < MaxLoad
  /\ \E e \in pseudokern_fail, w \in tbox :
       \/ /\ e # NoError \/ w # NoError
          /\ Returns(IF e # NoError THEN e ELSE w)
          /\ UNCHANGED <<toolbox, objects>>
       \/ /\ e = NoError /\ w = NoError
          /\ Created(id, t)
          /\ NewRecord(id)
          /\ Returns(NoError)
  /\ UNCHANGED <<initialised, events, shown, unsure, missed, saves>>

\* No gate: the record goes before the Toolbox is asked, which may fail, and must
\* for an object that is gone already.
pseudo_toolbox_delete_object(id) ==
  /\ Running
  /\ pseudo_toolbox_object_deleted(id)
  /\ \/ /\ id \in Ids(toolbox) /\ Len(events) < MaxEvents
        /\ Deleted(id)
        /\ Posted("deleted", id)
        /\ shown' = shown \ {id} /\ missed' = missed \ {id}
        /\ Returns(NoError)
        /\ UNCHANGED unsure
     \/ /\ Returns(ToolboxError)
        /\ missed' = missed \cup Unrecorded(id)
        /\ unsure' = unsure \cup ({id} \cap shown)
        /\ UNCHANGED <<toolbox, events, shown>>
  /\ UNCHANGED <<initialised, saves>>

\* The flag of the record is set before the Toolbox is asked; an object that
\* has no record, or is gone already, is passed on all the same.
SetShowing(id, flag) ==
  objects' = IF Recorded(id) THEN [objects EXCEPT ![RecordOf(id)].is_showing = flag] ELSE objects

ShowHide(id, flag) ==
  /\ Running
  /\ \E e \in pseudokern_fail :
       \/ e # NoError /\ Returns(e) /\ UNCHANGED records
       \/ /\ e = NoError
          /\ SetShowing(id, flag)
          /\ \/ /\ id \in Ids(toolbox) /\ Returns(NoError)
                /\ shown' = IF flag THEN shown \cup {id} ELSE shown \ {id}
                /\ unsure' = IF flag /\ ~Recorded(id) THEN unsure \cup {id} ELSE unsure \ {id}
             \/ /\ Returns(ToolboxError)
                /\ unsure' = unsure \cup ({id} \cap Ids(toolbox))
                /\ UNCHANGED shown
          /\ UNCHANGED missed
  /\ UNCHANGED <<theirs, saves>>

pseudo_toolbox_show_object(id) == ShowHide(id, TRUE)
pseudo_toolbox_hide_object(id) == ShowHide(id, FALSE)

\* The result of pseudo_toolbox_object_is_showing.
pseudo_toolbox_object_is_showing(id) == Recorded(id) /\ objects[RecordOf(id)].is_showing

\* The result of pseudo_toolbox_find_by_template_name: the Toolbox tells which
\* template an object that exists was made from.
pseudo_toolbox_find_by_template_name(t) ==
  LET made == {i \in DOMAIN objects :
                 \E o \in ToSet(toolbox) : o.id = objects[i].id /\ o.template = t}
  IN IF made = {} THEN NULL_ObjectId
     ELSE objects[CHOOSE i \in made : \A j \in made : i <= j].id

\* A plain veneer: the gate, then the Toolbox.  The veneers by what they are about:
\* objects, windows, gadgets, menus and dialogues.
Veneer ==
  /\ Running
  /\ \E e \in pseudokern_fail, w \in tbox :
       Returns(IF e # NoError THEN e ELSE w)
  /\ UNCHANGED <<theirs, records, saves>>

object_veneer == Veneer
window_veneer == Veneer
gadget_veneer == Veneer
menu_veneer == Veneer
dialogue_veneer == Veneer

-----------------------------------------------------------------------------
(* The SaveAs calls.  Data stands for the bytes of pseudo_saveas_buffer_     *)
(* filled and for the file name of pseudo_saveas_file_save_completed.        *)

CanSend(kind) == Running /\ Len(sent[kind]) < MaxSent /\ Load < MaxLoad

\* Mutation: the interceptor stays in place.
InterceptedStaying(kind, call, stored) ==
  /\ saveas[kind].intercept
  /\ saveas' = [saveas EXCEPT ![kind].last = stored]
  /\ sent' = [sent EXCEPT ![kind] = Append(@, call)]
  /\ Returns(NoError)
  /\ UNCHANGED <<armed, passed>>

\* The first call after a reset is recorded and answered, without the gate.
Intercepted(kind, call, stored) ==
  /\ saveas[kind].intercept
  /\ saveas' = [saveas EXCEPT ![kind] = [intercept |-> FALSE, last |-> stored]]
  /\ sent' = [sent EXCEPT ![kind] = Append(@, call)]
  /\ Returns(NoError)
  /\ UNCHANGED <<armed, passed>>

\* The others go through the gate to the Toolbox.
PassedOn(kind, call) ==
  /\ ~saveas[kind].intercept
  /\ sent' = [sent EXCEPT ![kind] = Append(@, call)]
  /\ passed' = [passed EXCEPT ![kind] = @ + 1]
  /\ \E e \in pseudokern_fail, w \in tbox : Returns(IF e # NoError THEN e ELSE w)
  /\ UNCHANGED <<saveas, armed>>

\* Data of a negative size or too large for the buffer fails an assertion; without
\* assertions it is copied all the same.
pseudo_saveas_buffer_filled(call) ==
  /\ CanSend("buffer_filled")
  /\ \/ /\ saveas["buffer_filled"].intercept /\ call.data \notin 0..BufferSize
        /\ status' = IF Asserts THEN "aborted" ELSE "overrun"
        /\ UNCHANGED <<saves, ret>>
     \/ call.data \in 0..BufferSize /\ Intercepted("buffer_filled", call, call)
     \/ PassedOn("buffer_filled", call)
  /\ UNCHANGED <<theirs, records>>

Least(m, n) == IF m < n THEN m ELSE n

\* Mutation: a name of any length.
StoredWhole(call) == call

\* A file name, which has no negative size, is cut to the size of its buffer.
Stored(call) == [call EXCEPT !.data = Least(@, NameSize)]

pseudo_saveas_file_save_completed(call) ==
  /\ CanSend("file_save_completed") /\ call.data >= 0
  /\ \/ Intercepted("file_save_completed", call, Stored(call))
     \/ PassedOn("file_save_completed", call)
  /\ UNCHANGED <<theirs, records>>

\* The results of the functions a test asks for what was recorded, with room for
\* so many bytes: the length, of a name with its terminator, and what is copied,
\* of a name without it.
pseudo_saveas_get_buffer_filled(buff_size) ==
  LET last == saveas["buffer_filled"].last
  IN [id |-> last.id, nbytes |-> last.data, copied |-> Least(buff_size, last.data)]

pseudo_saveas_get_file_save_completed(buff_size) ==
  LET last == saveas["file_save_completed"].last
  IN [id |-> last.id, nbytes |-> last.data + 1,
      copied |-> IF buff_size = 0 THEN 0 ELSE Least(buff_size - 1, last.data)]

Reset(kinds) ==
  /\ saveas' = [k \in Kinds |->
       IF k \in kinds THEN [intercept |-> TRUE, last |-> Cleared] ELSE saveas[k]]
  /\ armed' = armed \cup kinds
  /\ sent' = [k \in Kinds |-> IF k \in kinds THEN <<>> ELSE sent[k]]
  /\ passed' = [k \in Kinds |-> IF k \in kinds THEN 0 ELSE passed[k]]

\* A reset by itself, of one interceptor.
ResetOne(kind) ==
  /\ Running
  /\ Reset({kind})
  /\ Returns(NoError)
  /\ UNCHANGED <<theirs, records>>

pseudo_saveas_reset_buffer_filled == ResetOne("buffer_filled")
pseudo_saveas_reset_file_save_completed == ResetOne("file_save_completed")

\* Mutation: the objects are left as they are.
ResetSavesOnly ==
  /\ Running
  /\ Reset(Kinds)
  /\ shown' = {} /\ unsure' = {}
  /\ Returns(NoError)
  /\ UNCHANGED <<theirs, objects, missed>>

\* No object is showing any more, and both SaveAs calls are intercepted.
pseudo_toolbox_reset ==
  /\ Running
  /\ Reset(Kinds)
  /\ objects' = [i \in DOMAIN objects |-> [objects[i] EXCEPT !.is_showing = FALSE]]
  /\ shown' = {} /\ unsure' = {}
  /\ Returns(NoError)
  /\ UNCHANGED <<theirs, missed>>

Next ==
  \/ pseudo_toolbox_initialise
  \/ Deliver
  \/ object_veneer \/ window_veneer \/ gadget_veneer \/ menu_veneer \/ dialogue_veneer
  \/ pseudo_toolbox_reset
  \/ \E id \in ObjectId :
       \/ \E t \in Template : AutoCreate(id, t) \/ pseudo_toolbox_create_object(id, t)
       \/ AutoDelete(id)
       \/ pseudo_toolbox_delete_object(id)
       \/ pseudo_toolbox_show_object(id)
       \/ pseudo_toolbox_hide_object(id)
  \/ pseudo_saveas_reset_buffer_filled
  \/ pseudo_saveas_reset_file_save_completed
  \/ \E call \in Call :
       pseudo_saveas_buffer_filled(call) \/ pseudo_saveas_file_save_completed(call)

Spec == Init /\ [][Next]_vars

-----------------------------------------------------------------------------
(* Properties. *)

\* The records follow the objects "to detect leaks" (PseudoTbox.c:83): one for
\* each object but those missed and those whose events are still to come, and
\* no other, however calls and late events are interleaved.  Only an object that
\* exists and has no record counts as missed.
RecordsFollowObjects ==
  /\ missed \subseteq Ids(toolbox) \ Ids(objects)
  /\ \A i, j \in DOMAIN objects : objects[i].id = objects[j].id => i = j
  /\ Ids(objects) \ Ids(toolbox) \subseteq Pending("deleted")
  /\ Ids(toolbox) \ Ids(objects) \subseteq Pending("created") \cup missed

\* What is found by template name exists and was made from that template.  Every
\* object of the template that the client was told of later, and if nothing is
\* found every one that exists, is one whose creation is still to be told or that
\* is missed; so an object without a record counts as none, where PseudoTbox.h:
\* 388-391 promises the latest of all.
FindSound ==
  \A t \in Template :
    LET found == pseudo_toolbox_find_by_template_name(t)
        made == {i \in DOMAIN toolbox : toolbox[i].template = t}
        unknown == Pending("created") \cup missed
    IN IF found = NULL_ObjectId
       THEN \A i \in made : toolbox[i].id \in unknown
       ELSE \E i \in made :
              /\ toolbox[i].id = found
              /\ \A j \in made : j > i => toolbox[j].id \in unknown

\* The flag of an object tells whether it has been shown since it was last
\* hidden or all were forgotten, unless the last call to show, hide or delete it
\* failed in the Toolbox, it was shown before its creation was recorded, or the
\* list was initialised again since.
ShowingSound ==
  \A id \in Ids(toolbox) \ unsure : pseudo_toolbox_object_is_showing(id) <=> id \in shown

\* What a test gets that asks for the length first and then provides as much room.
Retrieved(kind) ==
  LET get(n) == IF kind = "buffer_filled" THEN pseudo_saveas_get_buffer_filled(n)
                ELSE pseudo_saveas_get_file_save_completed(n)
      answer == get(get(0).nbytes)
  IN [id |-> answer.id, data |-> answer.copied]

\* Of the SaveAs calls of either kind since a reset the first is recorded, and can
\* be retrieved whole (of a file name, what its buffer holds), and every other one
\* has gone through the gate; without a reset, every one has.  Interception is on
\* from a reset to the first call, where PseudoTbox.h:396-398, 412-414 and 429-430
\* speak of all calls after a reset, and lines 403-404 and 419-420 of the last.
SavesAccounted ==
  \A k \in Kinds :
    LET recorded == k \in armed /\ sent[k] # <<>>
        first == [sent[k][1] EXCEPT !.data = IF k = "buffer_filled" THEN @ ELSE Least(@, NameSize)]
    IN /\ saveas[k].intercept <=> k \in armed /\ sent[k] = <<>>
       /\ Retrieved(k) = IF recorded THEN first ELSE Cleared
       /\ passed[k] = Len(sent[k]) - (IF recorded THEN 1 ELSE 0)
=============================================================================
