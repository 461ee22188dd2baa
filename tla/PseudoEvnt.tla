----------------------------- MODULE PseudoEvnt -----------------------------
(***************************************************************************)
(* PseudoEvnt.c: the lists of event handlers that a test program has       *)
(* registered, kept so that a handler never deregistered shows up as a     *)
(* leaked memory block.  The event library keeps its own registrations and *)
(* may refuse any call; it is external, as are the lists and the heap.     *)
(* Polling is not in this module.  The client may initialise again at any  *)
(* time, and deregister what it never registered or has deregistered.      *)
(***************************************************************************)
EXTENDS Injection, Naturals, Sequences, SequencesExt, FiniteSets, Bags

CONSTANTS Object,        \* Toolbox objects
          Code,          \* an event code or message with its handler and handle
          NoObject,      \* what stands for the object in a message handler
          EventError,    \* an error of the event library
          MaxHandlers    \* bound: handlers the library has registered, and records

ASSUME ObjectAssumption == NoObject \notin Object
ASSUME EventErrorAssumption == EventError \notin {NoError, SimulatedError}
ASSUME HandlersAssumption == MaxHandlers \in Nat

\* One record of each of the three lists.
Handler == [list : {"tb_handlers", "wimp_handlers"}, object : Object, code : Code]
           \cup [list : {"msg_handlers"}, object : {NoObject}, code : Code]
Lists == {"tb_handlers", "wimp_handlers", "msg_handlers"}

VARIABLES handlers,      \* the three lists, the last handler registered first
          blocks,        \* records allocated from the heap and not freed
          client_block,  \* has an ID block been given to the event library?
          library,       \* the handlers registered with the event library
          walk,          \* the walk through a list for one object, NoWalk if none
          owed,          \* those registered since the last initialisation and not
                         \* deregistered
          unlisted,      \* those still registered whose record is gone: the library
                         \* refused to deregister them or was initialised again
          leaked,        \* records that were in a list when it was cleared
          missing,       \* the handler whose record was looked for in vain
          ret,           \* the function that returned last and its error
          status         \* "running" or "aborted"

vars == <<handlers, blocks, client_block, library, walk, owed, unlisted, leaked, missing,
          ret, status>>

\* The next record that linkedlist_for_each visits is the one at place "at".
NoWalk == [list |-> "tb_handlers", object |-> NoObject, at |-> 0]

Op == {"none", "initialise", "register", "deregister", "deregister_for_object", "veneer"}
event == {NoError, EventError}

TypeOK ==
  /\ handlers \in [Lists -> Seq(Handler)]
  /\ \A l \in Lists : \A h \in ToSet(handlers[l]) : h.list = l
  /\ blocks \in Nat
  /\ client_block \in BOOLEAN
  /\ walk \in [list : Lists, object : Object \cup {NoObject}, at : Nat]
  /\ \A b \in {library, owed, unlisted} : IsABag(b) /\ BagToSet(b) \subseteq Handler
  /\ leaked \in Nat
  /\ missing \subseteq Handler
  /\ ret \in [op : Op, err : {NoError, SimulatedError, EventError}]
  /\ status \in {"running", "aborted"}

Init ==
  /\ handlers = [l \in Lists |-> <<>>]
  /\ blocks = 0
  /\ client_block = FALSE
  /\ library = EmptyBag /\ owed = EmptyBag /\ unlisted = EmptyBag
  /\ walk = NoWalk
  /\ leaked = 0
  /\ missing = {}
  /\ ret = [op |-> "none", err |-> NoError]
  /\ status = "running"

Running == status = "running"
Idle == Running /\ walk = NoWalk
Returns(op, err) == ret' = [op |-> op, err |-> err] /\ UNCHANGED <<missing, status>>
books == <<handlers, blocks, library, owed, unlisted, leaked>>
Once(h) == SetToBag({h})
Length == Len(handlers["tb_handlers"]) + Len(handlers["wimp_handlers"])
            + Len(handlers["msg_handlers"])

-----------------------------------------------------------------------------

\* The lists are cleared, not freed, and the handlers that were in them stay
\* registered with the event library, on the first call and on any other,
\* whether the library then refuses or not.
pseudo_event_initialise ==
  /\ Idle
  /\ \E e \in pseudokern_fail :
       \/ /\ e # NoError
          /\ Returns("initialise", e)
          /\ UNCHANGED <<handlers, client_block, owed, unlisted, leaked>>
       \/ /\ e = NoError
          /\ client_block' = TRUE
          /\ handlers' = [l \in Lists |-> <<>>]
          /\ leaked' = leaked + Length
          /\ unlisted' = unlisted (+) owed
          /\ owed' = EmptyBag
          /\ \E w \in event : Returns("initialise", w)
  /\ UNCHANGED <<blocks, library, walk>>

\* pseudo_event_set_mask: the gate, then the event library.
Veneer ==
  /\ Idle
  /\ \E e \in pseudokern_fail, w \in event :
       Returns("veneer", IF e # NoError THEN e ELSE w)
  /\ UNCHANGED <<books, client_block, walk>>

\* Mutation: the record is not freed when the library refuses.
RegisterKeepingRecord(h) ==
  /\ Idle
  /\ BagCardinality(library) < MaxHandlers /\ blocks < MaxHandlers
  /\ \E enough \in BOOLEAN, w \in event :
       /\ blocks' = IF enough THEN blocks + 1 ELSE blocks
       /\ IF enough /\ w = NoError
          THEN /\ library' = library (+) Once(h)
               /\ handlers' = [handlers EXCEPT ![h.list] = Cons(h, @)]
               /\ owed' = owed (+) Once(h)
          ELSE UNCHANGED <<library, handlers, owed>>
       /\ Returns("register", IF enough THEN w ELSE SimulatedError)
  /\ UNCHANGED <<client_block, walk, unlisted, leaked>>

\* Mutation: the handler is registered before its record is allocated.
RegisterLibraryFirst(h) ==
  /\ Idle
  /\ BagCardinality(library) < MaxHandlers /\ blocks < MaxHandlers
  /\ \E enough \in BOOLEAN, w \in event :
       /\ library' = IF w = NoError THEN library (+) Once(h) ELSE library
       /\ IF enough /\ w = NoError
          THEN /\ blocks' = blocks + 1
               /\ handlers' = [handlers EXCEPT ![h.list] = Cons(h, @)]
               /\ owed' = owed (+) Once(h)
          ELSE UNCHANGED <<blocks, handlers, owed>>
       /\ Returns("register", IF enough THEN w ELSE SimulatedError)
  /\ UNCHANGED <<client_block, walk, unlisted, leaked>>

\* Mutation: a handler is put in the list of another kind.
RegisterInWrongList(h) ==
  /\ Idle
  /\ BagCardinality(library) < MaxHandlers /\ blocks < MaxHandlers
  /\ \E w \in event :
       /\ library' = IF w = NoError THEN library (+) Once(h) ELSE library
       /\ IF w = NoError
          THEN /\ blocks' = blocks + 1
               /\ handlers' = [handlers EXCEPT !["tb_handlers"] = Cons(h, @)]
               /\ owed' = owed (+) Once(h)
          ELSE UNCHANGED <<blocks, handlers, owed>>
       /\ Returns("register", w)
  /\ UNCHANGED <<client_block, walk, unlisted, leaked>>

\* The record first, then the library, and the record goes if that refuses.  The
\* same handler may be registered more than once.
Register(h) ==
  /\ Idle
  /\ BagCardinality(library) < MaxHandlers /\ blocks < MaxHandlers
  /\ \E enough \in BOOLEAN :
       \/ /\ enough
          /\ library' = library (+) Once(h)
          /\ handlers' = [handlers EXCEPT ![h.list] = Cons(h, @)]
          /\ blocks' = blocks + 1
          /\ owed' = owed (+) Once(h)
          /\ Returns("register", NoError)
       \/ /\ Returns("register", IF enough THEN EventError ELSE SimulatedError)
          /\ UNCHANGED <<library, handlers, blocks, owed>>
  /\ UNCHANGED <<client_block, walk, unlisted, leaked>>

pseudo_event_register_toolbox_handler(h) == h.list = "tb_handlers" /\ Register(h)
pseudo_event_register_message_handler(h) == h.list = "msg_handlers" /\ Register(h)
pseudo_event_register_wimp_handler(h) == h.list = "wimp_handlers" /\ Register(h)

\* The first matching record goes, and then the library is asked.  A record that
\* is not there fails an assertion, and could not be unlinked without it.
Deregister(h) ==
  /\ Idle
  /\ \/ /\ h \notin ToSet(handlers[h.list])
        /\ status' = "aborted"
        /\ missing' = {h}
        /\ UNCHANGED <<books, ret>>
     \/ /\ h \in ToSet(handlers[h.list])
        /\ handlers' = [handlers EXCEPT ![h.list] = RemoveFirst(@, h)]
        /\ blocks' = blocks - 1
        /\ owed' = owed (-) Once(h)
        /\ UNCHANGED leaked
        /\ \/ /\ BagIn(h, library)
              /\ library' = library (-) Once(h)
              /\ Returns("deregister", NoError)
              /\ UNCHANGED unlisted
           \/ /\ unlisted' = unlisted (+) Once(h)
              /\ Returns("deregister", EventError)
              /\ UNCHANGED library
  /\ UNCHANGED <<client_block, walk>>

pseudo_event_deregister_toolbox_handler(h) == h.list = "tb_handlers" /\ Deregister(h)
pseudo_event_deregister_message_handler(h) == h.list = "msg_handlers" /\ Deregister(h)
pseudo_event_deregister_wimp_handler(h) == h.list = "wimp_handlers" /\ Deregister(h)

\* A walk through a list that removes the records of an object begins.
DeregisterForObject(l, object) ==
  /\ Idle
  /\ walk' = [list |-> l, object |-> object, at |-> 1]
  /\ UNCHANGED <<books, client_block, missing, ret, status>>

pseudo_event_deregister_toolbox_handlers_for_object(object) ==
  DeregisterForObject("tb_handlers", object)
pseudo_event_deregister_wimp_handlers_for_object(object) ==
  DeregisterForObject("wimp_handlers", object)

\* Mutation: the walk misses the record behind one that it has removed.
VisitSkipping ==
  /\ Running /\ walk.at \in DOMAIN handlers[walk.list]
  /\ IF handlers[walk.list][walk.at].object = walk.object
     THEN /\ handlers' = [handlers EXCEPT ![walk.list] = RemoveAt(@, walk.at)]
          /\ blocks' = blocks - 1
     ELSE UNCHANGED <<handlers, blocks>>
  /\ walk' = [walk EXCEPT !.at = @ + 1]
  /\ UNCHANGED <<client_block, library, owed, unlisted, leaked, missing, ret, status>>

\* deregister_toolbox_handlers_for_object and its counterpart for Wimp events:
\* linkedlist_for_each knows the next record before it calls them, so one that
\* they remove and free does not end the walk.
Visit ==
  /\ Running /\ walk.at \in DOMAIN handlers[walk.list]
  /\ \/ /\ handlers[walk.list][walk.at].object = walk.object
        /\ handlers' = [handlers EXCEPT ![walk.list] = RemoveAt(@, walk.at)]
        /\ blocks' = blocks - 1
        /\ UNCHANGED walk
     \/ /\ handlers[walk.list][walk.at].object # walk.object
        /\ walk' = [walk EXCEPT !.at = @ + 1]
        /\ UNCHANGED <<handlers, blocks>>
  /\ UNCHANGED <<client_block, library, owed, unlisted, leaked, missing, ret, status>>

\* The handlers of an object in one list, and a bag without them or of them.
Of(l, object) == {h \in Handler : h.list = l /\ h.object = object}
Without(bag, hs) == [h \in DOMAIN bag \ hs |-> bag[h]]
Only(bag, hs) == [h \in DOMAIN bag \cap hs |-> bag[h]]

\* The walk is over, and the library is told to forget the object's handlers,
\* those without a record too.
ForObjectDone ==
  LET hs == Of(walk.list, walk.object)
  IN /\ Running /\ walk # NoWalk
     /\ walk.at > Len(handlers[walk.list])
     /\ walk' = NoWalk
     /\ owed' = Without(owed, hs)
     /\ \/ /\ library' = Without(library, hs)
           /\ unlisted' = Without(unlisted, hs)
           /\ Returns("deregister_for_object", NoError)
        \/ /\ unlisted' = unlisted (+) Only(owed, hs)
           /\ Returns("deregister_for_object", EventError)
           /\ UNCHANGED library
     /\ UNCHANGED <<handlers, blocks, client_block, leaked>>

Next ==
  \/ pseudo_event_initialise
  \/ Veneer
  \/ \E h \in Handler :
       \/ pseudo_event_register_toolbox_handler(h)
       \/ pseudo_event_register_message_handler(h)
       \/ pseudo_event_register_wimp_handler(h)
       \/ pseudo_event_deregister_toolbox_handler(h)
       \/ pseudo_event_deregister_message_handler(h)
       \/ pseudo_event_deregister_wimp_handler(h)
  \/ \E object \in Object :
       \/ pseudo_event_deregister_toolbox_handlers_for_object(object)
       \/ pseudo_event_deregister_wimp_handlers_for_object(object)
  \/ Visit
  \/ ForObjectDone

Spec == Init /\ [][Next]_vars

-----------------------------------------------------------------------------
(* Properties. *)

\* How often a handler is in a list, and the bag of all that are in any.
Times(h, s) == Cardinality({i \in DOMAIN s : s[i] = h})
Listed == [h \in UNION {ToSet(handlers[l]) : l \in Lists} |->
             Times(h, handlers["tb_handlers"]) + Times(h, handlers["wimp_handlers"])
               + Times(h, handlers["msg_handlers"])]

\* What the client owes, one element for each time a handler was registered.
Debts == UNION {{h} \X (1..owed[h]) : h \in DOMAIN owed}

\* The handlers of the object for which a walk is under way: some of their records
\* are gone, and the client does not know yet.
Walked == IF walk = NoWalk THEN {} ELSE Of(walk.list, walk.object)

\* The lists hold exactly the handlers registered since the last initialisation
\* and not deregistered, each as often as it was registered ("to detect leaks",
\* PseudoEvnt.c:61): a walk takes all records of its object and no others.
ListsAreOwed == Without(Listed, Walked) = Without(owed, Walked)

\* A block is allocated for each of them, and else only for those that were in a
\* list when pseudo_event_initialise cleared it: no error path leaks a record or
\* frees one twice.
BlocksAreOwed == walk = NoWalk => blocks = Cardinality(Debts) + leaked

\* The library has exactly the listed handlers registered and those whose record
\* is known to be gone: after a deregistration it refused, for one handler or for
\* all of an object, and after another initialisation.
LibraryAgrees == Without(library, Walked) = Without(Listed (+) unlisted, Walked)

\* The assertion that a handler's record is found (PseudoEvnt.c:334, 428, 496)
\* fails only for one that is not owed: never registered or registered before the
\* last initialisation, or deregistered already, the library having refused or
\* not.  Equal handlers and groups of handlers do not lead to it.
AlwaysFound == \A h \in missing : ~BagIn(h, owed)
=============================================================================
