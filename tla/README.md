# A TLA+ model of CBDebugLib

CBDebugLib is a library for testing RISC OS programs. A test build of a program
calls its *veneers* in place of the real functions: `pseudo_wimp_send_message`
for `wimp_send_message`, `PseudoFlex_alloc` for `flex_alloc`, and so on. A veneer
may fail on purpose (Fortify, a debugging heap, decides which allocations and
calls fail), may record what the program did, or may keep it from having an
effect outside the test. A test then checks the program's behaviour and looks
for leaks. The library is single-threaded. What makes it hard to test is that it
sits between two others: any call may fail at any point, the libraries below
answer late or refuse, and an error path that leaks or forgets something is
reported as a bug of the program under test.

## Inventory

| Component | State | Operations | Works with |
|---|---|---|---|
| **PseudoFlex** (`PseudoFlex.c`) | list of records (anchor, size); `budge_state`, `defer_compact` | alloc, free, size, extend, midextend, reanchor, set_budge, set_deferred_compaction, init, compact, save_heap_info | Fortify heap, LinkedList |
| **Gate** (`pseudokern_fail`) | none of its own | may a call go through? | Fortify; called by every veneer of the kernel, Wimp, event and Toolbox libraries |
| **PseudoKern** | none; `_kernel_last_oserror` is the C library's | SWI, OS call and environment veneers | gate, C library kernel |
| **PseudoWimp** | trap of 32 messages, `capture`, the reference counter, fake pointer state | reset, send_message, get_message, pointer info, transfer_block, redraw_window, get_rectangle, plain veneers | gate, Wimp |
| **PseudoIO** | none; error indicator and `errno` are the C library's | fopen, fclose, transfers, positioning, puts | Fortify, C library |
| **PseudoExit** | saved `jmp_buf`, `exit_pending` | exit, set_target | setjmp/longjmp |
| **PseudoEvnt** | three lists of handler records, client's ID block | initialise, set_mask, register, deregister, deregister all of an object, poll, poll_idle, wait_for_idle | gate, event library; tells PseudoTbox of object events |
| **PseudoTbox** | list of object records, two SaveAs interceptors | initialise, reset, create, delete, show, hide, is_showing, find by template, SaveAs calls, some 50 plain veneers | gate, Toolbox; called by PseudoEvnt |
| **Debug** | output mode, log file and session handles, the line being assembled | set output, printf, assertion failure | the C library, SysLog or Reporter |

What has to be right, and what makes it hard:

- **PseudoFlex.** Whatever allocation fails, block, record, anchor and the size
  the client was told agree; no leak, no double free, no
  copy outside a block; the bytes of a block survive. Hard: two allocations per
  call, blocks that move, copy lengths that are differences.
- **PseudoKern.** A call is performed or refused, never both, and the error that can be
  looked up after a failing call is its own. Hard: two ways of reporting an error, and SWIs
  whose callers look at none.
- **PseudoWimp.** The trap is a faithful record of what was sent. A simulated
  error inside a redraw must not leave the Wimp's protocol half done. Hard: a
  loop driven by somebody else's answers, a trap that fills up, a counter that
  outlives a reset, a header written into the client's block.
- **PseudoIO.** A refused call transfers nothing, leaks no file, shows in `errno`, and stays
  visible on the stream for a program that checks only once (but for `puts`).
- **PseudoExit.** One interception per call of set_target, never into a frame
  that has returned.
- **PseudoEvnt, handlers.** The records are the handlers not yet deregistered. Hard: the
  library can refuse a registration after the record exists and a deregistration
  after it is gone; equal handlers; removal during a walk through the list; lists that
  are cleared, not freed, when the program initialises again.
- **PseudoEvnt, polling.** Object records stay in step with the Toolbox through
  nested polls, whatever handlers do; a wait for idle ends, and delivers what is
  queued. Hard: an event is printed after its handlers have run in one function and
  before in the other, from a single ID block that every poll overwrites; handlers
  fail, poll again or are left by an intercepted exit.
- **PseudoTbox.** The records are the objects that exist. Hard: the Toolbox creates
  and deletes objects by itself and tells of it later, identifiers are used
  again, every call may fail after the record has been changed, may be about an object
  already gone, and the list is cleared when the program initialises again.
- **Debug.** The lines that reach Reporter and SysLog are the text printed, however it
  is divided between calls and modes; a mode leaves no file or session open, uses no
  handle of a closed session, and of the reason of a failed assertion as much gets out as
  there is room for. Hard: a
  fixed line buffer filled from a fixed format buffer, an assembled line that survives
  mode switches, one static handle that holds either a handle or a name.

The full list, at its lines, is `hazards` in `PROJECT.json`.

## Modules

`LinkedList`, Fortify, the C library, the Wimp, the event library, the Toolbox,
SysLog and Reporter are not in `src/`. They are modelled from the way the code uses
them, and marked external in the map. A C call is one step, because the library has
one thread. The exceptions are the calls in which something else happens meanwhile:
a redraw, where the Wimp is called in a loop; a poll, which runs handlers of the
client; and two loops of the library that go step by step, the walk through the
handlers of an object and debug output, which passes on a line at a time.

| Module | Models | Notes |
|---|---|---|
| `FlexStore` | the promise of a flex library | abstract: what each anchor owns. No addresses, records or lists. |
| `PseudoFlex` | `PseudoFlex.c` | heap as a map from address to bytes; `held` is the client's own book of sizes, from the results it was given; `Disciplined` and `Asserts` choose client and build. An undisciplined client also passes negative sizes and offsets (`Sizes`) and states the library does not know (`OddStates`): assertions stop it, and without them the code's own reaction is modelled. A call with two allocations is one step, which fails at either of them. |
| `Injection` | `pseudokern_fail` | a free choice between no error and the simulated one |
| `PseudoKern` | `PseudoKern.c` | veneers with equal bodies are one action; `lastError` has the error and the call that left it, `cause` what the gate or the system gave in the last call |
| `PseudoWimp` | `PseudoWimp.c` | `rects` is the Wimp's redraw, `Closed`, or `Broken` when the Wimp failed in the middle of it; `history` the successful sends since the last reset, `used` the reference numbers given before it. A send without a block and an index beyond the trap are passed too: assertions stop them, and without them the block is read only where the code reads it. |
| `PseudoIO` | `PseudoIO.c` | data counted; `moved` is what happened, `told`, `failed` and `blame` what the results say; `puts` goes to `stdout` |
| `PseudoExit` | `PseudoExit.c` | a call stack of frames; a `jmp_buf` is good while its frame is there |
| `PseudoEvnt` | handler lists of `PseudoEvnt.c` | bags: `library` (theirs), `owed` (the client's view), `unlisted` (registered but without a record, after a refused deregistration or another initialisation). `walk` is the walk of `linkedlist_for_each`, a record at a time (`Visit`). The client may initialise again, and deregister what it does not owe (`missing`). |
| `PseudoTbox` | `PseudoTbox.c` | `toolbox` (in the order in which the client was told of its objects) and `events` are the Toolbox; `Deliver` tells the library of the oldest event, with nothing else in progress. The client may initialise again, make calls about objects already gone, and pass a negative or too large size to a SaveAs call. |
| `PseudoPoll` | polling half of `PseudoEvnt.c`, composed with `PseudoTbox` | `stack` is the polls in progress, innermost last; `self_id` the ID block they share; `lost` and `surplus` are the objects without a record and the records without an object (or too many) that an event printed wrongly or not at all has left, until that is put right. Takes the place of `Deliver`. |
| `Debug` | `Debug.c` | `readp` and `call` are where the thread is in an output function; `fed` and `logged` all the text that was formatted and all the lines passed on; `reason` and `written` what a failed assertion printed and what reached a stream |
| `MC...` | | values for TLC |
| `ListFacts` | | lemmas about sequences and least elements that the proofs share |
| `PseudoFlexProofs`, `PseudoExitProofs`, `PseudoWimpProofs`, `PseudoEvntProofs`, `DebugProofs` | | theorems about the module each is named after |
| `PseudoTboxProofs` | | theorems about `PseudoTbox` and about `PseudoPoll`, which is composed with it |
| `CLibraryProofs` | | theorems about `PseudoKern` and `PseudoIO`, which share nothing: the names of `PseudoKern` begin with `Kern` so that one module can extend both |

Operators whose comment begins "Mutation" are wrong versions of a definition that
follows them. Nothing uses them; they document which fault each property detects
(`mutants` in `PROJECT.json`).

### What is abstracted

- *Fortify* may refuse any allocation and any gated call at any time: tests change
  the failure rate between calls. In `PseudoFlex` the rate is kept (at rate 0 only
  a full heap fails, at 100 everything does), since `PseudoFlex_init` sets it.
- *`DEBUGF` inside the other components* changes no state that they have, and is left
  out there; what it calls is `Debug`.
- *Text* in `Debug` is a sequence of characters, with the line feed told apart, already
  expanded: of `vsnprintf` there remain a failure (the text "BAD") and the cut at the
  end of `formatted[]`. Log names are names; one too long for its buffer is a file
  that cannot be opened.
- *Events* of a poll are those about objects, user messages and null events. Other
  Toolbox events and Wimp events differ from a message in nothing the code looks at.
- *Streams and windows*, sizes and words are members of small sets. A failure of a
  stream is kept until the client closes, rewinds or clears it (`Forget`).
- *File and line arguments* are passed to Fortify for its reports, and left out.
- *Assertions on pointers and the SWI registers* are left out; assertions on values a client could get wrong are kept (`aborted`), with what
  the code does when they are compiled out. `Debug` is modelled with assertions: its own,
  on the arguments of `debug_set_output`, print like the program's.
- *A failed assertion, `exit` and undefined behaviour* end a behaviour (`status`).
  The configurations of systems that may stop say `CHECK_DEADLOCK FALSE`.

### Assumptions about the outside

- A disciplined flex client does not allocate over an anchor in use, passes no
  negative size, and an offset and a length within the block: the rules of flex.
  `FlexAnyClient` checks what remains true without them.
- `realloc` may move a block or leave it; a heap that has room may still fail when
  the failure rate is above 0.
- `wimp_get_rectangle` is an error when no redraw is open, and may fail when one is:
  then that redraw stays open for good (`Broken`) and the properties of the loop that
  completes redraws say no more of it. The client opens one redraw at a time, and asks
  only for its rectangles.
- A failing transfer moves fewer items than asked for and sets the stream's
  error indicator and `errno`; calls that succeed leave `errno` alone.
- The Toolbox posts an event for each object it creates or deletes, delivers events
  in order, and uses an identifier again only when its deletion has been told.
- The event library refuses to deregister a handler that it has not registered, and may
  refuse any other; asked to forget the handlers of an object, it forgets all in one list
  or none. `linkedlist_for_each` reads the next record before it calls the function that
  may remove the current one.
- A call about an object that the Toolbox does not have is an error.
- A poll takes the events about objects in order, a message at any time, and a null
  event only if nothing else is there. The Toolbox fills in the client's ID block for
  every event, with no object for an event that is about none.
- A handler does what the client may do: create and delete objects, set the mask, poll,
  wait for idle, return an error, or leave by an exit that `PseudoExit` intercepts.
- SysLog leaves the handle alone when it opens no session, and no log or stream is
  opened twice.
- A disciplined test that armed `pseudo_exit_set_target` does not return from that
  frame before the exit, and saves a state before it arms.

### Fairness

- `PseudoWimp`: weak, of `RedrawLoop`, the loop inside `pseudo_wimp_redraw_window` and
  `pseudo_wimp_get_rectangle`. A thread inside a call goes on running.
- `Debug`: weak, of `Step`, the thread inside an output function, for the same reason.
- `PseudoPoll`: weak, of `event_poll` and `IdlePoll`: the Wimp gives an event to a task
  that waits for one (neither is enabled when there is none). Strong, at each depth
  of the stack, of the return of the handlers: a handler may poll any number of times,
  which disables its return meanwhile, but is written to return. Nothing makes
  events cease, and no fairness is assumed of the loop's exit: it is the loop's own
  count that ends a wait for idle.

Clients owe no call, so nothing else is fair, and no other liveness is claimed.

## Runs

| Run | Question | Bounds |
|---|---|---|
| `flex_client` | Do heap, records, anchors and the client's own view agree whatever fails? Are assertions and overruns out of reach? Does PseudoFlex implement `FlexStore`? | 2 anchors, 3 addresses (a truncation needs a third beside two live blocks), sizes to 3, 2 byte values, failure rates 0 and 50 |
| `flex_any_client` | What survives a client that breaks the rules, without assertions? | 2 anchors, 3 addresses, sizes from -1 to 1, one unknown state: contents do not matter here, anchors and records do |
| `wimp` | Is the trap faithful, does the redraw loop complete and end? | trap of 2, 3 sends (one dropped), every kind of event with a block and without, resets between, redraws of up to 2 rectangles that the Wimp may fail in |
| `wimp_redraw` | *violation*: is a redraw always completed before a simulated error is returned? | as above |
| `kern` | Is each call performed or refused, and the error to be looked up its own? | 6 calls |
| `exit` | Is no interception stale, can the status be recovered (but for -1), does exit never return? | 4 frames, 3-bit ints: statuses -4 to 2 |
| `io` | Are failures visible and explained, data not duplicated, no file leaked? | a file, stdout and stderr, 2 items on each |
| `handlers` | Are the records the handlers still owed, through retries, walks and repeated initialisation? | 2 objects, 2 codes, 3 handlers at a time: two equal ones and another, in one list or several |
| `tbox` | Do the records follow the objects? Is what is found by template right? Are SaveAs calls accounted for? | 2 identifiers, 2 templates, 2 SaveAs calls of a kind with sizes from -1 to one beyond the buffer; objects, pending events and SaveAs calls together at most 3 |
| `poll` | Do records follow objects through nested polls? Does a wait for idle deliver, and does every poll return? | 2 polls in progress; two objects, one created by the Toolbox and one by the client, their identifiers used again; 1 event about an object and 1 message queued; all events masked out or none; idle loop of 2 polls |
| `idle` | *violation*: does a wait for idle deliver all events? | as above with one object and every mask |
| `debug` | Are lines faithful, logs closed, how much of a reason is out, and do output functions return? | 2 files, 2 sessions, a line of 3 characters, formatted text of 4, 8 characters formatted in all |

Why the bounds are enough. Two anchors are all that a relation between blocks can
involve, and every step of `PseudoFlex` touches at most two. Three bytes give a
`midextend` something before, at and after the place. The trap of 2 has a first,
a last and a dropped message. Int width does not matter to `PseudoExit` beyond -1,
0, values on either side of them and the two ends. In `PseudoEvnt` a step touches one record or
those of one object, so a record before, equal to and after it is enough. In
`PseudoTbox` a step touches the first record of one identifier; two identifiers
and an event about a third incarnation of one give each order of creation, use,
deletion and delivery. The joint bound 3 (`MaxLoad`) is there because object
records and interceptors do not interact but their states multiply.

In `PseudoPoll` what can go wrong needs an outer poll and an inner one that overwrites
its ID block with another object's, and an identifier that is deleted and given out
again between an event and its printing; two polls and two identifiers give all of that,
with a record too many for a misprinted event (`MaxRecords`). To keep the run short one of
the two objects is always created by the Toolbox and the other by the client (`Autos`,
`Owned`); either may be deleted by both. The theorems have no such bound. The idle loop counts the same way from 1
as from 511: `IdleCount` 1 has a last poll and one before it, and handlers can keep the
queue filled past both. In `Debug` both buffers of the
code hold 256 bytes; the model's hold 4 and 5, so that one string can overflow the
line as well as two can. Text that fits, just fits and does not, with line feeds
anywhere, comes in several strings with changes of mode between them. The proofs do
not depend on the two sizes.

Every property of a passing run comes with a mutation of the modelled code that
breaks it under the same bounds: the bounds are large enough to see that fault.
All of the passing runs' properties but three about liveness hold for every value of the
constants besides; the next section says why.

Shape of the properties: `BooksAgree`, `ListsAreOwed`, `RecordsFollowObjects`,
`ReportsExact` relate the library's books to what the client was told and to what
the library below really did. These are three separate pieces of state, each
updated from its own side. `unsure` and `missed` in `PseudoTbox` record for which
objects the code makes no promise (a failed show, hide or delete; no memory for
a record; another initialisation), and nothing else is exempt. `lost` and `surplus` in
`PseudoPoll` do the same for polling: an object is lost, or a record surplus, when an
event was not printed because a handler failed or was left by an exit, or because
`client_block` is not known; when an inner poll had overwritten the ID block by the time it
was printed; or when a handler had given the object's identifier to a new one. They
hold no object for longer than it really is without a record, and no record for
longer than it is there. `RecordsFollowPolls` shows that those faults stay with the
objects concerned and end with them.
`LinesFaithful` compares the buffer arithmetic of `Debug` with a definition that splits
the whole text one character at a time.

## Proofs

All theorems hold for every value of the constants, from the named `ASSUME`s of the
modules alone (pointers are not `NULL`, sizes are naturals, errors differ, and the
like). `Disciplined`, where a theorem needs a client that keeps to the rules, and
`Asserts`, where it needs a build with assertions, are in its statement.

| Module | Theorem | What it says |
|---|---|---|
| `PseudoFlexProofs` | `TypeSafety` | every variable keeps its type, for any client and either build |
| | `AnchorsAlwaysSound` | `AnchorsSound`, for any client and either build |
| | `ClientSafety`, `NeverLeaks`, `NeverFaults` | a disciplined client has `BooksAgree`, `NoLeak` and `NoFault` always |
| | `ImplementsStore` | for a disciplined client PseudoFlex implements `FlexStore` (`StoreSpec`) |
| `CLibraryProofs` | `AlwaysRefusedOrPerformed`, `AlwaysErrorExplained` | both invariants of `PseudoKern`, with the types |
| | `HandlesSound`, `FailuresSeen`, `FailuresExplained`, `CountsExact` | every invariant of `PseudoIO`, with the types |
| `PseudoWimpProofs` | `TypeSafety`, `RefsAlwaysIncrease`, `LoopAlwaysCompletes` | the types, `RefsIncrease` and `LoopCompletes`, in either build |
| | `TrapAlwaysFaithful`, `ErrorNeverSent` | `TrapFaithful` and `ErrorMeansNotSent`, with assertions |
| `PseudoExitProofs` | `InterceptorSound` | the types, `OneShot` and `StatusRecovered` |
| | `NeverStale` | `NoStaleJump`, for a disciplined client |
| | `ExitAlwaysLeaves` | `ExitLeaves`, for any client |
| `PseudoEvntProofs` | `ListsAlwaysOwed`, `LibraryAlwaysAgrees`, `BlocksAlwaysOwed`, `AlwaysFoundRecord` | every invariant of `PseudoEvnt`, with the types |
| `PseudoTboxProofs` | `TypeSafety`, `RecordsAlwaysFollow`, `ShowingAlwaysSound`, `SavesAlwaysAccounted`, `FindAlwaysSound` | every invariant of `PseudoTbox` |
| | `PollTypeSafety`, `RecordsAlwaysFollowPolls`, `IdleAlwaysDelivers` | every safety property of `PseudoPoll` |
| `DebugProofs` | `LineBufferSound` | the types, and the count is the length of the line |
| | `AlwaysClosed`, `NeverStaleSession`, `ReasonAlwaysOut`, `LinesAlwaysFaithful` | every invariant of `Debug` |

The arguments:

- **PseudoFlex.** Two inductive invariants, both defined in `PseudoFlex`. `AnyInv` adds to
  the types that every record allocated is on the list and that `AnchorsSound` holds;
  any client preserves it because an operation only ever changes the block of the
  anchor it is given and puts a new block at an address that is free. `AnchorsSound` is
  not inductive without the types (a record's size bounds the block that a resize
  builds), nor are the types without it (a pointer must lead to a block for its
  contents to have a type). `ClientInv` adds the books of a disciplined client. None of
  `NoLeak`, `BooksAgree`, `NoFault` is inductive alone: that no copy leaves its block
  needs the record's size to be the block's, which needs the first record of an anchor
  to be its only one, which needs a vacant anchor to have none. There is a lemma per
  operation; extend, truncation and insertion share `ResizeStep` and `ResizeBooks`.
- **The refinement.** FlexStore's variable is what each anchor owns (`Owned`), read from
  anchors and heap. With `ClientInv`, a lemma per operation shows that its result is
  the operation of `FlexStore` with the same arguments, byte for byte, or no change
  when it fails; the others leave `Owned` alone, for which no two anchors may share a
  block.
- **PseudoKern, PseudoIO.** The properties are inductive with the types and each other.
- **PseudoExit.** `StatusRecovered` is inductive with `OneShot`. `NoStaleJump` is not: it needs
  that a good `jmp_buf` belongs to a frame still on the stack (`FramesLive`), and that an
  armed interceptor has a good target (`TargetLive`).
- **PseudoWimp.** `TrapFaithful` in the form `TrapInv`: the trap is the first part of the
  history of sends, and all of it until the trap is full. `RefsInv` bounds the numbers
  given out, before the last reset and since, by the counter. With the types the two
  are inductive.
  `LoopCompletes` needs that the loop is entered only for a caller that passed a `more`
  flag (`RedrawInv`).
- **PseudoEvnt.** The properties compare bags. They are proved element by element: each
  handler is in the list of its kind as often as it is owed, unless a walk is taking its
  records out, and registered with the library that often and once more for each record
  that is gone (`BooksInv`); the lists hold records of their own kind, and there is a block
  for each and for each that was in a list when it was cleared (`TableInv`). A walk leaves
  no record of its object behind the place it has reached (`WalkInv`), so that none is left
  when it ends. What an operation does to the number of occurrences of an element in a
  list are the lemmas `TimesInsert`, `TimesRemove` and `TimesWithout`. That blocks are
  counted right when several equal handlers are owed comes from a bijection between the
  places of a list and the numbered copies of its elements (`PairsFacts`).
- **PseudoTbox.** `RecordsFollowObjects` speaks of events, so its inductive form (`TableInv`)
  has to say how events, objects and records can overlap: of one object the creation
  is told before the deletion and each at most once; while the creation is to be told
  there is no record, and while the deletion is, no object. Without this a late
  event could take the record of an object it is not about. `FlagsInv` adds the flags.
  `SavesInv` is about each interceptor by itself. `FindSound` says which of several
  records a search meets first, so its inductive form (`MadeInv`) is about places: records
  stand in the reverse of the order in which the client was told of their objects.
- **PseudoPoll.** `PollInv` is the table invariant again, with the events being handled
  beside those queued, and with what is lost or surplus (`RecordsInv`): while the handlers
  of its creation run an object has no record yet, while those of its deletion run it
  has one, and one more at most if the client gave its identifier to a successor. That
  nothing is lost or surplus for longer than it is so is `AmissInv`. `FramesInv` is about the stack of polls: the ID block speaks of a poll only until
  another has taken an event, so at most one poll in progress is still to be printed
  right, and all inside it have had null events. Each frame's count of polls and the
  number it may still make add up, which `IdleDelivers` needs.
- **Debug.** `OutputInv` has what a mode may have open and that the exit handler is
  missing only while no mode was set. `ReasonInv` follows the reason of a failed assertion:
  its text being put into the line or the stream, then its line feed, then the end.
  `CutConcat` shows that what there is room for of a text is the whole of it, cut, which
  ties the copy at `Debug.c:317-320` to what `ReasonOut` says. `LinesInv` says that there is a text, all that was
  formatted but what is still to be read, of which `Split` gives the lines and the rest
  of a line. `Split` is a recursive function. That one iteration of the loop, which
  takes a chunk up to a line feed, does what `Split` does for each of its characters is
  shown by taking the first character for which it does not.

The library's induction theorems take an operator as a parameter and cannot be used
with the provers at hand. The proofs use the well-ordering of the naturals
in its place, as a statement about sets (`LeastNatural` and `FirstPlace` in `ListFacts`):
of the places where a claim fails there is a first. This also serves the searches of
lists for their first match.

Only model-checked: liveness, which is out of the prover's reach because it rests on
fairness and so on when a step is possible (`RedrawTerminates`, `OutputReturns`,
`PollsReturn`). The two properties that the code violates (`findings`) are refuted by
TLC's counterexamples.

## Findings

Two runs end in a counterexample, because a document or comment in the repository
says something the code does not do; `findings` quotes the lines.

- `wimp_redraw`: a simulated error during a redraw whose caller passes no `more`
  flag returns with the redraw open and never asked to its end (`PseudoWimp.c:344`, `:372`).
- `idle`: `pseudo_event_wait_for_idle` unmasks only null events (`PseudoEvnt.c:223`) and gives
  up after 512 polls (`:239`), so it can return without an error while events are
  queued. The run shows the first of these, a message that the program masks out;
  `IdleDelivers` states what holds, and has the count in it.

Observations made while modelling, without a run of their own:

- `PseudoExit.h:47-48` gives setjmp's result as one more than the status. For status -1
  it is 1 and not 0 (`PseudoExit.c:46`), because C turns `longjmp(..., 0)` into 1; so -1 and
  0 look alike. `StatusRecovered` states what holds for each status.
- A refused `puts` sets no error indicator on `stdout` (`PseudoIO.c:193-196`), unlike every other
  refused transfer. `FailureSticks` excepts it by name; `ErrnoExplained` does not.
- `PseudoTbox.h:388-391` says that the object created most recently is found by template
  name, and none only if none exists. An object the Toolbox created is recorded when its
  event is delivered (`PseudoTbox.c:194`), so the order is that in which the client was
  told; and an object that has lost its record, by a failed deletion (`:276`), another
  initialisation (`:130`) or for want of memory (`:187`), is not found at all. `FindSound` names
  the objects excepted, and claims the order for all others.
- `PseudoTbox.h:396-398`, `:412-414` and `:429-430` speak of all notifications after a reset, and
  `:403-404` and `:419-420` of the last; only the first is intercepted and recorded
  (`PseudoTbox.c:473`, `:531`). `SavesAccounted` states that.
- `pseudo_event_initialise` clears the lists of handlers without freeing the records
  (`PseudoEvnt.c:120-122`) on every call. Handlers registered before it stay registered, their
  records leak, and deregistering one of them fails the assertion that its record is
  found. So does a second attempt after the event library refused to deregister a
  handler, since the record went before it was asked (`:334-338`). `AlwaysFound` says that
  there is no other way to that assertion.
- `pseudo_wimp_get_message_count` stops at 32, while `PseudoWimp.h:117-119` says it
  returns the number of messages sent. `TrapFaithful` states what holds instead.
- With capture on and room in the trap a null event without a block is dereferenced
  (`PseudoWimp.c:235`), although the assertion at 182 lets it through. The model
  stops there (`crashed`). With a full trap it is dropped without harm.
- An object shown before its creation was recorded is said not to be showing, and
  one whose show failed in the Toolbox is said to be; `PseudoTbox.h:377-379` has no
  such exception. `ShowingSound` states the exact extent.
- `Debug.h:48-49` says that the reason for any assertion failure is properly logged. Without
  an output mode or without a log file it goes nowhere (`Debug.c:259`), in a mode that
  assembles lines the part that does not fit in the line is discarded (`:317-320`), and the
  buffered log file may lose it. `ReasonOut` states how much gets out in each mode.
- `pseudo_toolbox_create_object` passes an uninitialised identifier to its caller, with
  the error, when the Toolbox fails (`PseudoTbox.c:244`). The model has no variable for
  what a client ignores after an error.
- A new log name is ignored unless the mode changes too, and the previous mode that
  `debug_set_output` returns cannot restore the name that went with it (`Debug.c:117`).
- A line that is not complete stays in the buffer when the mode changes to one that
  does not assemble lines: it comes out in front of the first line of a later mode
  that does, or never. `LinesFaithful` says so by treating all such text as one.
- When no session log can be opened after a spell of SysLog mode, the log name left in
  `syslog_handle` is passed to SysLog as a handle (`Debug.c:186`), for messages and to close
  a session. `NoStaleSession` allows it, and says that nothing worse is passed.

## Not modelled

- `Internal/CBDebMisc.h` has macros only; those that do something (`LOWEST`, `STRCPY_SAFE`)
  are modelled where they are used. Build files have no behaviour.
- The veneers of `PseudoTbox.c` without state are one action per group (`Veneer`), since
  their bodies are equal.
- `PseudoWimp` and `PseudoTbox` without assertions: the actions are there (`Asserts` FALSE), but
  no run uses them; the theorems that hold of either build are proved for them too. A
  failed send may then have trapped its message with an uninitialised sender
  (`PseudoWimp.c:205`), so `ErrorMeansNotSent` would not hold of that build, and a SaveAs call
  may write beyond its buffer (`PseudoTbox.c:470`), where the model stops (`overrun`).
- The steps inside one call of `PseudoFlex` with two allocations: the library has one thread,
  so only what the call leaves can be seen.
- `PseudoPoll` takes over the object events of `PseudoTbox` only: SaveAs calls and showing
  and hiding are not interleaved with polls, since `PseudoTbox` has them and no poll
  looks at them. Registration of handlers from inside a handler is not composed either;
  the event library's own walk through its handlers is not in `src/`.

## Plan

What is left, in order:

1. The safety half of the three liveness properties: a measure that each step of the
   thread inside a call decreases (rectangles to come in a redraw, text to be read in
   `Debug`, the count of a wait for idle). With it only fairness is left to TLC.
2. `PseudoEvnt` as an implementation of a plain bag of handlers, which the theorems about
   its lists nearly say.
3. An abstract trap for `PseudoWimp` (a bounded log of what was sent), as `FlexStore` is for
   `PseudoFlex`.
