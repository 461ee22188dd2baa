---------------------------- MODULE PseudoFlex ----------------------------
(***************************************************************************)
(* PseudoFlex.c: the flex library on top of the Fortify heap.  A flex      *)
(* block is a heap block, the client's anchor that points to it, and a     *)
(* record of its size on a linked list.  The client moves between calls;   *)
(* the library has a single thread, so a call is one step.                 *)
(*                                                                         *)
(* The heap, the linked list and the client are not in the repository and  *)
(* are modelled from the way PseudoFlex.c uses them.                       *)
(***************************************************************************)
EXTENDS Integers, Sequences, SequencesExt

CONSTANTS
  Anchor,      \* the client's flex anchors
  Addr,        \* the addresses the heap can place a block at
  Byte,        \* values of a byte
  Junk,        \* the byte found in memory nobody has written
  NULL,        \* the null pointer
  NoBlock,     \* "no heap block at this address"
  MaxSize,     \* bound: the largest block the client asks for
  OddStates,   \* states the client passes that the library does not know
  Rates,       \* the failure rates, in percent, the client gives to Fortify
  Asserts,     \* are assertions compiled in (NDEBUG not defined)?
  Disciplined  \* does the client keep to the rules of the flex library?

Contents == UNION {[0..(n - 1) -> Byte] : n \in 0..MaxSize}

ASSUME SizeAssumption == MaxSize \in Nat
ASSUME ByteAssumption == Junk \in Byte /\ NoBlock \notin Contents
ASSUME PointerAssumption == NULL \notin Addr /\ Addr # {}
ASSUME RateAssumption == Rates \subseteq 0..100
ASSUME StateAssumption == OddStates \subseteq Int
ASSUME ModeAssumption == Asserts \in BOOLEAN /\ Disciplined \in BOOLEAN

VARIABLES
  heap,           \* contents of the block at each address, or NoBlock
  failRate,       \* Fortify's allocation failure rate
  records,        \* how many records have been malloc'd and not freed
  block_list,     \* the list of records, head first
  anchors,        \* the pointer in each anchor
  budge_state,
  defer_compact,
  held,           \* the size the client knows each anchor to have, or NotHeld
  ret,            \* which function returned last, and what
  status          \* "running", "aborted" by an assertion, or "overrun"

vars == <<heap, failRate, records, block_list, anchors, budge_state,
          defer_compact, held, ret, status>>
blockVars == <<heap, records, block_list, anchors>>
tuning == <<failRate, budge_state, defer_compact>>

NotHeld == -1
PseudoFlexRecord == [anchor : Anchor, size : 0..MaxSize]
Ops == {"none", "alloc", "free", "size", "extend", "midextend", "reanchor",
        "set_budge", "init", "compact", "set_deferred_compaction",
        "save_heap_info", "set_rate", "write"}

\* The arguments a client passes as a state, and as a size or an offset: one that
\* keeps to the rules passes no other than the library knows.
Switches == {0, 1} \cup (IF Disciplined THEN {} ELSE OddStates)
Sizes == IF Disciplined THEN 0..MaxSize ELSE (-MaxSize)..MaxSize

\* Is an argument outside its range never acted upon?
Enforced == Asserts \/ Disciplined

TypeOK ==
  /\ heap \in [Addr -> Contents \cup {NoBlock}]
  /\ failRate \in 0..100
  /\ records \in Nat
  /\ block_list \in Seq(PseudoFlexRecord)
  /\ anchors \in [Anchor -> Addr \cup {NULL}]
  /\ {budge_state, defer_compact} \subseteq (IF Enforced THEN {0, 1} ELSE Switches)
  /\ held \in [Anchor -> {NotHeld} \cup 0..MaxSize]
  /\ ret \in [op : Ops, val : Int]
  /\ status \in {"running", "aborted", "overrun"}

-----------------------------------------------------------------------------
(* Memory: Fortify_malloc, Fortify_realloc, Fortify_free, memcpy, memmove. *)

Fresh == {p \in Addr : heap[p] = NoBlock}
Uninit(n) == [i \in 0..(n - 1) |-> Junk]
Block(p) == IF p = NULL THEN Uninit(0) ELSE heap[p]

\* Where an allocation of n bytes may be placed; NULL when it fails.  A
\* negative n is an enormous size_t.
Fortify_malloc(n) ==
  (IF n >= 0 /\ failRate < 100 THEN Fresh ELSE {})
    \cup (IF n < 0 \/ failRate > 0 \/ Fresh = {} THEN {NULL} ELSE {})

\* realloc may leave the block where it is; realloc(NULL, n) is malloc(n).
Fortify_realloc(p, n) ==
  Fortify_malloc(n)
    \cup (IF p # NULL /\ n >= 0 /\ failRate < 100 THEN {p} ELSE {})

Resized(c, n) ==
  [i \in 0..(n - 1) |-> IF i \in DOMAIN c THEN c[i] ELSE Junk]

Freed(h, p) == IF p = NULL THEN h ELSE [h EXCEPT ![p] = NoBlock]

\* Mutation: the old block is not freed.
MovedKeepingOld(p, q, c) == [heap EXCEPT ![q] = c]

\* The heap when the block at p has become contents c at q.
Moved(p, q, c) == [Freed(heap, p) EXCEPT ![q] = c]

Span(from, n) == from..(from + n - 1)
CopyOK(dst, doff, src, soff, n) ==
  /\ n >= 0
  /\ Span(doff, n) \subseteq DOMAIN dst
  /\ Span(soff, n) \subseteq DOMAIN src
\* Mutation: one byte too few is copied.
CopyShort(dst, doff, src, soff, n) ==
  [i \in DOMAIN dst |->
     IF i \in Span(doff, n - 1) THEN src[soff + (i - doff)] ELSE dst[i]]

Copy(dst, doff, src, soff, n) ==
  [i \in DOMAIN dst |->
     IF i \in Span(doff, n) THEN src[soff + (i - doff)] ELSE dst[i]]

-----------------------------------------------------------------------------
(* The list of records. *)

block_has_anchor(i, a) == block_list[i].anchor = a

\* The position of the first record of an anchor, as a set: empty when the
\* function returns NULL.
find_anchor(a) ==
  {i \in DOMAIN block_list :
     /\ block_has_anchor(i, a)
     /\ \A j \in 1..(i - 1) : ~block_has_anchor(j, a)}

linkedlist_insert(r) == <<r>> \o block_list
linkedlist_remove(i) == RemoveAt(block_list, i)

-----------------------------------------------------------------------------
(* How a call ends. *)

Returns(op, val) == ret' = [op |-> op, val |-> val] /\ UNCHANGED status

\* The call returns 0 and has changed nothing.
Fails(op) == Returns(op, 0) /\ UNCHANGED <<blockVars, tuning, held>>

Aborts == /\ Asserts
          /\ status' = "aborted"
          /\ UNCHANGED <<blockVars, tuning, held, ret>>

Overruns == /\ status' = "overrun"
            /\ UNCHANGED <<blockVars, tuning, held, ret>>

\* assert(x), then the code's own reaction when assertions are compiled out.
Rejects(op) == Aborts \/ (~Asserts /\ Fails(op))

Init ==
  /\ heap = [p \in Addr |-> NoBlock]
  /\ failRate = 0
  /\ records = 0
  /\ block_list = <<>>
  /\ anchors = [a \in Anchor |-> NULL]
  /\ budge_state = 0
  /\ defer_compact = 0
  /\ held = [a \in Anchor |-> NotHeld]
  /\ ret = [op |-> "none", val |-> 0]
  /\ status = "running"

\* The rules of the flex library, as far as the client can follow them by
\* looking at what its earlier calls returned.
Holds(a) == Disciplined => held[a] # NotHeld
Vacant(a) == Disciplined => held[a] = NotHeld

-----------------------------------------------------------------------------
(* The operations. *)

\* Mutation: the record is not freed when there is no memory for the block.
AllocLeakingRecord(a, n) ==
  /\ status = "running"
  /\ Vacant(a)
  /\ \E blk \in Fortify_malloc(n) :
       \/ /\ blk = NULL
          /\ records' = records + 1
          /\ Returns("alloc", 0)
          /\ UNCHANGED <<heap, block_list, anchors, held, tuning>>
       \/ /\ blk # NULL
          /\ heap' = [heap EXCEPT ![blk] = Uninit(n)]
          /\ records' = records + 1
          /\ block_list' = linkedlist_insert([anchor |-> a, size |-> n])
          /\ anchors' = [anchors EXCEPT ![a] = blk]
          /\ held' = [held EXCEPT ![a] = n]
          /\ Returns("alloc", 1)
          /\ UNCHANGED tuning

PseudoFlex_alloc(a, n) ==
  /\ status = "running"
  /\ Vacant(a)
  /\ \/ n < 0 /\ Aborts
     \/ /\ n >= 0 \/ ~Asserts
        /\ \/ Fails("alloc")                 \* malloc of the record failed
           \/ \E blk \in Fortify_malloc(n) :
                \/ blk = NULL /\ Fails("alloc")   \* the record is freed again
                \/ /\ blk # NULL
                   /\ heap' = [heap EXCEPT ![blk] = Uninit(n)]
                   /\ records' = records + 1
                   /\ block_list' = linkedlist_insert([anchor |-> a, size |-> n])
                   /\ anchors' = [anchors EXCEPT ![a] = blk]
                   /\ held' = [held EXCEPT ![a] = n]
                   /\ Returns("alloc", 1)
                   /\ UNCHANGED tuning

PseudoFlex_free(a) ==
  /\ status = "running"
  /\ Holds(a)
  /\ \/ find_anchor(a) = {} /\ Rejects("free")
     \/ \E i \in find_anchor(a) :
          /\ block_list' = linkedlist_remove(i)
          /\ records' = records - 1
          /\ heap' = Freed(heap, anchors[a])
          /\ anchors' = [anchors EXCEPT ![a] = NULL]
          /\ held' = [held EXCEPT ![a] = NotHeld]
          /\ Returns("free", 0)
          /\ UNCHANGED tuning

PseudoFlex_size(a) ==
  /\ status = "running"
  /\ Holds(a)
  /\ \/ find_anchor(a) = {} /\ Rejects("size")
     \/ \E i \in find_anchor(a) :
          /\ Returns("size", block_list[i].size)
          /\ UNCHANGED <<blockVars, tuning, held>>

\* The tail extend and midextend share: the anchor and the record's size.
Resize(op, a, i, new_addr, c, newsize) ==
  /\ heap' = Moved(anchors[a], new_addr, c)
  /\ anchors' = [anchors EXCEPT ![a] = new_addr]
  /\ block_list' = [block_list EXCEPT ![i].size = newsize]
  /\ held' = [held EXCEPT ![a] = newsize]
  /\ Returns(op, 1)
  /\ UNCHANGED <<records, tuning>>

PseudoFlex_extend(a, newsize) ==
  /\ status = "running"
  /\ Holds(a)
  /\ \/ newsize < 0 /\ Aborts
     \/ /\ newsize >= 0 \/ ~Asserts
        /\ \/ find_anchor(a) = {} /\ Rejects("extend")
           \/ \E i \in find_anchor(a),
                 new_addr \in Fortify_realloc(anchors[a], newsize) :
                \/ new_addr = NULL /\ Fails("extend")
                \/ /\ new_addr # NULL
                   /\ Resize("extend", a, i, new_addr,
                             Resized(Block(anchors[a]), newsize), newsize)

\* Mutation: the whole block is taken for its end.
BytesOfWholeBlock(size, at) == size

\* The bytes from at to the end of the block; a wrapped size_t when negative.
bytes_to_copy(size, at) == size - at

\* by < 0: a new block, the two ends copied into it, the old block freed.
Truncate(a, i, at, by) ==
  LET size == block_list[i].size
      newsize == size + by
      old == Block(anchors[a])
      low == Copy(Uninit(newsize), 0, old, 0, at + by)
      InBounds == /\ CopyOK(Uninit(newsize), 0, old, 0, at + by)
                  /\ CopyOK(low, at + by, old, at, bytes_to_copy(size, at))
  IN \E new_addr \in Fortify_malloc(newsize) :
       \/ new_addr = NULL /\ Fails("midextend")
       \/ new_addr # NULL /\ ~InBounds /\ Overruns
       \/ /\ new_addr # NULL
          /\ InBounds
          /\ Resize("midextend", a, i, new_addr,
                    Copy(low, at + by, old, at, bytes_to_copy(size, at)), newsize)

\* by >= 0: the block reallocated, then its end moved up within itself.
Insert(a, i, at, by) ==
  LET size == block_list[i].size
      newsize == size + by
      grown == Resized(Block(anchors[a]), newsize)
      InBounds == CopyOK(grown, at + by, grown, at, bytes_to_copy(size, at))
  IN \E new_addr \in Fortify_realloc(anchors[a], newsize) :
       \/ new_addr = NULL /\ Fails("midextend")
       \/ new_addr # NULL /\ ~InBounds /\ Overruns
       \/ /\ new_addr # NULL
          /\ InBounds
          /\ Resize("midextend", a, i, new_addr,
                    Copy(grown, at + by, grown, at, bytes_to_copy(size, at)), newsize)

PseudoFlex_midextend(a, at, by) ==
  /\ status = "running"
  /\ Holds(a)
  /\ Disciplined => at <= held[a] /\ -by <= at
  /\ \/ at < 0 /\ Aborts
     \/ /\ at >= 0 \/ ~Asserts
        /\ \/ find_anchor(a) = {} /\ Rejects("midextend")
           \/ \E i \in find_anchor(a) :
                /\ block_list[i].size + by <= MaxSize
                /\ \/ block_list[i].size < at /\ Aborts
                   \/ /\ at <= block_list[i].size \/ ~Asserts
                      /\ \/ by < 0 /\ -by > at /\ Rejects("midextend")
                         \/ by < 0 /\ -by <= at /\ Truncate(a, i, at, by)
                         \/ by >= 0 /\ Insert(a, i, at, by)

\* Mutation: the old anchor keeps its pointer.
ReanchorKeepingFrom(to, from) ==
  /\ status = "running"
  /\ Holds(from) /\ Vacant(to)
  /\ \E i \in find_anchor(from) :
       /\ block_list' = [block_list EXCEPT ![i].anchor = to]
       /\ anchors' = [anchors EXCEPT ![to] = anchors[from]]
       /\ held' = [held EXCEPT ![to] = held[from], ![from] = NotHeld]
       /\ Returns("reanchor", 1)
       /\ UNCHANGED <<heap, records, tuning>>

PseudoFlex_reanchor(to, from) ==
  /\ status = "running"
  /\ Holds(from) /\ Vacant(to)
  /\ \/ find_anchor(from) = {} /\ Rejects("reanchor")
     \/ \E i \in find_anchor(from) :
          /\ block_list' = [block_list EXCEPT ![i].anchor = to]
          /\ anchors' = [anchors EXCEPT ![to] = anchors[from], ![from] = NULL]
          /\ held' = [held EXCEPT ![to] = held[from], ![from] = NotHeld]
          /\ Returns("reanchor", 1)
          /\ UNCHANGED <<heap, records, tuning>>

-----------------------------------------------------------------------------
(* The operations that are not about a block. *)

\* Mutation: -1 is stored too.
SetBudgeAlways(newstate) ==
  /\ status = "running"
  /\ budge_state' = newstate
  /\ Returns("set_budge", budge_state)
  /\ UNCHANGED <<blockVars, held, failRate, defer_compact>>

\* The state returned is the old one; -1 only asks.  Without assertions any other
\* value is stored.
PseudoFlex_set_budge(newstate) ==
  /\ status = "running"
  /\ \/ newstate \notin -1..1 /\ Aborts
     \/ /\ newstate \in -1..1 \/ ~Asserts
        /\ budge_state' = IF newstate # -1 THEN newstate ELSE budge_state
        /\ Returns("set_budge", budge_state)
        /\ UNCHANGED <<blockVars, held, failRate, defer_compact>>

\* An empty block is allocated and freed at failure rate 0, then the rate
\* that was there before is put back: only the test for NULL can be seen.
PseudoFlex_init ==
  /\ status = "running"
  /\ Disciplined => \A a \in Anchor : held[a] = NotHeld
  /\ \/ Fresh = {} /\ Aborts
     \/ /\ Fresh # {} \/ ~Asserts
        /\ Returns("init", 0)
        /\ UNCHANGED <<blockVars, tuning, held>>

\* Writes a line to a file: no state of the library is involved.
PseudoFlex_save_heap_info ==
  status = "running" /\ Fails("save_heap_info")

PseudoFlex_compact ==
  status = "running" /\ Fails("compact")

PseudoFlex_set_deferred_compaction(newstate) ==
  /\ status = "running"
  /\ \/ newstate \notin {0, 1} /\ Aborts
     \/ /\ newstate \in {0, 1} \/ ~Asserts
        /\ defer_compact' = newstate
        /\ Returns("set_deferred_compaction", defer_compact)
        /\ UNCHANGED <<blockVars, held, failRate, budge_state>>

-----------------------------------------------------------------------------
(* The client's own steps. *)

\* A byte of a block is written through the anchor.
ClientWrite(a, i, b) ==
  /\ status = "running"
  /\ anchors[a] # NULL
  /\ i \in DOMAIN heap[anchors[a]]
  /\ heap' = [heap EXCEPT ![anchors[a]][i] = b]
  /\ ret' = [op |-> "write", val |-> 0]
  /\ UNCHANGED <<records, block_list, anchors, tuning, held, status>>

Fortify_SetAllocateFailRate(percent) ==
  /\ status = "running"
  /\ failRate' = percent
  /\ ret' = [op |-> "set_rate", val |-> 0]
  /\ UNCHANGED <<blockVars, held, budge_state, defer_compact, status>>

Next ==
  \/ \E a \in Anchor :
       \/ PseudoFlex_free(a)
       \/ PseudoFlex_size(a)
       \/ \E n \in Sizes : PseudoFlex_alloc(a, n) \/ PseudoFlex_extend(a, n)
       \/ \E at \in Sizes, by \in (-MaxSize)..MaxSize :
            PseudoFlex_midextend(a, at, by)
       \/ \E from \in Anchor : PseudoFlex_reanchor(a, from)
       \/ \E i \in 0..(MaxSize - 1), b \in Byte \ {Junk} : ClientWrite(a, i, b)
  \/ \E newstate \in Switches \cup {-1} : PseudoFlex_set_budge(newstate)
  \/ \E newstate \in Switches : PseudoFlex_set_deferred_compaction(newstate)
  \/ PseudoFlex_init
  \/ PseudoFlex_save_heap_info
  \/ PseudoFlex_compact
  \/ \E percent \in Rates : Fortify_SetAllocateFailRate(percent)

Spec == Init /\ [][Next]_vars

-----------------------------------------------------------------------------
(* Properties. *)

\* A heap block exists exactly when an anchor points to it and no two anchors
\* point to the same one: nothing leaks out of alloc, extend, midextend, free
\* or reanchor, whichever allocation fails, and nothing is freed twice.
NoLeak ==
  /\ \A a, b \in Anchor :
       anchors[a] # NULL /\ anchors[a] = anchors[b] => a = b
  /\ \A p \in Addr : heap[p] # NoBlock <=> \E a \in Anchor : anchors[a] = p

\* What the client believes from the values returned to it, what the list of
\* records says and what the heap really holds agree: an anchor held with size
\* n has one record, of size n, and its pointer leads to n bytes; an anchor not
\* held has no record and is NULL; every malloc'd record is on the list.
BooksAgree ==
  /\ records = Len(block_list)
  /\ \A i, j \in DOMAIN block_list :
       block_list[i].anchor = block_list[j].anchor => i = j
  /\ \A i \in DOMAIN block_list :
       held[block_list[i].anchor] = block_list[i].size
  /\ \A a \in Anchor :
       /\ held[a] # NotHeld <=> \E i \in DOMAIN block_list : block_list[i].anchor = a
       /\ held[a] = NotHeld <=> anchors[a] = NULL
       /\ anchors[a] # NULL => DOMAIN heap[anchors[a]] = 0..(held[a] - 1)

\* A client that keeps to the rules is never stopped by an assertion and no
\* memcpy or memmove of midextend leaves its block.
NoFault == status = "running"

\* Whatever the client does, even with assertions compiled out: an anchor that
\* is not NULL points to a live block that no other anchor points to, and there
\* is a record of it, so no sequence of calls frees a block twice.
AnchorsSound ==
  \A a \in Anchor : anchors[a] # NULL =>
    /\ heap[anchors[a]] # NoBlock
    /\ \A b \in Anchor \ {a} : anchors[b] # anchors[a]
    /\ \E i \in DOMAIN block_list : block_has_anchor(i, a)

\* The inductive invariants: of any client, and of one that keeps to the rules.
AnyInv == TypeOK /\ records = Len(block_list) /\ AnchorsSound
ClientInv == AnyInv /\ NoLeak /\ BooksAgree /\ NoFault

\* The blocks as their owners see them: PseudoFlex implements FlexStore.
Owned(a) == IF anchors[a] = NULL THEN NoBlock ELSE heap[anchors[a]]

Store == INSTANCE FlexStore
           WITH store <- [a \in Anchor |-> Owned(a)], reply <- ret
StoreSpec == Store!Spec
=============================================================================
