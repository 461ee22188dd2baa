------------------------- MODULE PseudoFlexProofs -------------------------
(***************************************************************************)
(* What is proved of PseudoFlex for every set of anchors and addresses,    *)
(* every block size and every client; and that PseudoFlex implements       *)
(* FlexStore for a client that keeps to the rules: every call is, for the  *)
(* blocks as their owners see them, one operation of FlexStore, or it      *)
(* changes nothing.                                                        *)
(***************************************************************************)
EXTENDS PseudoFlex, ListFacts

(* Memory. *)

\* A block fresh from the heap has a byte at every offset below its size.
LEMMA UninitFacts ==
  ASSUME NEW n \in 0..MaxSize
  PROVE  Uninit(n) \in Contents /\ DOMAIN Uninit(n) = 0..(n - 1)
  BY ByteAssumption DEF Uninit, Contents

\* realloc gives the block its new size.
LEMMA ResizedFacts ==
  ASSUME NEW c \in Contents, NEW n \in 0..MaxSize
  PROVE  Resized(c, n) \in Contents /\ DOMAIN Resized(c, n) = 0..(n - 1)
<1>1. \A i \in DOMAIN c : c[i] \in Byte
  BY DEF Contents
<1>2. Resized(c, n) \in [0..(n - 1) -> Byte]
  BY <1>1, ByteAssumption DEF Resized
<1>3. QED
  BY <1>2 DEF Contents

\* A copy within its bounds keeps the destination's size.
LEMMA CopyFacts ==
  ASSUME NEW dst \in Contents, NEW src \in Contents,
         NEW doff \in Int, NEW soff \in Int, NEW n \in Int,
         CopyOK(dst, doff, src, soff, n)
  PROVE  /\ Copy(dst, doff, src, soff, n) \in Contents
         /\ DOMAIN Copy(dst, doff, src, soff, n) = DOMAIN dst
<1>1. PICK m \in 0..MaxSize : dst \in [0..(m - 1) -> Byte]
  BY DEF Contents
<1>2. \A i \in DOMAIN src : src[i] \in Byte
  BY DEF Contents
<1>3. \A i \in Span(doff, n) : soff + (i - doff) \in DOMAIN src
  <2> TAKE i \in Span(doff, n)
  <2>1. soff + (i - doff) \in Span(soff, n)
    BY DEF Span
  <2>2. QED
    BY <2>1 DEF CopyOK
<1>4. Copy(dst, doff, src, soff, n) \in [0..(m - 1) -> Byte]
  BY <1>1, <1>2, <1>3 DEF Copy
<1>5. QED
  BY <1>1, <1>4 DEF Contents, Copy

\* malloc returns an address no block is at.
LEMMA MallocFacts ==
  ASSUME NEW n \in Int, NEW q \in Fortify_malloc(n), q # NULL
  PROVE  q \in Addr /\ heap[q] = NoBlock /\ n >= 0
  BY DEF Fortify_malloc, Fresh

\* realloc returns the block's own address or one no block is at.
LEMMA ReallocFacts ==
  ASSUME NEW n \in Int, NEW p \in Addr \cup {NULL},
         NEW q \in Fortify_realloc(p, n), q # NULL
  PROVE  q \in Addr /\ (q = p \/ heap[q] = NoBlock) /\ n >= 0
  BY DEF Fortify_realloc, Fortify_malloc, Fresh

\* What an anchor leads to is a block's contents, or nothing.
LEMMA BlockFacts ==
  ASSUME AnyInv, NEW a \in Anchor
  PROVE  Block(anchors[a]) \in Contents
  BY UninitFacts, SizeAssumption DEF Block, AnyInv, TypeOK, AnchorsSound

-----------------------------------------------------------------------------
(* Any client: every operation preserves AnyInv. *)

\* What a state may have been set to.
Stored == IF Enforced THEN {0, 1} ELSE Switches

LEMMA StoredFacts == Stored \subseteq Int
  BY StateAssumption DEF Stored, Switches

\* A step that leaves the blocks, the records and the anchors alone.
LEMMA QuietStep ==
  ASSUME AnyInv, UNCHANGED <<blockVars, held>>,
         failRate' \in 0..100,
         {budge_state', defer_compact'} \subseteq (IF Enforced THEN {0, 1} ELSE Switches),
         ret' \in [op : Ops, val : Int],
         status' \in {"running", "aborted", "overrun"}
  PROVE  AnyInv'
  BY DEF AnyInv, TypeOK, AnchorsSound, blockVars, block_has_anchor

\* A failed call, an assertion that fires and a copy out of bounds are quiet.
LEMMA StopStep ==
  ASSUME AnyInv, NEW op \in Ops, Fails(op) \/ Aborts \/ Rejects(op) \/ Overruns
  PROVE  AnyInv'
<1>1. CASE Fails(op)
  BY <1>1, QuietStep DEF Fails, Returns, tuning, AnyInv, TypeOK
<1>2. CASE Aborts
  BY <1>2, QuietStep DEF Aborts, tuning, AnyInv, TypeOK
<1>3. CASE Overruns
  BY <1>3, QuietStep DEF Overruns, tuning, AnyInv, TypeOK
<1>4. QED
  BY <1>1, <1>2, <1>3 DEF Rejects

\* PseudoFlex_alloc: the new block is at a fresh address and its record comes first.
LEMMA AllocStep ==
  ASSUME AnyInv, NEW a \in Anchor, NEW n \in (-MaxSize)..MaxSize, PseudoFlex_alloc(a, n)
  PROVE  AnyInv'
<1>1. CASE Aborts \/ Fails("alloc")
  BY <1>1, StopStep DEF Ops
<1>2. ASSUME NEW blk \in Fortify_malloc(n), blk # NULL,
             heap' = [heap EXCEPT ![blk] = Uninit(n)],
             records' = records + 1,
             block_list' = linkedlist_insert([anchor |-> a, size |-> n]),
             anchors' = [anchors EXCEPT ![a] = blk],
             held' = [held EXCEPT ![a] = n],
             Returns("alloc", 1), UNCHANGED tuning
      PROVE  AnyInv'
  <2> DEFINE r == [anchor |-> a, size |-> n]
  <2>1. n \in 0..MaxSize /\ blk \in Addr /\ heap[blk] = NoBlock
    BY <1>2, MallocFacts, SizeAssumption
  <2>2. r \in PseudoFlexRecord /\ block_list \in Seq(PseudoFlexRecord)
    BY <2>1 DEF PseudoFlexRecord, AnyInv, TypeOK
  <2>3. /\ block_list' \in Seq(PseudoFlexRecord)
        /\ Len(block_list') = Len(block_list) + 1
        /\ DOMAIN block_list' = 1..(Len(block_list) + 1)
        /\ block_list'[1] = r
        /\ \A i \in DOMAIN block_list : block_list'[i + 1] = block_list[i]
    BY <1>2, <2>2, InsertFacts DEF linkedlist_insert
  <2>4. TypeOK'
    BY <1>2, <2>1, <2>3, UninitFacts DEF TypeOK, AnyInv, Returns, tuning, Ops
  <2>5. (records = Len(block_list))'
    BY <1>2, <2>3 DEF AnyInv
  <2>6. AnchorsSound'
    <3> SUFFICES ASSUME NEW b \in Anchor, anchors'[b] # NULL
                 PROVE  /\ heap'[anchors'[b]] # NoBlock
                        /\ \A d \in Anchor \ {b} : anchors'[d] # anchors'[b]
                        /\ \E i \in DOMAIN block_list' : block_list'[i].anchor = b
      BY DEF AnchorsSound, block_has_anchor
    <3>1. Uninit(n) # NoBlock
      BY <2>1, UninitFacts, ByteAssumption
    <3>2. heap'[anchors'[b]] # NoBlock
      BY <1>2, <2>1, <3>1 DEF AnyInv, TypeOK, AnchorsSound
    <3>3. \A d \in Anchor \ {b} : anchors'[d] # anchors'[b]
      BY <1>2, <2>1 DEF AnyInv, TypeOK, AnchorsSound
    <3>4. \E i \in DOMAIN block_list' : block_list'[i].anchor = b
      <4>1. CASE b = a
        BY <4>1, <2>2, <2>3, LenProperties
      <4>2. CASE b # a
        <5>1. PICK i \in DOMAIN block_list : block_list[i].anchor = b
          BY <1>2, <4>2 DEF AnyInv, TypeOK, AnchorsSound, block_has_anchor
        <5>2. i + 1 \in DOMAIN block_list' /\ block_list'[i + 1].anchor = b
          BY <5>1, <2>2, <2>3, LenProperties
        <5>3. QED
          BY <5>2
      <4>3. QED
        BY <4>1, <4>2
    <3>5. QED
      BY <3>2, <3>3, <3>4
  <2>7. QED
    BY <2>4, <2>5, <2>6 DEF AnyInv
<1>3. QED
  BY <1>1, <1>2 DEF PseudoFlex_alloc

\* PseudoFlex_free: block and first record of the anchor go together.
LEMMA FreeStep ==
  ASSUME AnyInv, NEW a \in Anchor, PseudoFlex_free(a)
  PROVE  AnyInv'
<1>1. CASE Rejects("free")
  BY <1>1, StopStep DEF Ops
<1>2. ASSUME NEW k \in find_anchor(a),
             block_list' = linkedlist_remove(k),
             records' = records - 1,
             heap' = Freed(heap, anchors[a]),
             anchors' = [anchors EXCEPT ![a] = NULL],
             held' = [held EXCEPT ![a] = NotHeld],
             Returns("free", 0), UNCHANGED tuning
      PROVE  AnyInv'
  <2>1. /\ block_list \in Seq(PseudoFlexRecord)
        /\ k \in DOMAIN block_list /\ block_list[k].anchor = a
    BY DEF AnyInv, TypeOK, find_anchor, block_has_anchor
  <2>2. /\ block_list' \in Seq(PseudoFlexRecord)
        /\ Len(block_list') = Len(block_list) - 1
        /\ DOMAIN block_list' = 1..(Len(block_list) - 1)
        /\ \A j \in DOMAIN block_list' :
             block_list'[j] = IF j < k THEN block_list[j] ELSE block_list[j + 1]
    BY <1>2, <2>1, RemoveFacts DEF linkedlist_remove
  <2>3. Len(block_list) \in Nat /\ DOMAIN block_list = 1..Len(block_list)
    BY <2>1, LenProperties
  <2>4. records' = Len(block_list') /\ records' \in Nat
    BY <1>2, <2>1, <2>2, <2>3 DEF AnyInv
  <2>5. heap' \in [Addr -> Contents \cup {NoBlock}]
    BY <1>2 DEF AnyInv, TypeOK, Freed
  <2>6. TypeOK'
    BY <1>2, <2>2, <2>4, <2>5 DEF AnyInv, TypeOK, Returns, tuning, Ops
  <2>7. AnchorsSound'
    <3> SUFFICES ASSUME NEW b \in Anchor, anchors'[b] # NULL
                 PROVE  /\ heap'[anchors'[b]] # NoBlock
                        /\ \A d \in Anchor \ {b} : anchors'[d] # anchors'[b]
                        /\ \E i \in DOMAIN block_list' : block_list'[i].anchor = b
      BY DEF AnchorsSound, block_has_anchor
    <3>1. b # a /\ anchors'[b] = anchors[b] /\ anchors[b] # anchors[a]
      BY <1>2 DEF AnyInv, TypeOK, AnchorsSound
    <3>2. heap'[anchors'[b]] # NoBlock
      BY <1>2, <3>1 DEF AnyInv, TypeOK, AnchorsSound, Freed
    <3>3. \A d \in Anchor \ {b} : anchors'[d] # anchors'[b]
      BY <1>2, <3>1 DEF AnyInv, TypeOK, AnchorsSound
    <3>4. PICK i \in DOMAIN block_list : block_list[i].anchor = b
      BY <3>1 DEF AnyInv, AnchorsSound, block_has_anchor
    <3>5. \E j \in DOMAIN block_list' : block_list'[j].anchor = b
      <4>1. i # k
        BY <3>1, <3>4, <2>1
      <4>2. CASE i < k
        BY <4>2, <2>1, <2>2, <2>3, <3>4
      <4>3. CASE i > k
        <5>1. i - 1 \in DOMAIN block_list' /\ block_list'[i - 1] = block_list[i]
          BY <4>3, <2>1, <2>2, <2>3
        <5>2. QED
          BY <5>1, <3>4
      <4>4. QED
        BY <4>1, <4>2, <4>3, <2>1, <2>3
    <3>6. QED
      BY <3>2, <3>3, <3>5
  <2>8. QED
    BY <2>4, <2>6, <2>7 DEF AnyInv
<1>3. QED
  BY <1>1, <1>2 DEF PseudoFlex_free

\* The step that extend and midextend have in common.
LEMMA ResizeStep ==
  ASSUME AnyInv, NEW op \in Ops, NEW a \in Anchor, NEW i \in find_anchor(a),
         NEW q \in Addr, q = anchors[a] \/ heap[q] = NoBlock,
         NEW n \in 0..MaxSize, NEW c \in Contents, Resize(op, a, i, q, c, n)
  PROVE  AnyInv'
<1> DEFINE r == [block_list[i] EXCEPT !.size = n]
<1>1. /\ heap' = [Freed(heap, anchors[a]) EXCEPT ![q] = c]
      /\ anchors' = [anchors EXCEPT ![a] = q]
      /\ block_list' = [block_list EXCEPT ![i] = r]
      /\ held' = [held EXCEPT ![a] = n]
      /\ records' = records
  BY DEF Resize, Moved
<1>2. /\ block_list \in Seq(PseudoFlexRecord) /\ i \in DOMAIN block_list
      /\ block_list[i] \in PseudoFlexRecord /\ block_list[i].anchor = a
  BY ElementOfSeq, LenProperties DEF AnyInv, TypeOK, find_anchor, block_has_anchor
<1>3. r \in PseudoFlexRecord /\ r.anchor = a
  BY <1>2 DEF PseudoFlexRecord
<1>4. /\ block_list' \in Seq(PseudoFlexRecord)
      /\ Len(block_list') = Len(block_list)
      /\ DOMAIN block_list' = DOMAIN block_list
      /\ \A j \in DOMAIN block_list : block_list'[j].anchor = block_list[j].anchor
  <2> HIDE DEF r
  <2> QED
    BY <1>1, <1>2, <1>3, UpdateFacts
<1>5. heap' \in [Addr -> Contents \cup {NoBlock}]
  BY <1>1 DEF AnyInv, TypeOK, Freed
<1>6. TypeOK'
  BY <1>1, <1>4, <1>5 DEF AnyInv, TypeOK, Resize, Returns, tuning
<1>7. AnchorsSound'
  <2> SUFFICES ASSUME NEW b \in Anchor, anchors'[b] # NULL
               PROVE  /\ heap'[anchors'[b]] # NoBlock
                      /\ \A d \in Anchor \ {b} : anchors'[d] # anchors'[b]
                      /\ \E j \in DOMAIN block_list' : block_list'[j].anchor = b
    BY DEF AnchorsSound, block_has_anchor
  <2>1. heap'[anchors'[b]] # NoBlock
    BY <1>1, ByteAssumption, PointerAssumption DEF AnyInv, TypeOK, AnchorsSound, Freed
  <2>2. \A d \in Anchor \ {b} : anchors'[d] # anchors'[b]
    BY <1>1, PointerAssumption DEF AnyInv, TypeOK, AnchorsSound
  <2>3. \E j \in DOMAIN block_list : block_list[j].anchor = b
    BY <1>1, <1>2 DEF AnyInv, TypeOK, AnchorsSound, block_has_anchor
  <2>4. QED
    BY <1>4, <2>1, <2>2, <2>3
<1>8. QED
  BY <1>1, <1>4, <1>6, <1>7 DEF AnyInv

\* The record find_anchor finds.
LEMMA RecordFacts ==
  ASSUME AnyInv, NEW a \in Anchor, NEW i \in find_anchor(a)
  PROVE  /\ i \in DOMAIN block_list
         /\ block_list[i].anchor = a
         /\ block_list[i].size \in 0..MaxSize
<1>1. i \in DOMAIN block_list /\ block_list[i].anchor = a
  BY DEF find_anchor, block_has_anchor
<1>2. block_list[i] \in PseudoFlexRecord
  BY <1>1, ElementOfSeq, LenProperties DEF AnyInv, TypeOK
<1>3. QED
  BY <1>1, <1>2 DEF PseudoFlexRecord

\* PseudoFlex_extend: a resize of realloc's block.
LEMMA ExtendStep ==
  ASSUME AnyInv, NEW a \in Anchor, NEW n \in (-MaxSize)..MaxSize, PseudoFlex_extend(a, n)
  PROVE  AnyInv'
<1>1. CASE Aborts \/ Rejects("extend") \/ Fails("extend")
  BY <1>1, StopStep DEF Ops
<1>2. ASSUME NEW i \in find_anchor(a),
             NEW q \in Fortify_realloc(anchors[a], n), q # NULL,
             Resize("extend", a, i, q, Resized(Block(anchors[a]), n), n)
      PROVE  AnyInv'
  <2>1. anchors[a] \in Addr \cup {NULL}
    BY DEF AnyInv, TypeOK
  <2>2. q \in Addr /\ (q = anchors[a] \/ heap[q] = NoBlock) /\ n \in 0..MaxSize
    BY <1>2, <2>1, ReallocFacts, SizeAssumption
  <2>3. Resized(Block(anchors[a]), n) \in Contents
    BY <2>2, BlockFacts, ResizedFacts
  <2>4. QED
    BY <1>2, <2>2, <2>3, ResizeStep DEF Ops
<1>3. QED
  BY <1>1, <1>2 DEF PseudoFlex_extend

\* The truncation of PseudoFlex_midextend: a resize to a new block.
LEMMA TruncateStep ==
  ASSUME AnyInv, NEW a \in Anchor, NEW i \in find_anchor(a), NEW at \in Int,
         NEW by \in (-MaxSize)..MaxSize, by < 0, block_list[i].size + by <= MaxSize,
         Truncate(a, i, at, by)
  PROVE  AnyInv'
<1> DEFINE size == block_list[i].size
           newsize == size + by
           old == Block(anchors[a])
           low == Copy(Uninit(newsize), 0, old, 0, at + by)
           new == Copy(low, at + by, old, at, bytes_to_copy(size, at))
<1>1. CASE Fails("midextend") \/ Overruns
  BY <1>1, StopStep DEF Ops
<1>2. ASSUME NEW q \in Fortify_malloc(newsize), q # NULL,
             CopyOK(Uninit(newsize), 0, old, 0, at + by),
             CopyOK(low, at + by, old, at, bytes_to_copy(size, at)),
             Resize("midextend", a, i, q, new, newsize)
      PROVE  AnyInv'
  <2>1. size \in 0..MaxSize
    BY RecordFacts
  <2>2. q \in Addr /\ heap[q] = NoBlock /\ newsize \in 0..MaxSize
    <3>1. newsize \in Int
      BY <2>1, SizeAssumption
    <3>2. QED
      BY <1>2, <2>1, <3>1, MallocFacts, SizeAssumption
  <2>3. old \in Contents /\ Uninit(newsize) \in Contents
    BY <2>2, BlockFacts, UninitFacts
  <2>4. at + by \in Int /\ bytes_to_copy(size, at) \in Int
    BY <2>1, SizeAssumption DEF bytes_to_copy
  <2>5. low \in Contents
    <3> HIDE DEF newsize, old
    <3> QED
      BY <1>2, <2>3, <2>4, CopyFacts
  <2>6. new \in Contents
    <3> HIDE DEF size, newsize, old, low
    <3> QED
      BY <1>2, <2>3, <2>4, <2>5, CopyFacts
  <2>7. QED
    <3> HIDE DEF newsize, new
    <3> QED
      BY <1>2, <2>2, <2>6, ResizeStep DEF Ops
<1>3. QED
  BY <1>1, <1>2 DEF Truncate

\* The insertion of PseudoFlex_midextend: a resize followed by a move.
LEMMA InsertStep ==
  ASSUME AnyInv, NEW a \in Anchor, NEW i \in find_anchor(a), NEW at \in Int,
         NEW by \in (-MaxSize)..MaxSize, by >= 0, block_list[i].size + by <= MaxSize,
         Insert(a, i, at, by)
  PROVE  AnyInv'
<1> DEFINE size == block_list[i].size
           newsize == size + by
           grown == Resized(Block(anchors[a]), newsize)
           new == Copy(grown, at + by, grown, at, bytes_to_copy(size, at))
<1>1. CASE Fails("midextend") \/ Overruns
  BY <1>1, StopStep DEF Ops
<1>2. ASSUME NEW q \in Fortify_realloc(anchors[a], newsize), q # NULL,
             CopyOK(grown, at + by, grown, at, bytes_to_copy(size, at)),
             Resize("midextend", a, i, q, new, newsize)
      PROVE  AnyInv'
  <2>1. size \in 0..MaxSize
    BY RecordFacts
  <2>2. q \in Addr /\ (q = anchors[a] \/ heap[q] = NoBlock) /\ newsize \in 0..MaxSize
    <3>1. newsize \in 0..MaxSize
      BY <2>1, SizeAssumption
    <3>2. anchors[a] \in Addr \cup {NULL}
      BY DEF AnyInv, TypeOK
    <3>3. QED
      BY <1>2, <3>1, <3>2, ReallocFacts, SizeAssumption
  <2>3. grown \in Contents
    BY <2>2, BlockFacts, ResizedFacts
  <2>4. at + by \in Int /\ at \in Int /\ bytes_to_copy(size, at) \in Int
    BY <2>1, SizeAssumption DEF bytes_to_copy
  <2>5. new \in Contents
    <3> HIDE DEF size, grown
    <3> QED
      BY <1>2, <2>3, <2>4, CopyFacts
  <2>6. QED
    <3> HIDE DEF newsize, new
    <3> QED
      BY <1>2, <2>2, <2>5, ResizeStep DEF Ops
<1>3. QED
  BY <1>1, <1>2 DEF Insert

\* PseudoFlex_midextend: one or the other.
LEMMA MidExtendStep ==
  ASSUME AnyInv, NEW a \in Anchor, NEW at \in Int,
         NEW by \in (-MaxSize)..MaxSize, PseudoFlex_midextend(a, at, by)
  PROVE  AnyInv'
<1>1. CASE Rejects("midextend") \/ Aborts
  BY <1>1, StopStep DEF Ops
<1>2. ASSUME NEW i \in find_anchor(a), block_list[i].size + by <= MaxSize,
             by < 0, Truncate(a, i, at, by)
      PROVE  AnyInv'
  BY <1>2, TruncateStep
<1>3. ASSUME NEW i \in find_anchor(a), block_list[i].size + by <= MaxSize,
             by >= 0, Insert(a, i, at, by)
      PROVE  AnyInv'
  BY <1>3, InsertStep
<1>4. QED
  BY <1>1, <1>2, <1>3 DEF PseudoFlex_midextend

\* PseudoFlex_reanchor: also onto itself and onto an anchor in use, whose block
\* is then lost but which still leads to one block of its own.
LEMMA ReanchorStep ==
  ASSUME AnyInv, NEW to \in Anchor, NEW from \in Anchor, PseudoFlex_reanchor(to, from)
  PROVE  AnyInv'
<1>1. CASE Rejects("reanchor")
  BY <1>1, StopStep DEF Ops
<1>2. ASSUME NEW i \in find_anchor(from),
             block_list' = [block_list EXCEPT ![i].anchor = to],
             anchors' = [anchors EXCEPT ![to] = anchors[from], ![from] = NULL],
             held' = [held EXCEPT ![to] = held[from], ![from] = NotHeld],
             Returns("reanchor", 1), UNCHANGED <<heap, records, tuning>>
      PROVE  AnyInv'
  <2> DEFINE r == [block_list[i] EXCEPT !.anchor = to]
  <2>1. /\ block_list \in Seq(PseudoFlexRecord) /\ i \in DOMAIN block_list
        /\ block_list[i] \in PseudoFlexRecord /\ block_list[i].anchor = from
    BY ElementOfSeq, LenProperties DEF AnyInv, TypeOK, find_anchor, block_has_anchor
  <2>2. r \in PseudoFlexRecord /\ r.anchor = to
    BY <2>1 DEF PseudoFlexRecord
  <2>3. /\ block_list' \in Seq(PseudoFlexRecord)
        /\ Len(block_list') = Len(block_list)
        /\ DOMAIN block_list' = DOMAIN block_list
        /\ block_list'[i] = r
        /\ \A j \in DOMAIN block_list : j # i => block_list'[j] = block_list[j]
    <3>1. block_list' = [block_list EXCEPT ![i] = r]
      BY <1>2
    <3> HIDE DEF r
    <3> QED
      BY <3>1, <2>1, <2>2, UpdateFacts
  <2> HIDE DEF r
  <2>4. TypeOK'
    BY <1>2, <2>3 DEF AnyInv, TypeOK, Returns, tuning, Ops
  <2>5. AnchorsSound'
    <3> SUFFICES ASSUME NEW b \in Anchor, anchors'[b] # NULL
                 PROVE  /\ heap'[anchors'[b]] # NoBlock
                        /\ \A d \in Anchor \ {b} : anchors'[d] # anchors'[b]
                        /\ \E j \in DOMAIN block_list' : block_list'[j].anchor = b
      BY DEF AnchorsSound, block_has_anchor
    <3>1. b # from /\ anchors'[b] = IF b = to THEN anchors[from] ELSE anchors[b]
      BY <1>2 DEF AnyInv, TypeOK
    <3>2. heap'[anchors'[b]] # NoBlock
      BY <1>2, <3>1 DEF AnyInv, AnchorsSound
    <3>3. \A d \in Anchor \ {b} : anchors'[d] # anchors'[b]
      BY <1>2, <3>1 DEF AnyInv, TypeOK, AnchorsSound
    <3>4. \E j \in DOMAIN block_list' : block_list'[j].anchor = b
      <4>1. CASE b = to
        BY <4>1, <2>1, <2>2, <2>3
      <4>2. CASE b # to
        <5>1. PICK j \in DOMAIN block_list : block_list[j].anchor = b
          BY <4>2, <3>1 DEF AnyInv, AnchorsSound, block_has_anchor
        <5>2. j # i
          BY <5>1, <3>1, <2>1
        <5>3. QED
          BY <5>1, <5>2, <2>3
      <4>3. QED
        BY <4>1, <4>2
    <3>5. QED
      BY <3>2, <3>3, <3>4
  <2>6. QED
    BY <1>2, <2>3, <2>4, <2>5 DEF AnyInv
<1>3. QED
  BY <1>1, <1>2 DEF PseudoFlex_reanchor

\* A client's write changes no size.
LEMMA WriteStep ==
  ASSUME AnyInv, NEW a \in Anchor, NEW i \in Int, NEW b \in Byte, ClientWrite(a, i, b)
  PROVE  AnyInv'
<1> DEFINE p == anchors[a]
           c == [heap[p] EXCEPT ![i] = b]
<1>1. p \in Addr /\ heap[p] \in Contents /\ heap' = [heap EXCEPT ![p] = c]
  BY DEF ClientWrite, AnyInv, TypeOK, AnchorsSound
<1>2. c \in Contents
  BY <1>1 DEF Contents
<1>3. TypeOK'
  BY <1>1, <1>2 DEF AnyInv, TypeOK, ClientWrite, tuning, Ops
<1>4. AnchorsSound'
  <2>1. c # NoBlock
    BY <1>2, ByteAssumption
  <2> HIDE DEF c
  <2>2. \A q \in Addr : heap[q] # NoBlock => heap'[q] # NoBlock
    BY <1>1, <2>1 DEF AnyInv, TypeOK
  <2>3. anchors' = anchors /\ block_list' = block_list
    BY DEF ClientWrite
  <2>4. QED
    BY <2>2, <2>3 DEF AnyInv, TypeOK, AnchorsSound, block_has_anchor
<1>5. QED
  BY <1>3, <1>4 DEF AnyInv, ClientWrite

\* AnyInv is inductive: one case per operation.
LEMMA AnyStep ==
  ASSUME AnyInv, [Next]_vars
  PROVE  AnyInv'
<1>1. CASE UNCHANGED vars
  BY <1>1, QuietStep DEF vars, blockVars, AnyInv, TypeOK
<1>2. Sizes \subseteq (-MaxSize)..MaxSize
  BY SizeAssumption DEF Sizes
<1>3. ASSUME NEW a \in Anchor, PseudoFlex_free(a) PROVE AnyInv'
  BY <1>3, FreeStep
<1>4. ASSUME NEW a \in Anchor, PseudoFlex_size(a) PROVE AnyInv'
  <2>1. CASE Rejects("size")
    BY <2>1, StopStep DEF Ops
  <2>2. ASSUME NEW i \in find_anchor(a), Returns("size", block_list[i].size),
               UNCHANGED <<blockVars, tuning, held>>
        PROVE  AnyInv'
    <3>1. block_list[i].size \in Nat
      BY RecordFacts, SizeAssumption
    <3>2. QED
      BY <2>2, <3>1, QuietStep DEF Returns, tuning, AnyInv, TypeOK, Ops
  <2>3. QED
    BY <1>4, <2>1, <2>2 DEF PseudoFlex_size
<1>5. ASSUME NEW a \in Anchor, NEW n \in Sizes, PseudoFlex_alloc(a, n) PROVE AnyInv'
  BY <1>2, <1>5, AllocStep
<1>6. ASSUME NEW a \in Anchor, NEW n \in Sizes, PseudoFlex_extend(a, n) PROVE AnyInv'
  BY <1>2, <1>6, ExtendStep
<1>7. ASSUME NEW a \in Anchor, NEW at \in Sizes, NEW by \in (-MaxSize)..MaxSize,
             PseudoFlex_midextend(a, at, by)
      PROVE  AnyInv'
  <2>1. at \in Int
    BY <1>2, SizeAssumption
  <2>2. QED
    BY <1>7, <2>1, MidExtendStep
<1>8. ASSUME NEW a \in Anchor, NEW from \in Anchor, PseudoFlex_reanchor(a, from)
      PROVE  AnyInv'
  BY <1>8, ReanchorStep
<1>9. ASSUME NEW a \in Anchor, NEW i \in 0..(MaxSize - 1), NEW b \in Byte \ {Junk},
             ClientWrite(a, i, b)
      PROVE  AnyInv'
  BY <1>9, WriteStep
<1>10. ASSUME NEW newstate \in Switches \cup {-1}, PseudoFlex_set_budge(newstate) PROVE AnyInv'
  <2>1. CASE Aborts
    BY <2>1, StopStep DEF Ops
  <2>2. ASSUME newstate \in -1..1 \/ ~Asserts,
               budge_state' = IF newstate # -1 THEN newstate ELSE budge_state,
               Returns("set_budge", budge_state),
               UNCHANGED <<blockVars, held, failRate, defer_compact>>
        PROVE  AnyInv'
    <3>1. budge_state \in Stored /\ defer_compact \in Stored
      BY DEF AnyInv, TypeOK, Stored
    <3>2. newstate # -1 => newstate \in Stored
      BY <1>10, <2>2 DEF Stored, Switches, Enforced
    <3>3. budge_state' \in Stored /\ defer_compact' \in Stored /\ budge_state \in Int
      BY <2>2, <3>1, <3>2, StoredFacts
    <3>4. QED
      BY <2>2, <3>3, QuietStep DEF Returns, AnyInv, TypeOK, Ops, Stored
  <2>3. QED
    BY <1>10, <2>1, <2>2 DEF PseudoFlex_set_budge
<1>11. ASSUME NEW newstate \in Switches, PseudoFlex_set_deferred_compaction(newstate)
       PROVE  AnyInv'
  <2>1. CASE Aborts
    BY <2>1, StopStep DEF Ops
  <2>2. ASSUME newstate \in {0, 1} \/ ~Asserts, defer_compact' = newstate,
               Returns("set_deferred_compaction", defer_compact),
               UNCHANGED <<blockVars, held, failRate, budge_state>>
        PROVE  AnyInv'
    <3>1. budge_state \in Stored /\ defer_compact \in Stored
      BY DEF AnyInv, TypeOK, Stored
    <3>2. newstate \in Stored
      BY <1>11, <2>2 DEF Stored, Switches, Enforced
    <3>3. budge_state' \in Stored /\ defer_compact' \in Stored /\ defer_compact \in Int
      BY <2>2, <3>1, <3>2, StoredFacts
    <3>4. QED
      BY <2>2, <3>3, QuietStep DEF Returns, AnyInv, TypeOK, Ops, Stored
  <2>3. QED
    BY <1>11, <2>1, <2>2 DEF PseudoFlex_set_deferred_compaction
<1>12. CASE PseudoFlex_init
  <2>1. CASE Aborts
    BY <2>1, StopStep DEF Ops
  <2>2. CASE Returns("init", 0) /\ UNCHANGED <<blockVars, tuning, held>>
    BY <2>2, QuietStep DEF Returns, tuning, AnyInv, TypeOK, Ops
  <2>3. QED
    BY <1>12, <2>1, <2>2 DEF PseudoFlex_init
<1>13. CASE PseudoFlex_save_heap_info
  BY <1>13, StopStep DEF PseudoFlex_save_heap_info, Ops
<1>14. CASE PseudoFlex_compact
  BY <1>14, StopStep DEF PseudoFlex_compact, Ops
<1>15. ASSUME NEW percent \in Rates, Fortify_SetAllocateFailRate(percent) PROVE AnyInv'
  BY <1>15, QuietStep, RateAssumption
  DEF Fortify_SetAllocateFailRate, AnyInv, TypeOK, Ops
<1>16. QED
  BY <1>1, <1>3, <1>4, <1>5, <1>6, <1>7, <1>8, <1>9, <1>10, <1>11, <1>12, <1>13,
     <1>14, <1>15 DEF Next

\* AnyInv holds initially.
LEMMA AnyInit ==
  ASSUME Init
  PROVE  AnyInv
<1>1. block_list \in Seq(PseudoFlexRecord) /\ Len(block_list) = 0
  BY EmptySeq DEF Init
<1>2. {budge_state, defer_compact} \subseteq (IF Enforced THEN {0, 1} ELSE Switches)
  BY DEF Init, Switches
<1>3. QED
  BY <1>1, <1>2 DEF Init, AnyInv, TypeOK, AnchorsSound, Ops

\* Every variable keeps its type whatever the client does and passes: a state the
\* library does not know is stored only without assertions (PseudoFlex.c:336, 394).
THEOREM TypeSafety == Spec => []TypeOK
<1>1. Init => AnyInv
  BY AnyInit
<1>2. AnyInv /\ [Next]_vars => AnyInv'
  BY AnyStep
<1>3. AnyInv => TypeOK
  BY DEF AnyInv
<1>4. QED
  BY <1>1, <1>2, <1>3, PTL DEF Spec

\* No sequence of calls, by any client, in a build with or without assertions,
\* leaves an anchor pointing to a block that was freed or that is another's.
THEOREM AnchorsAlwaysSound == Spec => []AnchorsSound
<1>1. Init => AnyInv
  BY AnyInit
<1>2. AnyInv /\ [Next]_vars => AnyInv'
  BY AnyStep
<1>3. AnyInv => AnchorsSound
  BY DEF AnyInv
<1>4. QED
  BY <1>1, <1>2, <1>3, PTL DEF Spec

-----------------------------------------------------------------------------
(* A client that keeps to the rules: every operation preserves ClientInv. *)

\* What remains of ClientInv once AnyInv is known to be preserved.
Books == NoLeak /\ BooksAgree /\ NoFault

\* The books do not depend on the settings or on the last result.
LEMMA QuietBooks ==
  ASSUME Books, UNCHANGED <<blockVars, held, status>>
  PROVE  Books'
  BY DEF Books, NoLeak, BooksAgree, NoFault, blockVars

\* The record of an anchor that is held is found, and it is right.
LEMMA FoundFacts ==
  ASSUME ClientInv, Disciplined, NEW a \in Anchor, held[a] # NotHeld
  PROVE  /\ find_anchor(a) # {}
         /\ \A i \in find_anchor(a) : block_list[i].size = held[a]
         /\ anchors[a] \in Addr
         /\ held[a] \in 0..MaxSize
         /\ DOMAIN Block(anchors[a]) = 0..(held[a] - 1)
         /\ \A op : ~(find_anchor(a) = {} /\ Rejects(op))
<1>1. PICK i \in DOMAIN block_list : block_list[i].anchor = a
  BY DEF ClientInv, BooksAgree
<1>2. DOMAIN block_list = 1..Len(block_list) /\ Len(block_list) \in Nat
  BY LenProperties DEF ClientInv, AnyInv, TypeOK
<1>3. \A j \in 1..(i - 1) : j \in DOMAIN block_list /\ block_list[j].anchor # a
  BY <1>1, <1>2 DEF ClientInv, BooksAgree
<1>4. i \in find_anchor(a)
  BY <1>1, <1>3 DEF find_anchor, block_has_anchor
<1>5. \A j \in find_anchor(a) : block_list[j].size = held[a]
  BY DEF find_anchor, block_has_anchor, ClientInv, BooksAgree
<1>6. anchors[a] \in Addr /\ held[a] \in 0..MaxSize
  BY DEF ClientInv, BooksAgree, AnyInv, TypeOK
<1>7. DOMAIN Block(anchors[a]) = 0..(held[a] - 1)
  BY <1>6, PointerAssumption DEF Block, ClientInv, BooksAgree
<1>8. QED
  BY <1>4, <1>5, <1>6, <1>7

\* PseudoFlex_alloc on a vacant anchor enters the block in every book.
LEMMA AllocBooks ==
  ASSUME ClientInv, AnyInv', Disciplined, NEW a \in Anchor, NEW n \in 0..MaxSize,
         PseudoFlex_alloc(a, n)
  PROVE  Books'
<1>1. CASE Fails("alloc")
  BY <1>1, QuietBooks DEF Fails, Returns, ClientInv, Books
<1>2. ASSUME NEW blk \in Fortify_malloc(n), blk # NULL,
             heap' = [heap EXCEPT ![blk] = Uninit(n)],
             records' = records + 1,
             block_list' = linkedlist_insert([anchor |-> a, size |-> n]),
             anchors' = [anchors EXCEPT ![a] = blk],
             held' = [held EXCEPT ![a] = n],
             Returns("alloc", 1), UNCHANGED tuning
      PROVE  Books'
  <2> DEFINE r == [anchor |-> a, size |-> n]
  <2>1. blk \in Addr /\ heap[blk] = NoBlock
    BY <1>2, MallocFacts, SizeAssumption
  <2>2. held[a] = NotHeld /\ anchors[a] = NULL
    BY DEF PseudoFlex_alloc, Vacant, ClientInv, BooksAgree
  <2>3. r \in PseudoFlexRecord /\ block_list \in Seq(PseudoFlexRecord)
    BY DEF PseudoFlexRecord, ClientInv, AnyInv, TypeOK
  <2>4. /\ DOMAIN block_list' = 1..(Len(block_list) + 1)
        /\ Len(block_list') = Len(block_list) + 1
        /\ block_list'[1] = r
        /\ \A i \in DOMAIN block_list : block_list'[i + 1] = block_list[i]
        /\ DOMAIN block_list = 1..Len(block_list)
        /\ Len(block_list) \in Nat
    BY <1>2, <2>3, InsertFacts, LenProperties DEF linkedlist_insert
  <2>5. \A i \in DOMAIN block_list : block_list[i].anchor # a
    BY <2>2 DEF ClientInv, BooksAgree
  <2>6. \A i \in DOMAIN block_list' :
          i # 1 => i - 1 \in DOMAIN block_list /\ block_list'[i] = block_list[i - 1]
    BY <2>4
  <2>7. Uninit(n) # NoBlock /\ DOMAIN Uninit(n) = 0..(n - 1)
    BY UninitFacts, ByteAssumption
  <2>8. NoLeak'
    BY <1>2, <2>1, <2>2, <2>7, PointerAssumption
    DEF NoLeak, ClientInv, AnyInv, TypeOK, AnchorsSound
  <2>9. BooksAgree'
    <3>1. records' = Len(block_list')
      BY DEF AnyInv
    <3>2. ASSUME NEW i \in DOMAIN block_list', NEW j \in DOMAIN block_list',
                 block_list'[i].anchor = block_list'[j].anchor
          PROVE  i = j
      <4>1. CASE i = 1 \/ j = 1
        BY <3>2, <4>1, <2>4, <2>5, <2>6
      <4>2. CASE i # 1 /\ j # 1
        <5>1. i - 1 = j - 1
          BY <3>2, <4>2, <2>6 DEF ClientInv, BooksAgree
        <5>2. QED
          BY <5>1, <2>4
      <4>3. QED
        BY <4>1, <4>2
    <3>3. ASSUME NEW i \in DOMAIN block_list'
          PROVE  held'[block_list'[i].anchor] = block_list'[i].size
      <4>1. CASE i = 1
        BY <1>2, <4>1, <2>4 DEF ClientInv, AnyInv, TypeOK
      <4>2. CASE i # 1
        <5>1. block_list[i - 1] \in PseudoFlexRecord
          BY <4>2, <2>3, <2>4, <2>6, ElementOfSeq
        <5>2. QED
          BY <1>2, <4>2, <5>1, <2>5, <2>6
          DEF ClientInv, AnyInv, TypeOK, BooksAgree, PseudoFlexRecord
      <4>3. QED
        BY <4>1, <4>2
    <3>4. ASSUME NEW b \in Anchor
          PROVE  held'[b] # NotHeld
                   <=> \E i \in DOMAIN block_list' : block_list'[i].anchor = b
      <4>1. CASE b = a
        <5>1. held'[b] = n
          BY <1>2, <4>1 DEF ClientInv, AnyInv, TypeOK
        <5>2. n # NotHeld
          BY DEF NotHeld
        <5>3. 1 \in DOMAIN block_list' /\ block_list'[1].anchor = b
          BY <2>4, <4>1
        <5>4. QED
          BY <5>1, <5>2, <5>3
      <4>2. CASE b # a
        <5>1. held'[b] = held[b]
          BY <1>2, <4>2 DEF ClientInv, AnyInv, TypeOK
        <5>2. ASSUME NEW i \in DOMAIN block_list, block_list[i].anchor = b
              PROVE  \E j \in DOMAIN block_list' : block_list'[j].anchor = b
          <6>1. i + 1 \in DOMAIN block_list' /\ block_list'[i + 1].anchor = b
            BY <5>2, <2>4
          <6>2. QED
            BY <6>1
        <5>3. ASSUME NEW j \in DOMAIN block_list', block_list'[j].anchor = b
              PROVE  \E i \in DOMAIN block_list : block_list[i].anchor = b
          BY <5>3, <4>2, <2>4, <2>6
        <5>4. QED
          BY <5>1, <5>2, <5>3 DEF ClientInv, BooksAgree
      <4>3. QED
        BY <4>1, <4>2
    <3>5. ASSUME NEW b \in Anchor
          PROVE  /\ held'[b] = NotHeld <=> anchors'[b] = NULL
                 /\ anchors'[b] # NULL => DOMAIN heap'[anchors'[b]] = 0..(held'[b] - 1)
      <4>1. CASE b = a
        BY <1>2, <4>1, <2>1, <2>7, PointerAssumption DEF ClientInv, AnyInv, TypeOK, NotHeld
      <4>2. CASE b # a
        <5>1. held'[b] = held[b] /\ anchors'[b] = anchors[b]
          BY <1>2, <4>2 DEF ClientInv, AnyInv, TypeOK
        <5>2. anchors[b] # NULL => anchors[b] # blk /\ heap'[anchors[b]] = heap[anchors[b]]
          BY <1>2, <2>1 DEF ClientInv, AnyInv, TypeOK, AnchorsSound
        <5>3. QED
          BY <5>1, <5>2 DEF ClientInv, BooksAgree
      <4>3. QED
        BY <4>1, <4>2
    <3>6. QED
      BY <3>1, <3>2, <3>3, <3>4, <3>5 DEF BooksAgree
  <2>10. QED
    BY <1>2, <2>8, <2>9 DEF Books, NoFault, Returns, ClientInv
<1>3. QED
  BY <1>1, <1>2, SizeAssumption DEF PseudoFlex_alloc

\* PseudoFlex_free on an anchor that is held takes the block out of every book.
LEMMA FreeBooks ==
  ASSUME ClientInv, AnyInv', Disciplined, NEW a \in Anchor, PseudoFlex_free(a)
  PROVE  Books'
<1>1. held[a] # NotHeld
  BY DEF PseudoFlex_free, Holds
<1>2. PICK k \in find_anchor(a) :
        /\ block_list' = linkedlist_remove(k)
        /\ records' = records - 1
        /\ heap' = Freed(heap, anchors[a])
        /\ anchors' = [anchors EXCEPT ![a] = NULL]
        /\ held' = [held EXCEPT ![a] = NotHeld]
        /\ Returns("free", 0)
  BY <1>1, FoundFacts DEF PseudoFlex_free
<1>3. /\ block_list \in Seq(PseudoFlexRecord)
      /\ k \in DOMAIN block_list /\ block_list[k].anchor = a
      /\ anchors[a] \in Addr
  BY <1>1, FoundFacts DEF ClientInv, AnyInv, TypeOK, find_anchor, block_has_anchor
<1>4. /\ DOMAIN block_list' = 1..(Len(block_list) - 1)
      /\ \A j \in DOMAIN block_list' :
           block_list'[j] = IF j < k THEN block_list[j] ELSE block_list[j + 1]
      /\ DOMAIN block_list = 1..Len(block_list)
      /\ Len(block_list) \in Nat
  BY <1>2, <1>3, RemoveFacts, LenProperties DEF linkedlist_remove
<1> DEFINE old(j) == IF j < k THEN j ELSE j + 1
<1>5. \A j \in DOMAIN block_list' :
        old(j) \in DOMAIN block_list \ {k} /\ block_list'[j] = block_list[old(j)]
  BY <1>3, <1>4
<1>6. \A i \in DOMAIN block_list \ {k} :
        \E j \in DOMAIN block_list' : block_list'[j] = block_list[i]
  <2> TAKE i \in DOMAIN block_list \ {k}
  <2>1. CASE i < k
    BY <2>1, <1>3, <1>4
  <2>2. CASE i > k
    <3>1. i - 1 \in DOMAIN block_list' /\ block_list'[i - 1] = block_list[i]
      BY <2>2, <1>3, <1>4
    <3>2. QED
      BY <3>1
  <2>3. QED
    BY <2>1, <2>2, <1>3, <1>4
<1>7. \A i \in DOMAIN block_list \ {k} : block_list[i].anchor # a
  BY <1>3 DEF ClientInv, BooksAgree
<1>8. NoLeak'
  BY <1>2, <1>3, PointerAssumption
  DEF NoLeak, ClientInv, AnyInv, TypeOK, AnchorsSound, Freed
<1>9. BooksAgree'
  <2>1. records' = Len(block_list')
    BY DEF AnyInv
  <2>2. ASSUME NEW i \in DOMAIN block_list', NEW j \in DOMAIN block_list',
               block_list'[i].anchor = block_list'[j].anchor
        PROVE  i = j
    <3>1. old(i) = old(j)
      BY <2>2, <1>5 DEF ClientInv, BooksAgree
    <3>2. QED
      BY <3>1, <1>3, <1>4
  <2>3. ASSUME NEW i \in DOMAIN block_list'
        PROVE  held'[block_list'[i].anchor] = block_list'[i].size
    <3>1. block_list[old(i)] \in PseudoFlexRecord
      BY <1>3, <1>4, <1>5, ElementOfSeq
    <3>2. block_list[old(i)].anchor # a
      BY <1>5, <1>7
    <3>3. held'[block_list[old(i)].anchor] = held[block_list[old(i)].anchor]
      <4>1. block_list[old(i)].anchor \in Anchor
        BY <3>1 DEF PseudoFlexRecord
      <4> HIDE DEF old
      <4>2. QED
        BY <1>2, <3>2, <4>1 DEF ClientInv, AnyInv, TypeOK
    <3>4. old(i) \in DOMAIN block_list /\ block_list'[i] = block_list[old(i)]
      BY <1>5
    <3> HIDE DEF old
    <3>5. held[block_list[old(i)].anchor] = block_list[old(i)].size
      BY <3>4 DEF ClientInv, BooksAgree
    <3>6. QED
      BY <3>3, <3>4, <3>5
  <2>4. ASSUME NEW b \in Anchor
        PROVE  held'[b] # NotHeld
                 <=> \E i \in DOMAIN block_list' : block_list'[i].anchor = b
    <3>1. CASE b = a
      BY <1>2, <3>1, <1>5, <1>7 DEF ClientInv, AnyInv, TypeOK
    <3>2. CASE b # a
      <4>1. held'[b] = held[b]
        BY <1>2, <3>2 DEF ClientInv, AnyInv, TypeOK
      <4>2. ASSUME NEW i \in DOMAIN block_list, block_list[i].anchor = b
            PROVE  \E j \in DOMAIN block_list' : block_list'[j].anchor = b
        BY <4>2, <3>2, <1>3, <1>6
      <4>3. ASSUME NEW j \in DOMAIN block_list', block_list'[j].anchor = b
            PROVE  \E i \in DOMAIN block_list : block_list[i].anchor = b
        BY <4>3, <1>5
      <4>4. QED
        BY <4>1, <4>2, <4>3 DEF ClientInv, BooksAgree
    <3>3. QED
      BY <3>1, <3>2
  <2>5. ASSUME NEW b \in Anchor
        PROVE  /\ held'[b] = NotHeld <=> anchors'[b] = NULL
               /\ anchors'[b] # NULL => DOMAIN heap'[anchors'[b]] = 0..(held'[b] - 1)
    <3>1. CASE b = a
      BY <1>2, <3>1 DEF ClientInv, AnyInv, TypeOK
    <3>2. CASE b # a
      <4>1. held'[b] = held[b] /\ anchors'[b] = anchors[b]
        BY <1>2, <3>2 DEF ClientInv, AnyInv, TypeOK
      <4>2. anchors[b] # NULL => heap'[anchors[b]] = heap[anchors[b]]
        BY <1>2, <1>3, <3>2 DEF ClientInv, AnyInv, TypeOK, AnchorsSound, Freed
      <4>3. QED
        BY <4>1, <4>2 DEF ClientInv, BooksAgree
    <3>3. QED
      BY <3>1, <3>2
  <2>6. QED
    BY <2>1, <2>2, <2>3, <2>4, <2>5 DEF BooksAgree
<1>10. QED
  BY <1>2, <1>8, <1>9 DEF Books, NoFault, Returns, ClientInv

\* A resize changes the size in the block, in the record and for the client.
LEMMA ResizeBooks ==
  ASSUME ClientInv, AnyInv', Disciplined, NEW op, NEW a \in Anchor,
         held[a] # NotHeld, NEW i \in find_anchor(a),
         NEW q \in Addr, q = anchors[a] \/ heap[q] = NoBlock,
         NEW n \in 0..MaxSize, NEW c \in Contents, DOMAIN c = 0..(n - 1),
         Resize(op, a, i, q, c, n)
  PROVE  Books'
<1> DEFINE r == [block_list[i] EXCEPT !.size = n]
<1>1. /\ heap' = [heap EXCEPT ![anchors[a]] = NoBlock, ![q] = c]
      /\ anchors' = [anchors EXCEPT ![a] = q]
      /\ block_list' = [block_list EXCEPT ![i] = r]
      /\ held' = [held EXCEPT ![a] = n]
      /\ anchors[a] \in Addr
  BY FoundFacts, PointerAssumption DEF Resize, Moved, Freed
<1>2. /\ block_list \in Seq(PseudoFlexRecord) /\ i \in DOMAIN block_list
      /\ block_list[i] \in PseudoFlexRecord /\ block_list[i].anchor = a
  BY ElementOfSeq, LenProperties
  DEF ClientInv, AnyInv, TypeOK, find_anchor, block_has_anchor
<1>3. r \in PseudoFlexRecord /\ r.anchor = a /\ r.size = n
  BY <1>2 DEF PseudoFlexRecord
<1> HIDE DEF r
<1>4. /\ DOMAIN block_list' = DOMAIN block_list
      /\ block_list'[i] = r
      /\ \A j \in DOMAIN block_list : j # i => block_list'[j] = block_list[j]
  BY <1>1, <1>2, <1>3, UpdateFacts
<1>5. \A j \in DOMAIN block_list :
        /\ block_list'[j].anchor = block_list[j].anchor
        /\ block_list[j].anchor = a <=> j = i
        /\ block_list[j] \in PseudoFlexRecord
  BY <1>2, <1>3, <1>4, ElementOfSeq, LenProperties DEF ClientInv, BooksAgree
<1>6. NoLeak'
  <2>1. \A b, d \in Anchor : anchors'[b] # NULL /\ anchors'[b] = anchors'[d] => b = d
    BY DEF AnyInv, AnchorsSound
  <2>2. ASSUME NEW p \in Addr
        PROVE  heap'[p] # NoBlock <=> \E b \in Anchor : anchors'[b] = p
    <3>1. CASE p = q
      BY <1>1, <3>1, ByteAssumption DEF ClientInv, AnyInv, TypeOK
    <3>2. CASE p # q /\ p = anchors[a]
      <4>1. heap'[p] = NoBlock
        BY <1>1, <3>2 DEF ClientInv, AnyInv, TypeOK
      <4>2. \A b \in Anchor : anchors'[b] # p
        BY <1>1, <3>2, PointerAssumption DEF ClientInv, AnyInv, TypeOK, AnchorsSound
      <4>3. QED
        BY <4>1, <4>2
    <3>3. CASE p # q /\ p # anchors[a]
      <4>1. heap'[p] = heap[p]
        BY <1>1, <3>3 DEF ClientInv, AnyInv, TypeOK
      <4>2. \A b \in Anchor : anchors'[b] = p <=> anchors[b] = p
        BY <1>1, <3>3 DEF ClientInv, AnyInv, TypeOK
      <4>3. QED
        BY <4>1, <4>2 DEF ClientInv, NoLeak
    <3>4. QED
      BY <3>1, <3>2, <3>3
  <2>3. QED
    BY <2>1, <2>2 DEF NoLeak
<1>7. BooksAgree'
  <2>1. records' = Len(block_list')
    BY DEF AnyInv
  <2>2. \A j, k \in DOMAIN block_list' :
          block_list'[j].anchor = block_list'[k].anchor => j = k
    BY <1>4, <1>5 DEF ClientInv, BooksAgree
  <2>3. ASSUME NEW j \in DOMAIN block_list'
        PROVE  held'[block_list'[j].anchor] = block_list'[j].size
    <3>1. CASE j = i
      BY <1>1, <1>2, <1>3, <1>4, <3>1 DEF ClientInv, AnyInv, TypeOK
    <3>2. CASE j # i
      BY <1>1, <1>4, <1>5, <3>2
      DEF ClientInv, AnyInv, TypeOK, BooksAgree, PseudoFlexRecord
    <3>3. QED
      BY <3>1, <3>2
  <2>4. ASSUME NEW b \in Anchor
        PROVE  held'[b] # NotHeld
                 <=> \E j \in DOMAIN block_list' : block_list'[j].anchor = b
    <3>1. held'[b] # NotHeld <=> held[b] # NotHeld
      BY <1>1, SizeAssumption DEF ClientInv, AnyInv, TypeOK, NotHeld
    <3>2. QED
      BY <3>1, <1>4, <1>5 DEF ClientInv, BooksAgree
  <2>5. ASSUME NEW b \in Anchor
        PROVE  /\ held'[b] = NotHeld <=> anchors'[b] = NULL
               /\ anchors'[b] # NULL => DOMAIN heap'[anchors'[b]] = 0..(held'[b] - 1)
    <3>1. CASE b = a
      BY <1>1, <3>1, SizeAssumption, PointerAssumption
      DEF ClientInv, AnyInv, TypeOK, NotHeld
    <3>2. CASE b # a
      <4>1. held'[b] = held[b] /\ anchors'[b] = anchors[b]
        BY <1>1, <3>2 DEF ClientInv, AnyInv, TypeOK
      <4>2. anchors[b] # NULL => heap'[anchors[b]] = heap[anchors[b]]
        BY <1>1, <3>2 DEF ClientInv, AnyInv, TypeOK, AnchorsSound
      <4>3. QED
        BY <4>1, <4>2 DEF ClientInv, BooksAgree
    <3>3. QED
      BY <3>1, <3>2
  <2>6. QED
    BY <2>1, <2>2, <2>3, <2>4, <2>5 DEF BooksAgree
<1>8. QED
  BY <1>6, <1>7 DEF Books, NoFault, Resize, Returns, ClientInv

\* PseudoFlex_extend keeps the books.
LEMMA ExtendBooks ==
  ASSUME ClientInv, AnyInv', Disciplined, NEW a \in Anchor, NEW n \in 0..MaxSize,
         PseudoFlex_extend(a, n)
  PROVE  Books'
<1>1. held[a] # NotHeld
  BY DEF PseudoFlex_extend, Holds
<1>2. CASE Fails("extend")
  BY <1>2, QuietBooks DEF Fails, Returns, ClientInv, Books
<1>3. ASSUME NEW i \in find_anchor(a),
             NEW q \in Fortify_realloc(anchors[a], n), q # NULL,
             Resize("extend", a, i, q, Resized(Block(anchors[a]), n), n)
      PROVE  Books'
  <2>1. anchors[a] \in Addr
    BY <1>1, FoundFacts
  <2>2. q \in Addr /\ (q = anchors[a] \/ heap[q] = NoBlock)
    BY <1>3, <2>1, ReallocFacts, SizeAssumption
  <2>3. /\ Resized(Block(anchors[a]), n) \in Contents
        /\ DOMAIN Resized(Block(anchors[a]), n) = 0..(n - 1)
    BY BlockFacts, ResizedFacts DEF ClientInv
  <2>4. QED
    BY <1>1, <1>3, <2>2, <2>3, ResizeBooks
<1>4. QED
  BY <1>1, <1>2, <1>3, FoundFacts, SizeAssumption DEF PseudoFlex_extend

\* The two copies of a truncation stay inside the two blocks.
LEMMA TruncateInBounds ==
  ASSUME NEW size \in Nat, NEW old, DOMAIN old = 0..(size - 1),
         NEW at \in 0..size, NEW by \in Int, by < 0, -by <= at
  PROVE  LET low == Copy(Uninit(size + by), 0, old, 0, at + by) IN
         /\ CopyOK(Uninit(size + by), 0, old, 0, at + by)
         /\ CopyOK(low, at + by, old, at, bytes_to_copy(size, at))
         /\ DOMAIN Copy(low, at + by, old, at, bytes_to_copy(size, at))
               = 0..(size + by - 1)
  BY DEF CopyOK, Copy, Uninit, Span, bytes_to_copy

\* The move of an insertion stays inside the enlarged block.
LEMMA InsertInBounds ==
  ASSUME NEW size \in Nat, NEW grown, NEW at \in 0..size, NEW by \in Nat,
         DOMAIN grown = 0..(size + by - 1)
  PROVE  /\ CopyOK(grown, at + by, grown, at, bytes_to_copy(size, at))
         /\ DOMAIN Copy(grown, at + by, grown, at, bytes_to_copy(size, at))
               = 0..(size + by - 1)
  BY DEF CopyOK, Copy, Span, bytes_to_copy

\* PseudoFlex_midextend keeps the books and its copies stay in their blocks.
LEMMA MidExtendBooks ==
  ASSUME ClientInv, AnyInv', Disciplined, NEW a \in Anchor, NEW at \in 0..MaxSize,
         NEW by \in (-MaxSize)..MaxSize, PseudoFlex_midextend(a, at, by)
  PROVE  Books'
<1> DEFINE size == held[a]
           newsize == size + by
           old == Block(anchors[a])
<1>1. /\ held[a] # NotHeld /\ at <= size /\ -by <= at
      /\ at \in Int /\ by \in Int
  BY SizeAssumption DEF PseudoFlex_midextend, Holds
<1>2. /\ anchors[a] \in Addr /\ size \in 0..MaxSize
      /\ DOMAIN old = 0..(size - 1) /\ old \in Contents
      /\ \A i \in find_anchor(a) : block_list[i].size = size
      /\ ~(find_anchor(a) = {} /\ Rejects("midextend"))
  BY <1>1, FoundFacts, BlockFacts DEF ClientInv
<1>3. at \in 0..size /\ newsize \in Nat /\ size \in Nat
  BY <1>1, <1>2, SizeAssumption
<1>4. CASE Fails("midextend")
  BY <1>4, QuietBooks DEF Fails, Returns, ClientInv, Books
<1>5. ASSUME NEW i \in find_anchor(a), newsize <= MaxSize, by < 0, Truncate(a, i, at, by)
      PROVE  Books'
  <2> DEFINE low == Copy(Uninit(newsize), 0, old, 0, at + by)
             new == Copy(low, at + by, old, at, bytes_to_copy(size, at))
  <2>1. /\ CopyOK(Uninit(newsize), 0, old, 0, at + by)
        /\ CopyOK(low, at + by, old, at, bytes_to_copy(size, at))
        /\ DOMAIN new = 0..(newsize - 1)
    BY <1>1, <1>2, <1>3, <1>5, TruncateInBounds
  <2>2. newsize \in 0..MaxSize
    BY <1>3, <1>5, SizeAssumption
  <2>3. new \in Contents
    <3>1. Uninit(newsize) \in Contents
      BY <2>2, UninitFacts
    <3>2. at + by \in Int /\ bytes_to_copy(size, at) \in Int /\ 0 \in Int
      BY <1>1, <1>3 DEF bytes_to_copy
    <3>3. low \in Contents
      <4> HIDE DEF old, newsize
      <4> QED
        BY <1>2, <2>1, <3>1, <3>2, CopyFacts
    <3>4. QED
      <4> HIDE DEF size, old, newsize, low
      <4> QED
        BY <1>1, <1>2, <2>1, <3>2, <3>3, CopyFacts
  <2>4. \/ Fails("midextend")
        \/ \E q \in Fortify_malloc(newsize) :
             q # NULL /\ Resize("midextend", a, i, q, new, newsize)
    <3>1. block_list[i].size = size
      BY <1>2, <1>5
    <3>2. QED
      BY <1>5, <2>1, <3>1 DEF Truncate
  <2> HIDE DEF size, newsize, old, new
  <2>5. ASSUME NEW q \in Fortify_malloc(newsize), q # NULL,
               Resize("midextend", a, i, q, new, newsize)
        PROVE  Books'
    <3>1. q \in Addr /\ heap[q] = NoBlock
      BY <1>3, <2>5, MallocFacts
    <3>2. QED
      BY <1>1, <2>1, <2>2, <2>3, <2>5, <3>1, ResizeBooks
  <2>6. QED
    BY <1>4, <2>4, <2>5
<1>6. ASSUME NEW i \in find_anchor(a), newsize <= MaxSize, by >= 0, Insert(a, i, at, by)
      PROVE  Books'
  <2> DEFINE grown == Resized(old, newsize)
             new == Copy(grown, at + by, grown, at, bytes_to_copy(size, at))
  <2>1. newsize \in 0..MaxSize /\ by \in Nat
    BY <1>1, <1>3, <1>6, SizeAssumption
  <2>2. grown \in Contents /\ DOMAIN grown = 0..(newsize - 1)
    <3> HIDE DEF newsize, old
    <3> QED
      BY <1>2, <2>1, ResizedFacts
  <2>3. /\ CopyOK(grown, at + by, grown, at, bytes_to_copy(size, at))
        /\ DOMAIN new = 0..(newsize - 1)
    <3> HIDE DEF grown
    <3> QED
      BY <1>3, <2>1, <2>2, InsertInBounds
  <2>4. new \in Contents
    <3>1. at + by \in Int /\ bytes_to_copy(size, at) \in Int
      BY <1>1, <1>3 DEF bytes_to_copy
    <3> HIDE DEF size, grown
    <3>2. QED
      BY <1>1, <2>2, <2>3, <3>1, CopyFacts
  <2>5. \/ Fails("midextend")
        \/ \E q \in Fortify_realloc(anchors[a], newsize) :
             q # NULL /\ Resize("midextend", a, i, q, new, newsize)
    <3>1. block_list[i].size = size
      BY <1>2, <1>6
    <3>2. QED
      BY <1>6, <2>3, <3>1 DEF Insert
  <2> HIDE DEF size, newsize, old, new
  <2>6. ASSUME NEW q \in Fortify_realloc(anchors[a], newsize), q # NULL,
               Resize("midextend", a, i, q, new, newsize)
        PROVE  Books'
    <3>1. q \in Addr /\ (q = anchors[a] \/ heap[q] = NoBlock)
      BY <1>2, <1>3, <2>6, ReallocFacts
    <3>2. QED
      BY <1>1, <2>1, <2>3, <2>4, <2>6, <3>1, ResizeBooks
  <2>7. QED
    BY <1>4, <2>5, <2>6
<1>7. QED
  BY <1>1, <1>2, <1>3, <1>5, <1>6 DEF PseudoFlex_midextend

\* PseudoFlex_reanchor to a vacant anchor moves the entry in every book.
LEMMA ReanchorBooks ==
  ASSUME ClientInv, AnyInv', Disciplined, NEW to \in Anchor, NEW from \in Anchor,
         PseudoFlex_reanchor(to, from)
  PROVE  Books'
<1>1. held[from] # NotHeld /\ held[to] = NotHeld
  BY DEF PseudoFlex_reanchor, Holds, Vacant
<1>2. PICK i \in find_anchor(from) :
        /\ block_list' = [block_list EXCEPT ![i].anchor = to]
        /\ anchors' = [anchors EXCEPT ![to] = anchors[from], ![from] = NULL]
        /\ held' = [held EXCEPT ![to] = held[from], ![from] = NotHeld]
        /\ heap' = heap
        /\ status' = status
  BY <1>1, FoundFacts DEF PseudoFlex_reanchor, Returns
<1> DEFINE r == [block_list[i] EXCEPT !.anchor = to]
<1>3. /\ block_list \in Seq(PseudoFlexRecord) /\ i \in DOMAIN block_list
      /\ block_list[i] \in PseudoFlexRecord /\ block_list[i].anchor = from
      /\ block_list[i].size = held[from]
  BY <1>1, FoundFacts, ElementOfSeq, LenProperties
  DEF ClientInv, AnyInv, TypeOK, find_anchor, block_has_anchor
<1>4. r \in PseudoFlexRecord /\ r.anchor = to /\ r.size = held[from]
  BY <1>3 DEF PseudoFlexRecord
<1>5. block_list' = [block_list EXCEPT ![i] = r]
  BY <1>2
<1> HIDE DEF r
<1>6. /\ DOMAIN block_list' = DOMAIN block_list
      /\ block_list'[i] = r
      /\ \A j \in DOMAIN block_list : j # i => block_list'[j] = block_list[j]
  BY <1>3, <1>4, <1>5, UpdateFacts
<1>7. \A j \in DOMAIN block_list :
        /\ block_list[j] \in PseudoFlexRecord
        /\ block_list[j].anchor = from <=> j = i
        /\ block_list[j].anchor # to
  BY <1>1, <1>3, ElementOfSeq, LenProperties DEF ClientInv, BooksAgree
<1>8. /\ from # to
      /\ \A b \in Anchor :
           /\ held'[b] = IF b = from THEN NotHeld
                         ELSE IF b = to THEN held[from] ELSE held[b]
           /\ anchors'[b] = IF b = from THEN NULL
                            ELSE IF b = to THEN anchors[from] ELSE anchors[b]
  BY <1>1, <1>2 DEF ClientInv, AnyInv, TypeOK
<1>9. anchors[to] = NULL /\ anchors[from] # NULL
  BY <1>1 DEF ClientInv, BooksAgree
<1>10. NoLeak'
  <2>1. \A b, d \in Anchor : anchors'[b] # NULL /\ anchors'[b] = anchors'[d] => b = d
    BY DEF AnyInv, AnchorsSound
  <2>2. ASSUME NEW p \in Addr
        PROVE  heap'[p] # NoBlock <=> \E b \in Anchor : anchors'[b] = p
    <3>1. ASSUME NEW b \in Anchor, anchors[b] = p
          PROVE  \E d \in Anchor : anchors'[d] = p
      BY <3>1, <1>8, <1>9, PointerAssumption
    <3>2. ASSUME NEW b \in Anchor, anchors'[b] = p
          PROVE  \E d \in Anchor : anchors[d] = p
      BY <3>2, <1>8, <1>9, PointerAssumption
    <3>3. QED
      BY <1>2, <3>1, <3>2 DEF ClientInv, NoLeak
  <2>3. QED
    BY <2>1, <2>2 DEF NoLeak
<1>11. BooksAgree'
  <2>1. records' = Len(block_list')
    BY DEF AnyInv
  <2>2. \A j, k \in DOMAIN block_list' :
          block_list'[j].anchor = block_list'[k].anchor => j = k
    BY <1>4, <1>6, <1>7 DEF ClientInv, BooksAgree
  <2>3. ASSUME NEW j \in DOMAIN block_list'
        PROVE  held'[block_list'[j].anchor] = block_list'[j].size
    <3>1. CASE j = i
      BY <1>4, <1>6, <1>8, <3>1
    <3>2. CASE j # i
      BY <1>6, <1>7, <1>8, <3>2 DEF ClientInv, BooksAgree, PseudoFlexRecord
    <3>3. QED
      BY <3>1, <3>2
  <2>4. ASSUME NEW b \in Anchor
        PROVE  held'[b] # NotHeld
                 <=> \E j \in DOMAIN block_list' : block_list'[j].anchor = b
    <3>1. CASE b = to
      BY <1>1, <1>3, <1>4, <1>6, <1>8, <3>1
    <3>2. CASE b = from
      BY <1>4, <1>6, <1>7, <1>8, <3>2
    <3>3. CASE b # to /\ b # from
      BY <1>3, <1>4, <1>6, <1>7, <1>8, <3>3 DEF ClientInv, BooksAgree
    <3>4. QED
      BY <3>1, <3>2, <3>3
  <2>5. ASSUME NEW b \in Anchor
        PROVE  /\ held'[b] = NotHeld <=> anchors'[b] = NULL
               /\ anchors'[b] # NULL => DOMAIN heap'[anchors'[b]] = 0..(held'[b] - 1)
    <3>1. CASE b = to
      <4>1. held'[b] = held[from] /\ anchors'[b] = anchors[from] /\ heap' = heap
        BY <1>2, <1>8, <3>1
      <4>2. DOMAIN heap[anchors[from]] = 0..(held[from] - 1)
        BY <1>9 DEF ClientInv, BooksAgree
      <4>3. QED
        BY <4>1, <4>2, <1>1, <1>9
    <3>2. CASE b = from
      BY <1>8, <3>2
    <3>3. CASE b # to /\ b # from
      <4>1. held'[b] = held[b] /\ anchors'[b] = anchors[b] /\ heap' = heap
        BY <1>2, <1>8, <3>3
      <4>2. /\ held[b] = NotHeld <=> anchors[b] = NULL
            /\ anchors[b] # NULL => DOMAIN heap[anchors[b]] = 0..(held[b] - 1)
        BY DEF ClientInv, BooksAgree
      <4>3. QED
        BY <4>1, <4>2
    <3>4. QED
      BY <3>1, <3>2, <3>3
  <2>6. QED
    BY <2>1, <2>2, <2>3, <2>4, <2>5 DEF BooksAgree
<1>12. QED
  BY <1>2, <1>10, <1>11 DEF Books, NoFault, ClientInv

\* A client's write leaves the books alone.
LEMMA WriteBooks ==
  ASSUME ClientInv, AnyInv', NEW a \in Anchor, NEW i \in Int, NEW b \in Byte,
         ClientWrite(a, i, b)
  PROVE  Books'
<1> DEFINE p == anchors[a]
           c == [heap[p] EXCEPT ![i] = b]
<1>1. /\ p \in Addr /\ heap[p] \in Contents /\ heap' = [heap EXCEPT ![p] = c]
      /\ UNCHANGED <<records, block_list, anchors, held, status>>
  BY DEF ClientWrite, ClientInv, AnyInv, TypeOK, AnchorsSound
<1>2. c \in Contents /\ DOMAIN c = DOMAIN heap[p]
  BY <1>1 DEF Contents
<1> HIDE DEF c
<1>3. /\ \A q \in Addr : heap'[q] # NoBlock <=> heap[q] # NoBlock
      /\ \A q \in Addr : DOMAIN heap'[q] = DOMAIN heap[q]
  BY <1>1, <1>2, ByteAssumption DEF ClientInv, AnyInv, TypeOK
<1>4. \A d \in Anchor : anchors[d] # NULL => anchors[d] \in Addr
  BY DEF ClientInv, AnyInv, TypeOK
<1>5. NoLeak'
  BY <1>1, <1>3 DEF NoLeak, ClientInv
<1>6. BooksAgree'
  BY <1>1, <1>3, <1>4 DEF BooksAgree, ClientInv
<1>7. QED
  BY <1>1, <1>5, <1>6 DEF Books, NoFault, ClientInv

\* The heap has room for the test block of PseudoFlex_init.
LEMMA InitBooks ==
  ASSUME ClientInv, Disciplined, PseudoFlex_init
  PROVE  Books'
<1>1. \A a \in Anchor : anchors[a] = NULL
  BY DEF PseudoFlex_init, ClientInv, BooksAgree
<1>2. Fresh = Addr
  BY <1>1, PointerAssumption DEF Fresh, ClientInv, NoLeak
<1>3. Returns("init", 0) /\ UNCHANGED <<blockVars, tuning, held>>
  BY <1>2, PointerAssumption DEF PseudoFlex_init
<1>4. QED
  BY <1>3, QuietBooks DEF Returns, ClientInv, Books

\* ClientInv is inductive: one case per operation of a disciplined client.
LEMMA ClientStep ==
  ASSUME ClientInv, Disciplined, [Next]_vars
  PROVE  ClientInv'
<1>1. AnyInv'
  BY AnyStep DEF ClientInv
<1> SUFFICES Books'
  BY <1>1 DEF ClientInv, Books
<1>2. Sizes = 0..MaxSize
  BY DEF Sizes
<1>3. CASE UNCHANGED vars
  BY <1>3, QuietBooks DEF vars, blockVars, ClientInv, Books
<1>4. ASSUME NEW a \in Anchor, PseudoFlex_free(a) PROVE Books'
  BY <1>1, <1>4, FreeBooks
<1>5. ASSUME NEW a \in Anchor, PseudoFlex_size(a) PROVE Books'
  <2>1. held[a] # NotHeld
    BY <1>5 DEF PseudoFlex_size, Holds
  <2>2. status' = status /\ UNCHANGED <<blockVars, held>>
    BY <1>5, <2>1, FoundFacts DEF PseudoFlex_size, Returns
  <2>3. QED
    BY <2>2, QuietBooks DEF ClientInv, Books
<1>6. ASSUME NEW a \in Anchor, NEW n \in Sizes, PseudoFlex_alloc(a, n) PROVE Books'
  BY <1>1, <1>2, <1>6, AllocBooks
<1>7. ASSUME NEW a \in Anchor, NEW n \in Sizes, PseudoFlex_extend(a, n) PROVE Books'
  BY <1>1, <1>2, <1>7, ExtendBooks
<1>8. ASSUME NEW a \in Anchor, NEW at \in Sizes, NEW by \in (-MaxSize)..MaxSize,
             PseudoFlex_midextend(a, at, by)
      PROVE  Books'
  BY <1>1, <1>2, <1>8, MidExtendBooks
<1>9. ASSUME NEW a \in Anchor, NEW from \in Anchor, PseudoFlex_reanchor(a, from)
      PROVE  Books'
  BY <1>1, <1>9, ReanchorBooks
<1>10. ASSUME NEW a \in Anchor, NEW i \in 0..(MaxSize - 1), NEW b \in Byte \ {Junk},
              ClientWrite(a, i, b)
       PROVE  Books'
  BY <1>1, <1>10, WriteBooks
<1>11. ASSUME NEW newstate \in Switches \cup {-1}, PseudoFlex_set_budge(newstate) PROVE Books'
  <2>1. newstate \in -1..1
    BY <1>11 DEF Switches
  <2>2. QED
    BY <1>11, <2>1, QuietBooks DEF PseudoFlex_set_budge, Returns, ClientInv, Books
<1>12. ASSUME NEW newstate \in Switches, PseudoFlex_set_deferred_compaction(newstate)
       PROVE  Books'
  <2>1. newstate \in {0, 1}
    BY <1>12 DEF Switches
  <2>2. QED
    BY <1>12, <2>1, QuietBooks
    DEF PseudoFlex_set_deferred_compaction, Returns, ClientInv, Books
<1>13. CASE PseudoFlex_init
  BY <1>13, InitBooks
<1>14. CASE PseudoFlex_save_heap_info \/ PseudoFlex_compact
  BY <1>14, QuietBooks
  DEF PseudoFlex_save_heap_info, PseudoFlex_compact, Fails, Returns, ClientInv, Books
<1>15. ASSUME NEW percent \in Rates, Fortify_SetAllocateFailRate(percent) PROVE Books'
  BY <1>15, QuietBooks DEF Fortify_SetAllocateFailRate, ClientInv, Books
<1>16. QED
  BY <1>3, <1>4, <1>5, <1>6, <1>7, <1>8, <1>9, <1>10, <1>11, <1>12, <1>13, <1>14,
     <1>15 DEF Next

\* ClientInv holds initially.
LEMMA ClientInit ==
  ASSUME Init
  PROVE  ClientInv
<1>1. block_list = <<>> /\ Len(block_list) = 0 /\ DOMAIN block_list = {}
  BY DEF Init
<1>2. QED
  BY <1>1, AnyInit, PointerAssumption DEF Init, ClientInv, NoLeak, BooksAgree, NoFault

\* For a client that keeps to the rules: no block leaks or is shared, the
\* client, the records and the heap agree on every size, and neither an
\* assertion nor a copy out of bounds ever stops the program.
THEOREM ClientSafety == Disciplined => (Spec => [](NoLeak /\ BooksAgree /\ NoFault))
<1> SUFFICES ASSUME Disciplined
             PROVE  Spec => [](NoLeak /\ BooksAgree /\ NoFault)
  OBVIOUS
<1>1. Init => ClientInv
  BY ClientInit
<1>2. ClientInv /\ [Next]_vars => ClientInv'
  BY ClientStep
<1>3. ClientInv => NoLeak /\ BooksAgree /\ NoFault
  BY DEF ClientInv
<1>4. QED
  BY <1>1, <1>2, <1>3, PTL DEF Spec

\* For a client that keeps to the rules every block allocated belongs to one anchor:
\* none is lost when an allocation fails, none has two owners and none is freed twice
\* (PseudoFlex.c:111-120, 249-268).
COROLLARY NeverLeaks == Disciplined => (Spec => []NoLeak)
  BY ClientSafety, PTL

\* For such a client no assertion of the library fails and no copy leaves its block
\* (PseudoFlex.c:258-265, 283).
COROLLARY NeverFaults == Disciplined => (Spec => []NoFault)
  BY ClientSafety, PTL

-----------------------------------------------------------------------------
(* The refinement. *)

\* What FlexStore's variable stands for.
Blocks == [a \in Anchor |-> Owned(a)]

\* Every block but that of a is what it was.
OthersKept(a) == \A b \in Anchor \ {a} : Owned(b)' = Owned(b)

\* What the books say of a block, in terms of what its owner sees.
LEMMA OwnedFacts ==
  ASSUME ClientInv, NEW a \in Anchor
  PROVE  /\ Owned(a) \in Contents \cup {NoBlock}
         /\ Owned(a) = NoBlock <=> held[a] = NotHeld
         /\ Owned(a) # NoBlock =>
              /\ anchors[a] # NULL /\ Owned(a) = heap[anchors[a]]
              /\ Owned(a) = Block(anchors[a])
              /\ held[a] \in 0..MaxSize
              /\ Owned(a) \in [0..(held[a] - 1) -> Byte]
              /\ DOMAIN Owned(a) = 0..(held[a] - 1)
<1>1. CASE anchors[a] = NULL
  BY <1>1 DEF Owned, ClientInv, BooksAgree
<1>2. CASE anchors[a] # NULL
  <2>1. /\ anchors[a] \in Addr /\ held[a] # NotHeld /\ held[a] \in 0..MaxSize
        /\ heap[anchors[a]] # NoBlock /\ heap[anchors[a]] \in Contents
    BY <1>2 DEF ClientInv, BooksAgree, NoLeak, AnyInv, TypeOK
  <2>2. DOMAIN heap[anchors[a]] = 0..(held[a] - 1)
    BY <1>2 DEF ClientInv, BooksAgree
  <2>3. heap[anchors[a]] \in [0..(held[a] - 1) -> Byte]
    BY <2>1, <2>2 DEF Contents
  <2>4. QED
    BY <1>2, <2>1, <2>2, <2>3, ByteAssumption DEF Owned, Block
<1>3. QED
  BY <1>1, <1>2

\* One block becomes one of n bytes, as FlexStore says it.
LEMMA BecomesFacts ==
  ASSUME NEW a \in Anchor, NEW n \in 0..MaxSize,
         Owned(a)' \in [0..(n - 1) -> Byte], OthersKept(a)
  PROVE  Store!Becomes(a, n)
<1>1. Blocks'[a] = Owned(a)'
  BY DEF Blocks
<1>2. Blocks' = [Blocks EXCEPT ![a] = Owned(a)']
  BY DEF Blocks, OthersKept
<1>3. QED
  BY <1>1, <1>2, SizeAssumption DEF Store!Becomes, Blocks

\* A step that leaves heap and anchors alone leaves the blocks alone.
LEMMA SameBlocks ==
  ASSUME UNCHANGED <<heap, anchors>>
  PROVE  UNCHANGED Blocks /\ \A a \in Anchor : Owned(a)' = Owned(a)
  BY DEF Blocks, Owned

\* A call that fails is FlexStore's refusal.
LEMMA RefusedFacts ==
  ASSUME NEW op, Fails(op)
  PROVE  Store!Refused(op)
  BY SameBlocks DEF Fails, Returns, blockVars, Store!Refused, Blocks

\* extend and midextend put the new contents in their block and touch no other.
LEMMA ResizedBlock ==
  ASSUME ClientInv, ClientInv', NEW op, NEW a \in Anchor, NEW i \in DOMAIN block_list,
         NEW n \in 0..MaxSize, NEW c \in Contents, DOMAIN c = 0..(n - 1),
         anchors[a] \in Addr, NEW q \in Addr, q = anchors[a] \/ heap[q] = NoBlock,
         Resize(op, a, i, q, c, n)
  PROVE  /\ Owned(a)' = c /\ Store!Becomes(a, n)
         /\ ret' = [op |-> op, val |-> 1]
<1>1. /\ heap' = [[heap EXCEPT ![anchors[a]] = NoBlock] EXCEPT ![q] = c]
      /\ anchors' = [anchors EXCEPT ![a] = q]
      /\ heap \in [Addr -> Contents \cup {NoBlock}]
      /\ anchors \in [Anchor -> Addr \cup {NULL}]
  BY PointerAssumption DEF Resize, Moved, Freed, ClientInv, AnyInv, TypeOK
<1>2. Owned(a)' = c
  BY <1>1, PointerAssumption DEF Owned
<1>3. ASSUME NEW b \in Anchor, b # a PROVE Owned(b)' = Owned(b)
  <2>1. CASE anchors[b] = NULL
    BY <1>1, <1>3, <2>1 DEF Owned
  <2>2. CASE anchors[b] # NULL
    <3>1. /\ anchors[b] # anchors[a] /\ heap[anchors[b]] # NoBlock
          /\ anchors[b] \in Addr
      BY <1>1, <1>3, <2>2, PointerAssumption DEF ClientInv, NoLeak
    <3>2. anchors[b] # q
      BY <3>1
    <3>3. QED
      BY <1>1, <1>3, <2>2, <3>1, <3>2 DEF Owned
  <2>3. QED
    BY <2>1, <2>2
<1>4. c \in [0..(n - 1) -> Byte]
  BY DEF Contents
<1>5. Store!Becomes(a, n)
  BY <1>2, <1>3, <1>4, BecomesFacts DEF OthersKept
<1>6. QED
  BY <1>2, <1>5 DEF Resize, Returns

-----------------------------------------------------------------------------
(* One lemma per operation. *)

\* PseudoFlex_alloc is Alloc.
LEMMA AllocRefines ==
  ASSUME ClientInv, ClientInv', Disciplined, NEW a \in Anchor, NEW n \in 0..MaxSize,
         PseudoFlex_alloc(a, n)
  PROVE  Store!Alloc(a, n)
<1>1. held[a] = NotHeld /\ Owned(a) = NoBlock /\ ~Store!Owns(a)
  BY OwnedFacts DEF PseudoFlex_alloc, Vacant, Store!Owns
<1>2. CASE Fails("alloc")
  BY <1>1, <1>2, RefusedFacts DEF Store!Alloc
<1>3. ASSUME NEW q \in Fortify_malloc(n), q # NULL,
             heap' = [heap EXCEPT ![q] = Uninit(n)],
             anchors' = [anchors EXCEPT ![a] = q],
             ret' = [op |-> "alloc", val |-> 1]
      PROVE  Store!Alloc(a, n)
  <2>1. q \in Addr /\ heap[q] = NoBlock
    BY <1>3, MallocFacts, SizeAssumption
  <2>2. /\ heap \in [Addr -> Contents \cup {NoBlock}]
        /\ anchors \in [Anchor -> Addr \cup {NULL}]
    BY DEF ClientInv, AnyInv, TypeOK
  <2>3. Owned(a)' = Uninit(n)
    BY <1>3, <2>1, <2>2, PointerAssumption DEF Owned
  <2>4. ASSUME NEW b \in Anchor, b # a PROVE Owned(b)' = Owned(b)
    <3>1. anchors[b] # NULL => heap[anchors[b]] # NoBlock /\ anchors[b] \in Addr
      BY <2>2 DEF ClientInv, NoLeak
    <3>2. QED
      BY <1>3, <2>1, <2>2, <2>4, <3>1 DEF Owned
  <2>5. Uninit(n) \in [0..(n - 1) -> Byte]
    BY ByteAssumption DEF Uninit
  <2>6. Store!Becomes(a, n)
    BY <2>3, <2>4, <2>5, BecomesFacts DEF OthersKept
  <2>7. QED
    BY <1>1, <1>3, <2>6 DEF Store!Alloc, Store!Done
<1>4. ~Aborts
  BY DEF Aborts, ClientInv, NoFault
<1>5. QED
  BY <1>2, <1>3, <1>4 DEF PseudoFlex_alloc, Returns

\* PseudoFlex_free is Free.
LEMMA FreeRefines ==
  ASSUME ClientInv, ClientInv', Disciplined, NEW a \in Anchor, PseudoFlex_free(a)
  PROVE  Store!Free(a)
<1>1. held[a] # NotHeld /\ Owned(a) # NoBlock /\ Store!Owns(a)
  BY OwnedFacts DEF PseudoFlex_free, Holds, Store!Owns
<1>2. /\ heap' = Freed(heap, anchors[a])
      /\ anchors' = [anchors EXCEPT ![a] = NULL]
      /\ ret' = [op |-> "free", val |-> 0]
  BY <1>1, FoundFacts DEF PseudoFlex_free, Returns
<1>3. /\ heap \in [Addr -> Contents \cup {NoBlock}]
      /\ anchors \in [Anchor -> Addr \cup {NULL}]
      /\ anchors[a] \in Addr
  BY <1>1, FoundFacts DEF ClientInv, AnyInv, TypeOK
<1>4. Owned(a)' = NoBlock
  BY <1>2, <1>3 DEF Owned
<1>5. ASSUME NEW b \in Anchor, b # a PROVE Owned(b)' = Owned(b)
  <2>1. anchors[b] # NULL => anchors[b] # anchors[a] /\ anchors[b] \in Addr
    BY <1>3, <1>5 DEF ClientInv, NoLeak
  <2>2. QED
    BY <1>2, <1>3, <1>5, <2>1 DEF Owned, Freed
<1>6. Blocks' = [Blocks EXCEPT ![a] = NoBlock]
  BY <1>4, <1>5 DEF Blocks
<1>7. QED
  BY <1>1, <1>2, <1>6 DEF Store!Free, Blocks

\* PseudoFlex_size is Size.
LEMMA SizeRefines ==
  ASSUME ClientInv, ClientInv', Disciplined, NEW a \in Anchor, PseudoFlex_size(a)
  PROVE  Store!Size(a)
<1>1. held[a] # NotHeld /\ Owned(a) # NoBlock
  BY OwnedFacts DEF PseudoFlex_size, Holds
<1>2. /\ ret' = [op |-> "size", val |-> held[a]]
      /\ UNCHANGED blockVars
  BY <1>1, FoundFacts DEF PseudoFlex_size, Returns
<1>3. UNCHANGED Blocks
  BY <1>2, SameBlocks DEF blockVars
<1>4. held[a] \in 0..MaxSize /\ DOMAIN Owned(a) = 0..(held[a] - 1)
  BY <1>1, OwnedFacts
<1>5. QED
  BY <1>1, <1>2, <1>3, <1>4 DEF Store!Size, Store!Owns, Blocks

\* PseudoFlex_extend is Extend.
LEMMA ExtendRefines ==
  ASSUME ClientInv, ClientInv', Disciplined, NEW a \in Anchor, NEW n \in 0..MaxSize,
         PseudoFlex_extend(a, n)
  PROVE  Store!Extend(a, n)
<1>1. held[a] # NotHeld /\ Owned(a) # NoBlock /\ Store!Owns(a)
  BY OwnedFacts DEF PseudoFlex_extend, Holds, Store!Owns
<1>2. anchors[a] \in Addr /\ Owned(a) = Block(anchors[a]) /\ Block(anchors[a]) \in Contents
  BY <1>1, OwnedFacts, FoundFacts, BlockFacts DEF ClientInv
<1>3. CASE Fails("extend")
  BY <1>1, <1>3, RefusedFacts DEF Store!Extend
<1>4. ASSUME NEW i \in find_anchor(a),
             NEW q \in Fortify_realloc(anchors[a], n), q # NULL,
             Resize("extend", a, i, q, Resized(Block(anchors[a]), n), n)
      PROVE  Store!Extend(a, n)
  <2>1. q \in Addr /\ (q = anchors[a] \/ heap[q] = NoBlock)
    BY <1>2, <1>4, ReallocFacts, SizeAssumption
  <2>2. /\ Resized(Block(anchors[a]), n) \in Contents
        /\ DOMAIN Resized(Block(anchors[a]), n) = 0..(n - 1)
    BY <1>2, ResizedFacts
  <2>3. i \in DOMAIN block_list
    BY <1>4 DEF find_anchor
  <2>4. /\ Owned(a)' = Resized(Owned(a), n)
        /\ Store!Becomes(a, n)
        /\ ret' = [op |-> "extend", val |-> 1]
    BY <1>2, <1>4, <2>1, <2>2, <2>3, ResizedBlock
  <2>5. \A k \in (DOMAIN Owned(a)) \cap (0..(n - 1)) : Owned(a)'[k] = Owned(a)[k]
    BY <2>4 DEF Resized
  <2>6. QED
    BY <1>1, <2>4, <2>5 DEF Store!Extend, Store!Done
<1>5. QED
  BY <1>1, <1>3, <1>4, FoundFacts, SizeAssumption DEF PseudoFlex_extend

\* A copy, one byte at a time.
LEMMA CopiedByte ==
  ASSUME NEW dst, NEW doff \in Int, NEW src, NEW soff \in Int, NEW n \in Int,
         NEW k \in DOMAIN dst, k \in Int
  PROVE  Copy(dst, doff, src, soff, n)[k]
           = IF doff <= k /\ k < doff + n THEN src[soff + (k - doff)] ELSE dst[k]
<1>1. k \in Span(doff, n) <=> doff <= k /\ k < doff + n
  BY DEF Span
<1>2. Copy(dst, doff, src, soff, n)[k]
        = IF k \in Span(doff, n) THEN src[soff + (k - doff)] ELSE dst[k]
  BY DEF Copy
<1>3. QED
  BY <1>1, <1>2

\* The contents that a truncation and an insertion leave.
Truncated(size, old, at, by) ==
  Copy(Copy(Uninit(size + by), 0, old, 0, at + by), at + by, old, at, bytes_to_copy(size, at))

Inserted(size, old, at, by) ==
  Copy(Resized(old, size + by), at + by, Resized(old, size + by), at, bytes_to_copy(size, at))

\* A truncation keeps the bytes below the gap and moves those above it down.
LEMMA TruncatedBytes ==
  ASSUME NEW size \in Nat, NEW old, DOMAIN old = 0..(size - 1),
         NEW at \in 0..size, NEW by \in Int, by < 0, -by <= at
  PROVE  LET new == Truncated(size, old, at, by)
         IN /\ \A k \in 0..(at - 1) : k < at + by => new[k] = old[k]
            /\ \A k \in at..(size - 1) : new[k + by] = old[k]
<1>1. PICK low : low = Copy(Uninit(size + by), 0, old, 0, at + by)
  OBVIOUS
<1>2. PICK new : new = Copy(low, at + by, old, at, bytes_to_copy(size, at))
  OBVIOUS
<1>3. Truncated(size, old, at, by) = new
  BY <1>1, <1>2 DEF Truncated
<1>4. DOMAIN low = 0..(size + by - 1)
  BY <1>1 DEF Copy, Uninit
<1>5. \A k \in 0..(size + by - 1) : k < at + by => low[k] = old[k]
  <2> TAKE k \in 0..(size + by - 1)
  <2>1. k \in DOMAIN Uninit(size + by) /\ at + by \in Int /\ k \in Int /\ 0 <= k /\ 0 \in Int
    BY DEF Uninit
  <2>2. low[k] = IF 0 <= k /\ k < 0 + (at + by) THEN old[0 + (k - 0)]
                 ELSE Uninit(size + by)[k]
    BY <1>1, <2>1, CopiedByte
  <2>3. 0 + (at + by) = at + by /\ 0 + (k - 0) = k
    BY <2>1
  <2>4. QED
    BY <2>1, <2>2, <2>3
<1>6. \A k \in 0..(size + by - 1) :
        new[k] = IF k >= at + by THEN old[k - by] ELSE low[k]
  <2> TAKE k \in 0..(size + by - 1)
  <2>1. /\ k \in DOMAIN low /\ k \in Int
        /\ at + by \in Int /\ at \in Int /\ bytes_to_copy(size, at) \in Int
    BY <1>4 DEF bytes_to_copy
  <2>2. new[k] = IF at + by <= k /\ k < (at + by) + bytes_to_copy(size, at)
                 THEN old[at + (k - (at + by))] ELSE low[k]
    BY <1>2, <2>1, CopiedByte
  <2>3. k < (at + by) + bytes_to_copy(size, at) /\ at + (k - (at + by)) = k - by
    BY DEF bytes_to_copy
  <2>4. at + by <= k <=> k >= at + by
    BY <2>1
  <2>5. QED
    BY <2>2, <2>3, <2>4
<1>7. \A k \in 0..(at - 1) : k < at + by => new[k] = old[k]
  <2> TAKE k \in 0..(at - 1)
  <2>1. k < at + by => k \in 0..(size + by - 1) /\ ~(k >= at + by)
    OBVIOUS
  <2>2. QED
    BY <1>5, <1>6, <2>1
<1>8. \A k \in at..(size - 1) : new[k + by] = old[k]
  <2> TAKE k \in at..(size - 1)
  <2>1. k + by \in 0..(size + by - 1) /\ k + by >= at + by /\ (k + by) - by = k
    OBVIOUS
  <2>2. QED
    BY <1>6, <2>1
<1>9. QED
  BY <1>3, <1>7, <1>8

\* An insertion keeps the bytes below the gap and moves those above it up.
LEMMA InsertedBytes ==
  ASSUME NEW size \in Nat, NEW old, DOMAIN old = 0..(size - 1),
         NEW at \in 0..size, NEW by \in Int, by >= 0
  PROVE  LET new == Inserted(size, old, at, by)
         IN /\ \A k \in 0..(at - 1) : k < at + by => new[k] = old[k]
            /\ \A k \in at..(size - 1) : new[k + by] = old[k]
<1>1. PICK grown : grown = Resized(old, size + by)
  OBVIOUS
<1>2. PICK new : new = Copy(grown, at + by, grown, at, bytes_to_copy(size, at))
  OBVIOUS
<1>3. Inserted(size, old, at, by) = new
  BY <1>1, <1>2 DEF Inserted
<1>4. DOMAIN grown = 0..(size + by - 1)
  BY <1>1 DEF Resized
<1>5. \A k \in 0..(size - 1) : grown[k] = old[k]
  <2> TAKE k \in 0..(size - 1)
  <2>1. k \in 0..(size + by - 1) /\ k \in DOMAIN old
    OBVIOUS
  <2>2. QED
    BY <1>1, <2>1 DEF Resized
<1>6. \A k \in 0..(size + by - 1) :
        new[k] = IF k >= at + by THEN grown[k - by] ELSE grown[k]
  <2> TAKE k \in 0..(size + by - 1)
  <2>1. /\ k \in DOMAIN grown /\ k \in Int
        /\ at + by \in Int /\ at \in Int /\ bytes_to_copy(size, at) \in Int
    BY <1>4 DEF bytes_to_copy
  <2>2. new[k] = IF at + by <= k /\ k < (at + by) + bytes_to_copy(size, at)
                 THEN grown[at + (k - (at + by))] ELSE grown[k]
    BY <1>2, <2>1, CopiedByte
  <2>3. k < (at + by) + bytes_to_copy(size, at) /\ at + (k - (at + by)) = k - by
    BY DEF bytes_to_copy
  <2>4. at + by <= k <=> k >= at + by
    BY <2>1
  <2>5. QED
    BY <2>2, <2>3, <2>4
<1>7. \A k \in 0..(at - 1) : k < at + by => new[k] = old[k]
  <2> TAKE k \in 0..(at - 1)
  <2>1. k \in 0..(size + by - 1) /\ k \in 0..(size - 1) /\ (k < at + by => ~(k >= at + by))
    OBVIOUS
  <2>2. QED
    BY <1>5, <1>6, <2>1
<1>8. \A k \in at..(size - 1) : new[k + by] = old[k]
  <2> TAKE k \in at..(size - 1)
  <2>1. /\ k + by \in 0..(size + by - 1) /\ k + by >= at + by /\ (k + by) - by = k
        /\ k \in 0..(size - 1)
    OBVIOUS
  <2>2. QED
    BY <1>5, <1>6, <2>1
<1>9. QED
  BY <1>3, <1>7, <1>8

\* PseudoFlex_midextend is MidExtend.
LEMMA MidExtendRefines ==
  ASSUME ClientInv, ClientInv', Disciplined, NEW a \in Anchor, NEW at \in 0..MaxSize,
         NEW by \in (-MaxSize)..MaxSize, PseudoFlex_midextend(a, at, by)
  PROVE  Store!MidExtend(a, at, by)
<1> DEFINE size == held[a]
           newsize == size + by
           old == Block(anchors[a])
<1>1. /\ held[a] # NotHeld /\ at <= size /\ -by <= at
      /\ at \in Int /\ by \in Int
  BY SizeAssumption DEF PseudoFlex_midextend, Holds
<1>2. /\ anchors[a] \in Addr /\ size \in 0..MaxSize
      /\ DOMAIN old = 0..(size - 1) /\ old \in Contents
      /\ \A i \in find_anchor(a) : block_list[i].size = size
      /\ ~(find_anchor(a) = {} /\ Rejects("midextend"))
  BY <1>1, FoundFacts, BlockFacts DEF ClientInv
<1>3. at \in 0..size /\ newsize \in Nat /\ size \in Nat
  BY <1>1, <1>2, SizeAssumption
<1>4. Owned(a) = old /\ Owned(a) # NoBlock
  BY <1>1, OwnedFacts
<1>5. CASE Fails("midextend")
  BY <1>4, <1>5, RefusedFacts DEF Store!MidExtend, Store!Owns
<1>6. ASSUME NEW i \in find_anchor(a), newsize \in 0..MaxSize, NEW q \in Addr,
             q = anchors[a] \/ heap[q] = NoBlock,
             NEW new \in Contents, DOMAIN new = 0..(newsize - 1),
             \A k \in 0..(at - 1) : k < at + by => new[k] = old[k],
             \A k \in at..(size - 1) : new[k + by] = old[k],
             Resize("midextend", a, i, q, new, newsize)
      PROVE  Store!MidExtend(a, at, by)
  <2>1. i \in DOMAIN block_list
    BY <1>6 DEF find_anchor
  <2> HIDE DEF newsize
  <2>2. /\ Owned(a)' = new
        /\ Store!Becomes(a, newsize)
        /\ ret' = [op |-> "midextend", val |-> 1]
    BY <1>2, <1>6, <2>1, ResizedBlock
  <2>3. Blocks[a] = old /\ Blocks'[a] = new
    BY <1>4, <2>2 DEF Blocks
  <2>4. size \in at..MaxSize
    BY <1>1, <1>2, SizeAssumption
  <2> USE DEF newsize
  <2> HIDE DEF old, size
  <2>5. Store!Owns(a) /\ Store!Done("midextend")
    BY <1>4, <2>2 DEF Store!Owns, Store!Done
  <2>6. DOMAIN Blocks[a] = 0..(size - 1)
    BY <1>2, <2>3
  <2>7. /\ \A k \in 0..(at - 1) : k < at + by => Blocks'[a][k] = Blocks[a][k]
        /\ \A k \in at..(size - 1) : Blocks'[a][k + by] = Blocks[a][k]
    BY <1>6, <2>3
  <2>8. QED
    BY <1>1, <2>2, <2>4, <2>5, <2>6, <2>7 DEF Store!MidExtend, Blocks
<1>7. ASSUME NEW i \in find_anchor(a), newsize <= MaxSize, by < 0, Truncate(a, i, at, by)
      PROVE  Store!MidExtend(a, at, by)
  <2> DEFINE low == Copy(Uninit(newsize), 0, old, 0, at + by)
             new == Copy(low, at + by, old, at, bytes_to_copy(size, at))
  <2>1. /\ CopyOK(Uninit(newsize), 0, old, 0, at + by)
        /\ CopyOK(low, at + by, old, at, bytes_to_copy(size, at))
        /\ DOMAIN new = 0..(newsize - 1)
    BY <1>1, <1>2, <1>3, <1>7, TruncateInBounds
  <2>2. newsize \in 0..MaxSize
    BY <1>3, <1>7, SizeAssumption
  <2>3. new \in Contents
    <3>1. Uninit(newsize) \in Contents
      BY <2>2, UninitFacts
    <3>2. at + by \in Int /\ bytes_to_copy(size, at) \in Int /\ 0 \in Int
      BY <1>1, <1>3 DEF bytes_to_copy
    <3>3. low \in Contents
      <4> HIDE DEF old, newsize
      <4> QED
        BY <1>2, <2>1, <3>1, <3>2, CopyFacts
    <3>4. QED
      <4> HIDE DEF size, old, newsize, low
      <4> QED
        BY <1>1, <1>2, <2>1, <3>2, <3>3, CopyFacts
  <2>4. \/ Fails("midextend")
        \/ \E q \in Fortify_malloc(newsize) :
             q # NULL /\ Resize("midextend", a, i, q, new, newsize)
    <3>1. block_list[i].size = size
      BY <1>2, <1>7
    <3>2. QED
      BY <1>7, <2>1, <3>1 DEF Truncate
  <2>5. /\ \A k \in 0..(at - 1) : k < at + by => new[k] = old[k]
        /\ \A k \in at..(size - 1) : new[k + by] = old[k]
    <3>1. /\ size \in Nat /\ DOMAIN old = 0..(size - 1) /\ at \in 0..size
          /\ by \in Int /\ by < 0 /\ -by <= at
      BY <1>1, <1>2, <1>3, <1>7
    <3>2. new = Truncated(size, old, at, by)
      BY DEF Truncated
    <3> HIDE DEF old, size, new
    <3>3. /\ \A k \in 0..(at - 1) : k < at + by => Truncated(size, old, at, by)[k] = old[k]
          /\ \A k \in at..(size - 1) : Truncated(size, old, at, by)[k + by] = old[k]
      BY <3>1, TruncatedBytes
    <3>4. QED
      BY <3>2, <3>3
  <2> HIDE DEF size, newsize, old, new
  <2>6. ASSUME NEW q \in Fortify_malloc(newsize), q # NULL,
               Resize("midextend", a, i, q, new, newsize)
        PROVE  Store!MidExtend(a, at, by)
    <3>1. q \in Addr /\ heap[q] = NoBlock
      BY <1>3, <2>6, MallocFacts
    <3>2. QED
      BY <1>6, <2>1, <2>2, <2>3, <2>5, <2>6, <3>1
  <2>7. QED
    BY <1>5, <2>4, <2>6
<1>8. ASSUME NEW i \in find_anchor(a), newsize <= MaxSize, by >= 0, Insert(a, i, at, by)
      PROVE  Store!MidExtend(a, at, by)
  <2> DEFINE grown == Resized(old, newsize)
             new == Copy(grown, at + by, grown, at, bytes_to_copy(size, at))
  <2>1. newsize \in 0..MaxSize /\ by \in Nat
    BY <1>1, <1>3, <1>8, SizeAssumption
  <2>2. grown \in Contents /\ DOMAIN grown = 0..(newsize - 1)
    <3> HIDE DEF newsize, old
    <3> QED
      BY <1>2, <2>1, ResizedFacts
  <2>3. /\ CopyOK(grown, at + by, grown, at, bytes_to_copy(size, at))
        /\ DOMAIN new = 0..(newsize - 1)
    <3> HIDE DEF grown
    <3> QED
      BY <1>3, <2>1, <2>2, InsertInBounds
  <2>4. new \in Contents
    <3>1. at + by \in Int /\ bytes_to_copy(size, at) \in Int
      BY <1>1, <1>3 DEF bytes_to_copy
    <3> HIDE DEF size, grown
    <3>2. QED
      BY <1>1, <2>2, <2>3, <3>1, CopyFacts
  <2>5. \/ Fails("midextend")
        \/ \E q \in Fortify_realloc(anchors[a], newsize) :
             q # NULL /\ Resize("midextend", a, i, q, new, newsize)
    <3>1. block_list[i].size = size
      BY <1>2, <1>8
    <3>2. QED
      BY <1>8, <2>3, <3>1 DEF Insert
  <2>6. /\ \A k \in 0..(at - 1) : k < at + by => new[k] = old[k]
        /\ \A k \in at..(size - 1) : new[k + by] = old[k]
    <3>1. /\ size \in Nat /\ DOMAIN old = 0..(size - 1) /\ at \in 0..size
          /\ by \in Int /\ by >= 0
      BY <1>2, <1>3, <2>1
    <3>2. new = Inserted(size, old, at, by)
      BY DEF Inserted
    <3> HIDE DEF old, size, new
    <3>3. /\ \A k \in 0..(at - 1) : k < at + by => Inserted(size, old, at, by)[k] = old[k]
          /\ \A k \in at..(size - 1) : Inserted(size, old, at, by)[k + by] = old[k]
      BY <3>1, InsertedBytes
    <3>4. QED
      BY <3>2, <3>3
  <2> HIDE DEF size, newsize, old, new
  <2>7. ASSUME NEW q \in Fortify_realloc(anchors[a], newsize), q # NULL,
               Resize("midextend", a, i, q, new, newsize)
        PROVE  Store!MidExtend(a, at, by)
    <3>1. q \in Addr /\ (q = anchors[a] \/ heap[q] = NoBlock)
      BY <1>2, <1>3, <2>7, ReallocFacts
    <3>2. QED
      BY <1>6, <2>1, <2>3, <2>4, <2>6, <2>7, <3>1
  <2>8. QED
    BY <1>5, <2>5, <2>7
<1>9. QED
  BY <1>1, <1>2, <1>3, <1>7, <1>8 DEF PseudoFlex_midextend

\* PseudoFlex_reanchor is Reanchor.
LEMMA ReanchorRefines ==
  ASSUME ClientInv, ClientInv', Disciplined, NEW to \in Anchor, NEW from \in Anchor,
         PseudoFlex_reanchor(to, from)
  PROVE  Store!Reanchor(to, from)
<1>1. /\ held[from] # NotHeld /\ Owned(from) # NoBlock
      /\ held[to] = NotHeld /\ Owned(to) = NoBlock /\ to # from
  BY OwnedFacts DEF PseudoFlex_reanchor, Holds, Vacant
<1>2. /\ anchors' = [anchors EXCEPT ![to] = anchors[from], ![from] = NULL]
      /\ ret' = [op |-> "reanchor", val |-> 1]
      /\ heap' = heap
  BY <1>1, FoundFacts DEF PseudoFlex_reanchor, Returns
<1>3. anchors \in [Anchor -> Addr \cup {NULL}]
  BY DEF ClientInv, AnyInv, TypeOK
<1>4. /\ Owned(to)' = Owned(from) /\ Owned(from)' = NoBlock
      /\ \A b \in Anchor \ {to, from} : Owned(b)' = Owned(b)
  BY <1>1, <1>2, <1>3 DEF Owned
<1>5. Blocks' = [Blocks EXCEPT ![to] = Blocks[from], ![from] = NoBlock]
  BY <1>1, <1>4 DEF Blocks
<1>6. QED
  BY <1>1, <1>2, <1>5 DEF Store!Reanchor, Store!Done, Store!Owns, Blocks

\* A byte written through an anchor is written to that anchor's block alone.
LEMMA WriteRefines ==
  ASSUME ClientInv, NEW a \in Anchor, NEW i \in 0..(MaxSize - 1), NEW b \in Byte,
         ClientWrite(a, i, b)
  PROVE  Store!Write(a, i, b)
<1>1. /\ anchors[a] # NULL /\ anchors[a] \in Addr
      /\ i \in DOMAIN heap[anchors[a]]
      /\ heap' = [heap EXCEPT ![anchors[a]] = [heap[anchors[a]] EXCEPT ![i] = b]]
      /\ ret' = [op |-> "write", val |-> 0]
      /\ anchors' = anchors
      /\ heap \in [Addr -> Contents \cup {NoBlock}]
  BY DEF ClientWrite, ClientInv, AnyInv, TypeOK
<1>2. Owned(a) = heap[anchors[a]] /\ heap[anchors[a]] # NoBlock
  BY <1>1 DEF Owned, ClientInv, NoLeak
<1>3. Owned(a)' = [Owned(a) EXCEPT ![i] = b]
  BY <1>1, <1>2 DEF Owned
<1>4. ASSUME NEW c \in Anchor, c # a PROVE Owned(c)' = Owned(c)
  <2>1. anchors[c] # NULL => anchors[c] # anchors[a]
    BY <1>1, <1>4 DEF ClientInv, NoLeak
  <2>2. QED
    BY <1>1, <2>1 DEF Owned
<1>5. Blocks' = [Blocks EXCEPT ![a] = [Blocks[a] EXCEPT ![i] = b]]
  BY <1>3, <1>4 DEF Blocks
<1>6. Blocks[a] = Owned(a)
  BY DEF Blocks
<1>7. QED
  BY <1>1, <1>2, <1>5, <1>6 DEF Store!Write, Store!Owns, Blocks

\* The other calls leave every block alone.
LEMMA OtherRefines ==
  ASSUME UNCHANGED <<heap, anchors>>,
         ret'.op \in {"set_budge", "init", "compact",
                      "set_deferred_compaction", "save_heap_info", "set_rate"}
  PROVE  Store!Other
  BY SameBlocks DEF Store!Other, Blocks

-----------------------------------------------------------------------------

\* Every step of a disciplined client is a step of FlexStore, or changes
\* nothing there: one case per operation.
LEMMA StepRefines ==
  ASSUME ClientInv, ClientInv', Disciplined, [Next]_vars
  PROVE  Store!Next \/ UNCHANGED <<Blocks, ret>>
<1>1. Sizes = 0..MaxSize
  BY DEF Sizes
<1>2. CASE UNCHANGED vars
  BY <1>2, SameBlocks DEF vars
<1>3. ASSUME NEW a \in Anchor, PseudoFlex_free(a) PROVE Store!Next
  BY <1>3, FreeRefines DEF Store!Next
<1>4. ASSUME NEW a \in Anchor, PseudoFlex_size(a) PROVE Store!Next
  BY <1>4, SizeRefines DEF Store!Next
<1>5. ASSUME NEW a \in Anchor, NEW n \in Sizes, PseudoFlex_alloc(a, n) PROVE Store!Next
  BY <1>1, <1>5, AllocRefines DEF Store!Next
<1>6. ASSUME NEW a \in Anchor, NEW n \in Sizes, PseudoFlex_extend(a, n) PROVE Store!Next
  BY <1>1, <1>6, ExtendRefines DEF Store!Next
<1>7. ASSUME NEW a \in Anchor, NEW at \in Sizes, NEW by \in (-MaxSize)..MaxSize,
             PseudoFlex_midextend(a, at, by)
      PROVE  Store!Next
  BY <1>1, <1>7, MidExtendRefines DEF Store!Next
<1>8. ASSUME NEW a \in Anchor, NEW from \in Anchor, PseudoFlex_reanchor(a, from)
      PROVE  Store!Next
  BY <1>8, ReanchorRefines DEF Store!Next
<1>9. ASSUME NEW a \in Anchor, NEW i \in 0..(MaxSize - 1), NEW b \in Byte \ {Junk},
             ClientWrite(a, i, b)
      PROVE  Store!Next
  BY <1>9, WriteRefines DEF Store!Next
<1>10. ASSUME NEW newstate, PseudoFlex_set_budge(newstate) PROVE Store!Next
  <2>1. ~Aborts
    BY DEF Aborts, ClientInv, NoFault
  <2>2. QED
    BY <1>10, <2>1, OtherRefines DEF Store!Next, PseudoFlex_set_budge, Returns, blockVars
<1>11. ASSUME NEW newstate, PseudoFlex_set_deferred_compaction(newstate)
       PROVE  Store!Next
  <2>1. ~Aborts
    BY DEF Aborts, ClientInv, NoFault
  <2>2. QED
    BY <1>11, <2>1, OtherRefines
    DEF Store!Next, PseudoFlex_set_deferred_compaction, Returns, blockVars
<1>12. CASE PseudoFlex_init
  <2>1. ~Aborts
    BY DEF Aborts, ClientInv, NoFault
  <2>2. QED
    BY <1>12, <2>1, OtherRefines DEF Store!Next, PseudoFlex_init, Returns, blockVars
<1>13. CASE PseudoFlex_save_heap_info \/ PseudoFlex_compact
  BY <1>13, OtherRefines
  DEF Store!Next, PseudoFlex_save_heap_info, PseudoFlex_compact, Fails, Returns, blockVars
<1>14. ASSUME NEW percent, Fortify_SetAllocateFailRate(percent) PROVE Store!Next
  BY <1>14, OtherRefines DEF Store!Next, Fortify_SetAllocateFailRate, blockVars
<1>15. QED
  BY <1>2, <1>3, <1>4, <1>5, <1>6, <1>7, <1>8, <1>9, <1>10, <1>11, <1>12, <1>13,
     <1>14 DEF Next

\* At first nobody owns a block.
LEMMA InitRefines ==
  ASSUME Init
  PROVE  Store!Init
  BY DEF Init, Store!Init, Owned

\* For a client that keeps to the rules PseudoFlex implements FlexStore: what
\* each anchor owns changes only by the operation called for it, with the bytes
\* PseudoFlex.c:182-299 copies where the client expects them, wherever the heap
\* places a block and whichever allocation fails.
THEOREM ImplementsStore == Disciplined => (Spec => StoreSpec)
<1> SUFFICES ASSUME Disciplined
             PROVE  Spec => StoreSpec
  OBVIOUS
<1>1. Init => ClientInv /\ Store!Init
  BY ClientInit, InitRefines
<1>2. ClientInv /\ [Next]_vars => ClientInv'
  BY ClientStep
<1>3. ClientInv /\ ClientInv' /\ [Next]_vars => [Store!Next]_<<Blocks, ret>>
  BY StepRefines
<1>4. QED
  BY <1>1, <1>2, <1>3, PTL DEF Spec, StoreSpec, Store!Spec, Blocks
=============================================================================
