----------------------------- MODULE FlexStore -----------------------------
(***************************************************************************)
(* What a client of the flex library may rely on: every anchor owns at     *)
(* most one block, an operation either does what it was asked or changes   *)
(* nothing, and only the operation's own bytes may differ afterwards.      *)
(* There are no addresses, no records and no list here: PseudoFlex keeps   *)
(* those and is shown to implement this module.                            *)
(***************************************************************************)
EXTENDS Integers

CONSTANTS Anchor,   \* the flex anchors of the client program
          Byte,     \* the values a byte of a block can have
          NoBlock,  \* the store of an anchor that owns nothing
          MaxSize   \* the bound on the size of a block

VARIABLES store,    \* what each anchor owns
          reply     \* the operation that returned last, and its result

Contents == UNION {[0..(n - 1) -> Byte] : n \in 0..MaxSize}

TypeOK == store \in [Anchor -> Contents \cup {NoBlock}]

\* An operation that returns 0 has had no effect.
Refused(op) == /\ reply' = [op |-> op, val |-> 0]
               /\ UNCHANGED store

Done(op) == reply' = [op |-> op, val |-> 1]

Owns(a) == store[a] # NoBlock

\* The block of a becomes one of n bytes, and the other blocks stay.
Becomes(a, n) ==
  /\ n <= MaxSize /\ store'[a] \in [0..(n - 1) -> Byte]
  /\ store' = [store EXCEPT ![a] = store'[a]]

Init == /\ store = [a \in Anchor |-> NoBlock]
        /\ reply = [op |-> "none", val |-> 0]

\* A new block has the size asked for and unspecified contents.
Alloc(a, n) ==
  \/ Refused("alloc") /\ ~Owns(a)
  \/ Done("alloc") /\ ~Owns(a) /\ Becomes(a, n)

Free(a) ==
  /\ reply' = [op |-> "free", val |-> 0]
  /\ Owns(a)
  /\ store' = [store EXCEPT ![a] = NoBlock]

\* The size reported is the size of the block.
Size(a) ==
  /\ \E n \in 0..MaxSize : /\ reply' = [op |-> "size", val |-> n]
                           /\ Owns(a)
                           /\ DOMAIN store[a] = 0..(n - 1)
  /\ UNCHANGED store

\* The bytes that fit in the new size survive.
Extend(a, n) ==
  \/ Refused("extend") /\ Owns(a)
  \/ /\ Done("extend") /\ Owns(a)
     /\ Becomes(a, n)
     /\ \A i \in (DOMAIN store[a]) \cap (0..(n - 1)) : store'[a][i] = store[a][i]

\* by bytes are inserted at, or -by bytes removed below, the offset at: the
\* bytes before that place stay, the bytes from at onwards move by by.
MidExtend(a, at, by) ==
  \/ Refused("midextend") /\ Owns(a)
  \/ /\ Done("midextend") /\ Owns(a)
     /\ -by <= at
     /\ \E n \in at..MaxSize :
          /\ DOMAIN store[a] = 0..(n - 1)
          /\ Becomes(a, n + by)
          /\ \A i \in 0..(at - 1) : i < at + by => store'[a][i] = store[a][i]
          /\ \A i \in at..(n - 1) : store'[a][i + by] = store[a][i]

\* The block changes hands untouched.
Reanchor(to, from) ==
  /\ Done("reanchor")
  /\ Owns(from) /\ ~Owns(to)
  /\ store' = [store EXCEPT ![to] = store[from], ![from] = NoBlock]

Write(a, i, b) ==
  /\ reply' = [op |-> "write", val |-> 0]
  /\ Owns(a)
  /\ i \in DOMAIN store[a]
  /\ store' = [store EXCEPT ![a][i] = b]

\* The operations that are not about a block leave every block alone.
Other ==
  /\ reply'.op \in {"set_budge", "init", "compact",
                    "set_deferred_compaction", "save_heap_info", "set_rate"}
  /\ UNCHANGED store

Next ==
  \/ \E a \in Anchor :
       \/ Free(a)
       \/ Size(a)
       \/ \E n \in 0..MaxSize : Alloc(a, n) \/ Extend(a, n)
       \/ \E at \in 0..MaxSize, by \in (-MaxSize)..MaxSize : MidExtend(a, at, by)
       \/ \E from \in Anchor : Reanchor(a, from)
       \/ \E i \in 0..(MaxSize - 1), b \in Byte : Write(a, i, b)
  \/ Other

Spec == Init /\ [][Next]_<<store, reply>>
=============================================================================
